CONSTANTS
  Families = {"words", "edges", "frame"}
  WordBits = 6
  ImmBits = 2
  Compared = {1, 2, 5}
  Functions <- MCFunctions
  Ra = 1
SPECIFICATION MCSpec
INVARIANTS SameResults SignExtended
           ReadsSSAValues ControlFollows CalleeSavedRestored CallerFrameUntouched
CHECK_DEADLOCK FALSE
