CONSTANTS
  Families = {"shared"}
  WordBits = 6
  ImmBits = 2
  Compared = {1, 2, 5}
  Functions <- MCFunctions
  Ra = 1
SPECIFICATION MCSpec
INVARIANTS ReadsSSAValues
CHECK_DEADLOCK FALSE
