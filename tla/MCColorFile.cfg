CONSTANTS
  N = 4
  Inputs <- MCInputs
  FullPhys <- MCFull
  CalleePhys <- MCCallee
SPECIFICATION FairSpec
INVARIANTS TypeOK ProperColoring OnlyCandidatesSpill
PROPERTY Terminates
CHECK_DEADLOCK FALSE
