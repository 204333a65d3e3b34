CONSTANTS
  MaxArgs = 4
  ArgRegs = 3
  A0 = 2
  ScratchX2 = 0
  ScratchF2 = 1
  RegNums = {0, 1, 2, 3, 4}
  Calls <- MCCalls
SPECIFICATION FairSpec
INVARIANTS SourcesIntact CalleeReceives OthersUntouched
PROPERTIES Terminates ImplementsParallelCopy
CHECK_DEADLOCK FALSE
