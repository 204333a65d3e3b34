CONSTANTS
  EntryLoads = FALSE
  latencyWindow = 2
  CoalesceRounds = 16
  FullPhys <- MCFull
  CalleePhys <- MCCallee
  ArgRegs <- MCArgs
  TrimRounds = 32
  MaxRounds = 2
  MaxForced = 8
  RematReads = 8
SPECIFICATION MCSpec
INVARIANTS ReadsRight LivenessSolved UnsavedKept FallbackSucceeds
CHECK_DEADLOCK FALSE
