CONSTANTS
  FirstTmp = 4
  Vregs <- MCVregs
  Consts = {c}
  PhiLists <- MCPhiLists
SPECIFICATION FairSpec
INVARIANTS TypeOK SourcesIntact PhisSimultaneous ScratchPerCycle
PROPERTIES Terminates
CHECK_DEADLOCK FALSE
