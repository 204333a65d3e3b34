CONSTANTS
  Family = "texts"
  WordBits = 10
  UnrollLimit = 4
  Fuel = 1
  MaxDepth = 5
  MaxSteps = 7
SPECIFICATION MCSpec
CHECK_DEADLOCK FALSE
INVARIANTS ReadsBack Verdict MeaningKept
