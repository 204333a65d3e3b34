CONSTANTS
  Family = "aliased"
  WordBits = 6
  Fuel = 40
  MaxDepth = 3
  MaxSteps = 6
  PartialFactor = 2
  MaxTrips = 3
  MaxUnrolled = 24
  MinPartialBody = 1
  MaxPartialBody = 6
  MaxSpeculated = 3
SPECIFICATION MCSpec
CHECK_DEADLOCK FALSE
INVARIANT Behaves
