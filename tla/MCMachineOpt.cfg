CONSTANTS
  Oracles <- MCOracles
  Horizon = 4
  LayoutHorizon = 5
  CoalesceRounds = 16
  PeepholeRounds = 16
  HoistRounds = 8
  latencyWindow = 2
SPECIFICATION MCSpec
INVARIANTS CountsAreBounds SameEvents BoundaryExact DependencesKept SameInstructions BranchesNeverGrow
PROPERTIES PeakNeverRises Converges
CHECK_DEADLOCK FALSE
