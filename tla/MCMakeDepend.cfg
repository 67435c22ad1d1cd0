SPECIFICATION Spec
CONSTANTS
  Archives <- MCArchives
  MaxRuns = 3
INVARIANTS
  PartialOnlyInPlace
  RunRepairsTheRest
CHECK_DEADLOCK FALSE
