SPECIFICATION Spec
CONSTANTS
  Byte = 200
  Values <- MCValues
  MaxCalls = 3
INVARIANTS
  AcceptsKnownVersions
  DocumentShowsContents
  RejectedLeavesNothing
CHECK_DEADLOCK FALSE
