SPECIFICATION MCSpec
CONSTANTS
  Byte = 200
  Schema <- MCSchema
  MolDefault <- MCDefault
  SizeOfDefault <- MCDefaultSize
  Accepts <- MCAccepts
  Values <- MCValues
  Capacities = {4, 16}
  MaxCalls = 3
  Half <- MCHalf
  InitialCapacities <- MCCapacities
INVARIANTS
  UsedIsAllocated
  ReadsBack
  VersionsInterwork
  CutOrLongerIsRejected
  MemoryIsSound
PROPERTIES
  PushEnds
CHECK_DEADLOCK FALSE
