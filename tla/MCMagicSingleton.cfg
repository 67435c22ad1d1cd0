SPECIFICATION Spec
CONSTANTS
  Threads = {t1, t2, t3}
  Objects = {o1, o2, o3, o4}
  nullptr = nullptr
  Destroying = "alone"
  MaxCalls = 2
INVARIANTS
  OneObject
  ReturnsTheObject
  SharesKeepAlive
PROPERTIES
  CallsEnd
CHECK_DEADLOCK FALSE
