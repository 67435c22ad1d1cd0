SPECIFICATION Spec
CONSTANTS
  Threads = {t1, t2}
  TraceLines = 2
  MaxLogs = 1
  MaxCrashes = 1
PROPERTIES
  CrashIsPrinted
CHECK_DEADLOCK FALSE
