SPECIFICATION Spec
CONSTANTS
  Threads = {t1, t2}
  TraceLines = 2
  MaxLogs = 2
  MaxCrashes = 2
INVARIANTS
  LogSurvives
PROPERTIES
  CrashEnds
CHECK_DEADLOCK FALSE
