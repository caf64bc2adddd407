SPECIFICATION FairSpec
CONSTANTS
  N = 2
  Threads = {c1, c2}
  MaxFails = 2
INVARIANTS HandlerOutlives CleanExit SlavesParked JudgedAsRead
PROPERTIES LinkIsHealthy FailureNoticed
CHECK_DEADLOCK FALSE
