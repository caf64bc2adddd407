SPECIFICATION FairSpec
CONSTANTS
  SEND_BUF_SIZE = 2
  Callbacks = {c1}
  MaxFrames = 1
  MaxFaults = 0
  KillSync = TRUE
PROPERTY CloseReturns
CHECK_DEADLOCK FALSE
