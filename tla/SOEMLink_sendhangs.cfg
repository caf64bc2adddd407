SPECIFICATION FairSpec
CONSTANTS
  SEND_BUF_SIZE = 1
  Callbacks = {c1}
  MaxFrames = 2
  MaxFaults = 1
  KillSync = TRUE
PROPERTY SendAlwaysReturns
CHECK_DEADLOCK FALSE
