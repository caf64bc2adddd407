SPECIFICATION Spec
CONSTANTS
  SEND_BUF_SIZE = 2
  Callbacks = {c1}
  MaxFrames = 1
  MaxFaults = 0
  KillSync = FALSE
INVARIANT ImageAlive
CHECK_DEADLOCK FALSE
