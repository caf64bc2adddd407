SPECIFICATION Spec
CONSTANTS
  SEND_BUF_SIZE = 2
  Callbacks = {c1}
  MaxFrames = 1
  MaxFaults = 1
  KillSync = TRUE
INVARIANT ClosedIsReleased
CHECK_DEADLOCK FALSE
