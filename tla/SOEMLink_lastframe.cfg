SPECIFICATION Spec
CONSTANTS
  SEND_BUF_SIZE = 2
  Callbacks = {c1}
  MaxFrames = 1
  MaxFaults = 0
  KillSync = TRUE
INVARIANT SentBeforeClosed
CHECK_DEADLOCK FALSE
