SPECIFICATION Spec
CONSTANTS
  SEND_BUF_SIZE = 2
  Callbacks = {c1}
  MaxFrames = 3
  MaxFaults = 0
  KillSync = TRUE
PROPERTY SentBeforeReplaced
CHECK_DEADLOCK FALSE
