SPECIFICATION FairSpec
CONSTANTS
  SEND_BUF_SIZE = 2
  Callbacks = {c1, c2}
  MaxFrames = 4
  MaxFaults = 2
  KillSync = TRUE
INVARIANTS OneExchange WakeupPending ImageAlive
PROPERTIES WireMovesOn IsFrameLink FramesProgress SendReturns
CHECK_DEADLOCK FALSE
