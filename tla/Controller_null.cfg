SPECIFICATION Spec
CONSTANTS
  Devices = {d1, d2}
  SEND_BUF_SIZE = 2
  ID_LIMIT = 15
  Trials = 1
  Calls = {"send", "send_null"}
  MaxMessages = 6
  MaxRestarts = 0
  Lossy = FALSE
  Torn = FALSE
  CanLose = FALSE
SYMMETRY Symmetry
INVARIANTS KindsKept
