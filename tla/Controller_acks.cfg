SPECIFICATION Spec
CONSTANTS
  Devices = {d1, d2}
  SEND_BUF_SIZE = 1
  ID_LIMIT = 15
  Trials = 1
  Calls = {"clear", "firmware_info_list"}
  MaxMessages = 5
  MaxRestarts = 0
  Lossy = TRUE
  Torn = FALSE
  CanLose = TRUE
SYMMETRY Symmetry
INVARIANTS NoFalseAck OnlyClearMissed
CHECK_DEADLOCK FALSE
