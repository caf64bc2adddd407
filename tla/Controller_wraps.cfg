SPECIFICATION Spec
CONSTANTS
  Devices = {d1}
  SEND_BUF_SIZE = 1
  ID_LIMIT = 6
  Trials = 1
  Calls = {"send", "set_frequency", "firmware_info_list", "close"}
  MaxMessages = 9
  MaxRestarts = 0
  Lossy = FALSE
  Torn = FALSE
  CanLose = TRUE
INVARIANTS NoFalseAck
CHECK_DEADLOCK FALSE
