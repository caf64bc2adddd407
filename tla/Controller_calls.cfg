SPECIFICATION FairSpec
CONSTANTS
  Devices = {d1, d2}
  SEND_BUF_SIZE = 2
  ID_LIMIT = 4
  Trials = 2
  Calls = {"send", "set_frequency", "clear", "firmware_info_list", "close"}
  MaxMessages = 6
  MaxRestarts = 0
  Lossy = FALSE
  Torn = FALSE
  CanLose = FALSE
INVARIANTS KindsKept WholeGains SentIsExecuted
PROPERTIES MessagesArrive CallsReturn
