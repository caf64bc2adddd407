SPECIFICATION Spec
CONSTANTS
  Devices = {d1, d2}
  SEND_BUF_SIZE = 2
  ID_LIMIT = 3
  Trials = 1
  Calls = {"set_frequency", "clear"}
  MaxMessages = 4
  MaxRestarts = 1
  Lossy = TRUE
  Torn = TRUE
  CanLose = FALSE
SYMMETRY Symmetry
INVARIANT TypeOK
PROPERTY IsTransfer
