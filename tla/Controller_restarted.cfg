SPECIFICATION Spec
CONSTANTS
  Devices = {d1, d2}
  SEND_BUF_SIZE = 2
  ID_LIMIT = 15
  Trials = 1
  Calls = {"set_frequency", "firmware_info_list"}
  MaxMessages = 6
  MaxRestarts = 1
  Lossy = FALSE
  Torn = FALSE
  CanLose = FALSE
SYMMETRY Symmetry
\* One at a time: each has a counterexample.
INVARIANTS NoFalseAck
\* INVARIANTS SentIsExecuted
