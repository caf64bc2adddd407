SPECIFICATION FairSpec
CONSTANTS
  N = 2
  Threads = {c1, c2}
  MaxFails = 1
INVARIANT LostIsClosed
CHECK_DEADLOCK FALSE
