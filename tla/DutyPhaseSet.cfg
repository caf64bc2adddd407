SPECIFICATION FairSpec
CONSTANTS
  TRANS_NUM = 2
  WORDS = 7
  MaxGen = 2
  Cycles <- SomeCycles
INVARIANTS TypeOK NoLatchInPass RowsInPlace
PROPERTIES TornInOnePlace Settles CounterRecovers
