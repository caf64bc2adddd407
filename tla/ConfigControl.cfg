SPECIFICATION Spec
CONSTANTS
  SETTLE = 6
  CycleValues <- SomeCycles
  FlagValues <- SomeFlags
INVARIANTS CpuWordsKept Follows
