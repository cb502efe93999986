SPECIFICATION Spec
CONSTANTS
  FirstSync = 1
  MaxHeight = 7
  Confirmations = 2
  MaxReorg = 2
  CommitEvery = 2
  BatchMax = 1
  EmptyBlocks = {4}
  Mode = "sync"
  Faults = {"query"}
  MaxFaults = 1
INVARIANT UniqueIds
CHECK_DEADLOCK FALSE
