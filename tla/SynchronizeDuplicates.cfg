SPECIFICATION Spec
CONSTANTS
  FirstSync = 1
  MaxHeight = 7
  Confirmations = 2
  MaxReorg = 2
  CommitEvery = 2
  BatchMax = 1
  EmptyBlocks = {4}
  Mode = "sync"
  Faults = {"powerFail"}
  MaxFaults = 1
INVARIANT IndexedOnce
CHECK_DEADLOCK FALSE
