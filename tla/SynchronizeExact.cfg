SPECIFICATION Spec
CONSTANTS
  FirstSync = 1
  MaxHeight = 7
  Confirmations = 2
  MaxReorg = 2
  CommitEvery = 2
  BatchMax = 1
  EmptyBlocks = {4}
  Mode = "sync"
  Faults = {"psql", "rpc", "worker", "reorg", "pause"}
  MaxFaults = 3
INVARIANT IndexedOnce IdsFollowBlocks UniqueIds
