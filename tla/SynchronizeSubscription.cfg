SPECIFICATION Spec
CONSTANTS
  FirstSync = 1
  MaxHeight = 7
  Confirmations = 2
  MaxReorg = 2
  CommitEvery = 2
  BatchMax = 1
  EmptyBlocks = {4}
  Mode = "subscription"
  Faults = {"powerFail", "rpc", "reorg", "pause"}
  MaxFaults = 3
INVARIANT SyncedRouted
PROPERTY FeedIsLedger
