SPECIFICATION Spec
CONSTANTS
  FirstSync = 1
  MaxHeight = 7
  Confirmations = 2
  MaxReorg = 2
  CommitEvery = 2
  BatchMax = 1
  EmptyBlocks = {4}
  Mode = "sync"
  Faults = {"powerFail", "kill", "query", "psql", "report", "rpc", "trace", "worker", "reorg", "pause"}
  MaxFaults = 2
INVARIANT TypeOK Canonical
CHECK_DEADLOCK FALSE
