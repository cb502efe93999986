SPECIFICATION FairSpec
CONSTANTS
  FirstSync = 1
  MaxHeight = 7
  Confirmations = 2
  MaxReorg = 2
  CommitEvery = 2
  BatchMax = 1
  EmptyBlocks = {4}
  Mode = "sync"
  Faults = {"powerFail", "kill", "report", "psql", "pause"}
  MaxFaults = 2
INVARIANT SyncedIndexed
PROPERTY ArchiveIsLedger EventuallySynced PauseEnds
