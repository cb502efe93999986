SPECIFICATION FairSpec
CONSTANTS
  a1 = a1
  a2 = a2
  None = None
  Accounts <- MCAccounts
  CacheMax = 1
  Batches <- MCBatches
  ThreadCounts = {0, 1, 3}
  MaxJobs = 2
  MaxFaults = 1
INVARIANT TypeOK Translated FewWorkers NotMunged NoHang
PROPERTY WaitEnds
CHECK_DEADLOCK FALSE
