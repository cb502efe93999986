SPECIFICATION Spec
CONSTANTS
  Procs = {p1, p2}
  None = None
  Genesis = 1
  FirstTip = 4
  MaxHeight = 5
  Chunk = 3
  FileMax = 1
  PartSize = 3
  Spare = 1
  Depth = 2
  Indexes = {1, 2}
  MaxTables = 2
  MaxFaults = 1
INVARIANT TypeOK OneProcess ModeKept ModeVouches NoHole Decodable LoadedOnce IdsClash IndexesBuilt CacheFilled
CHECK_DEADLOCK FALSE
SYMMETRY Same
