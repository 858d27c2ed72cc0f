CONSTANTS
  SkippableHeader = 2
  MaxIndexEntries = 2
  MinIndexDist = 1
  ReduceFloor = 1
  LinearScan = 2
  Concurrency = 1
  BlockSize = 2
  EstBlock = 2
  FlushOnWrite = TRUE
  GenIndex = TRUE
  AppendIndex = TRUE
  Pad = 4
  MaxUnits = 5
  MaxUsers = 2
  MaxResets = 1
SPECIFICATION Spec
INVARIANTS InOrder CountersExact IndexInStep
