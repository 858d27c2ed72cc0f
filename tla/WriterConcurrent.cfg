CONSTANTS
  SkippableHeader = 2
  MaxIndexEntries = 2
  MinIndexDist = 1
  ReduceFloor = 1
  LinearScan = 2
  Concurrency = 2
  BlockSize = 2
  EstBlock = 2
  FlushOnWrite = FALSE
  GenIndex = TRUE
  AppendIndex = TRUE
  Pad = 3
  MaxUnits = 4
  MaxUsers = 1
  MaxResets = 1
SPECIFICATION FairSpec
INVARIANTS WriterInv WellFormed DirectWriteAlone ClosedIsComplete IndexInStep
PROPERTIES FlushIsBarrier ImplementsOrderedSink CallsReturn
