CONSTANTS
  MaxIndexEntries = 4
  MinIndexDist = 1
  ReduceFloor = 1
  LinearScan = 3
  BlockSize = 1
  BodySizes <- MCBodySizes
  VarintBase = 2
  MaxChunks = 11
SPECIFICATION Spec
INVARIANTS EntriesAreChunkStarts ScanSound StoredIndexLoads FindIsFloor SeekCost
\* A finished stream is final.
CHECK_DEADLOCK FALSE
