CONSTANTS
  MaxBlockOrg = 2
  MaxSnappyBlock = 1
  MaxS2Block = 2
  AllowFallback = TRUE
  IgnoreStreamID = FALSE
  IgnoreCRC = FALSE
  MaxIndexEntries = 9
  MinIndexDist = 1
  ReduceFloor = 1
  LinearScan = 9
  Sizes = {0, 1, 3}
  Streams <- MCThreeBlocks
  Others = {}
  Indexed <- MCThreeBlocks
SPECIFICATION SeekSpec
INVARIANT NextIsRight
