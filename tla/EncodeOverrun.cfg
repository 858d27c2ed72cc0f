CONSTANTS
  LitInline = 6
  Copy1Inline = 5
  CopyInline = 6
  FusedInline = 2
  Room1 = 12
  Room2 = 40
  Room3 = 4000
  MaxCopy1Offset = 5
  MinCopy2Offset = 3
  Copy2Offsets = 16
  MinCopy3Offset = 16
  Copy3Offsets = 5
  MaxCopy2Lits = 4
  MaxCopy3Lits = 3
  SmallBlock = 16
  Saving = 8
  Bytes <- MCNumbers
  Sources <- MCRepeatSources
  Nibble = 3
  ByteMax = 6
  MaxBlockSize = 30
  Lz4Inputs <- MCNoInputs
  Inputs <- MCNoInputs
SPECIFICATION Spec
INVARIANT FitsDst
CHECK_DEADLOCK FALSE
