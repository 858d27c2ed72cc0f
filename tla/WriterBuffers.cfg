CONSTANTS
  Concurrency = 2
  Bufs <- MCBufs
  Cells <- MCCells
  Padded = TRUE
  MaxBlocks = 3
  MaxResets = 1
SPECIFICATION Spec
INVARIANTS WrittenAsGiven OneOwner
