CONSTANTS
  Buffers = 2
  BufSize = 2
  Sizes = {0, 4, 5}
  MaxSeeks = 2
SPECIFICATION FairSpec
INVARIANTS Transparent ErrorComesLast BuffersInOnePlace
PROPERTY CallsReturn
