CONSTANTS
  MaxBlockOrg = 2
  MaxSnappyBlock = 1
  MaxS2Block = 2
  AllowFallback = TRUE
  IgnoreStreamID = FALSE
  IgnoreCRC = FALSE
  Concurrency = 2
  Streams <- MCMixed
SPECIFICATION FairSpec
INVARIANTS IntactInOrder Owned SuccessIsComplete ValidIsDecoded
PROPERTY Returns
\* A call that has returned is over; Returns says that it does.
CHECK_DEADLOCK FALSE
