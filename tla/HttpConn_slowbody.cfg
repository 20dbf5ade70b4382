SPECIFICATION FairSpec
CONSTANTS
  Sizes <- MCSizes
  HeadLen = 4
  Chunk = 2
  MaxSize = 8
CHECK_DEADLOCK FALSE
PROPERTY
  HeadIsAnswered
