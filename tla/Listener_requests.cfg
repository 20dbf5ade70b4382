SPECIFICATION FairSpecL
CONSTANTS
  Sizes <- MCSizes
  HeadLen = 4
  Chunk = 2
  MaxSize = 8
  Line = 2
  Auth = 3
  Caps = {"c1", "c2"}
  Width = 3
  MaxLen = 3
CHECK_DEADLOCK FALSE
INVARIANTS
  TypeOKC
  BufferBounded
  WholeUnlessStalled
  KeysAreWhole
  BodyOnlyAfterCap
  DecidesEquality
  FoldInv
PROPERTIES
  WorkIsBounded
  ClosedOrWholeIsAnswered
  RunsToTheEnd
