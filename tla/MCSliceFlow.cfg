SPECIFICATION FairSpec
CONSTANTS
  Chans = {c1, c2}
  Lengths = {1, 2}
  MaxSent = 2
  SliceBytes = 1
  HeaderBytes = 1
  WindowStart = 2
  WindowMin = 1
  WindowMax = 3
INVARIANTS
  NeverIdle
  BooksAreExact
PROPERTIES
  ImplementsFifo
  NeitherFloodedNorStarved
CHECK_DEADLOCK FALSE
