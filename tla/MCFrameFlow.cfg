SPECIFICATION FairSpec
CONSTANTS
  Widths = {1, 2}
  MaxCommits = 3
  MaxDrops = 1
  MaxInPipe = 2
INVARIANTS
  PictureCatchesUp
  OneFrameOut
PROPERTIES
  NeverFrozen
CHECK_DEADLOCK FALSE
