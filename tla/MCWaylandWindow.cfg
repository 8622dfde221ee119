SPECIFICATION FairWindowSpec
CONSTANTS
  Tops = {1, 2}
  Popups = {3}
  Nested = FALSE
  Disorderly = FALSE
  InHaste = FALSE
  MaxEvents = 5
  MaxDrops = 1
  MaxLaunches = 2
INVARIANTS
  WindowsAreSeen
PROPERTIES
  NeverClosesUnasked
  PicksUpAgain
CHECK_DEADLOCK FALSE
