SPECIFICATION Spec
CONSTANTS
  First = 1
  Limit = 3
  Newlines = {2, 4}
  Sizes = {1, 2, 3}
  MaxOut = 6
  MaxChans = 3
  MaxAsked = 2
INVARIANTS
  ScreenIsTheStream
  SizeIsRight
CHECK_DEADLOCK FALSE
