SPECIFICATION FairSpec
CONSTANTS
  Sessions = {w1, w2}
  Chans = {c1, c2}
  None = none
  MaxTimers = 2
INVARIANTS
  WindowsAndSessionsAgree
  NobodyForgotten
PROPERTIES
  AskedBeforeTheDisplayGoes
  StopEndsInExit
  OrphansEnd
CHECK_DEADLOCK FALSE
