SPECIFICATION Spec
CONSTANTS
  Sessions = {w1}
  Chans = {c1, c2}
  None = none
  MaxTimers = 2
INVARIANT KillHasATarget
CHECK_DEADLOCK FALSE
