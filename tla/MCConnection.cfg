SPECIFICATION FairSpec
CONSTANTS
  Sessions = {s1, s2}
  Ids = {1}
  None = none
  MaxFaults = 1
INVARIANTS
  OnCloseExactlyOnce
  DropIsNeverAHangUp
  SettledWhenQuiet
PROPERTIES
  StoppedNeverReturns
  NothingHangs
CHECK_DEADLOCK FALSE
