SPECIFICATION FairSpec
CONSTANTS
  Terms = {t1, t2}
  Sessions = {s1, s2}
  Ids = {i1, i2}
  None = none
INVARIANTS
  ClocksAreRight
  LiveWindowHoldsItsShell
PROPERTIES
  ImplementsShellLife
  NobodyWaitsForEver
CHECK_DEADLOCK FALSE
