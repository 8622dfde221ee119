SPECIFICATION Spec
CONSTANTS
  Sessions = {s1, s2}
  Ids = {1}
  None = none
  MaxFaults = 1
INVARIANTS
  ReadyResolvesOnHello
CHECK_DEADLOCK FALSE
