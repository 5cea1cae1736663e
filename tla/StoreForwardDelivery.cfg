SPECIFICATION FairSpec
CONSTANTS
  a = a
  b = b
  e1 = e1
  e2 = e2
  w1 = w1
  w2 = w2
  Clients = {a, b}
  EventIds = {e1, e2}
  Workers = {w1}
  Author <- FromA
  Recipient <- ToB
  Priority <- TwoClasses
  TtlMax <- Ceilings
  Ttls = {2}
  SyncMax = 1
  MaxRelay = 1
  Collisions = {e2}
  MaxClock = 0
PROPERTIES
  EventuallyHeld
CHECK_DEADLOCK FALSE
