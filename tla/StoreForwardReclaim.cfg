SPECIFICATION GcSpec
CONSTANTS
  a = a
  b = b
  e1 = e1
  e2 = e2
  w1 = w1
  w2 = w2
  Clients = {a, b}
  EventIds = {e1}
  Workers = {w1}
  Author <- OneFromA
  Recipient <- OneToB
  Priority <- OneClass
  TtlMax <- TwoInstants
  Ttls = {1, 3}
  SyncMax = 1
  MaxRelay = 1
  Collisions = {}
  MaxClock = 2
PROPERTIES
  AcceptedIsOwed
  Reclaimed
CHECK_DEADLOCK FALSE
