SPECIFICATION Spec
CONSTANTS
  a = a
  b = b
  e1 = e1
  e2 = e2
  w1 = w1
  w2 = w2
  Clients = {a, b}
  EventIds = {e1}
  Workers = {w1, w2}
  Author <- OneFromA
  Recipient <- OneToB
  Priority <- OneClass
  TtlMax <- OneCeiling
  Ttls = {2}
  SyncMax = 1
  MaxRelay = 1
  Collisions = {}
  MaxClock = 1
SYMMETRY WorkerSymmetry
INVARIANTS
  Inv
  DeliveredIsHeld
  ConfirmedIsHeld
PROPERTIES
  KeptUntilHeld
  KeepsPromise
CHECK_DEADLOCK FALSE
