SPECIFICATION Spec
CONSTANTS
  Fragments = {i1}
  Workers = {w1, w2, w3}
  Pks = {p1, p2, p3, p4}
  MaxTtl = 1
  MaxClock = 2
  None = None
SYMMETRY Symmetry
INVARIANTS
  Inv
  OfferedIsStored
  ServedIsWhole
PROPERTIES
  KeptUntilExpired
CHECK_DEADLOCK FALSE
