SPECIFICATION Spec
CONSTANTS
  Pubs = {p1, p2}
  Nonces = {n1, n2}
  Workers = {w1, w2}
  Ttl = 1
  MaxClock = 2
  MaxSends = 3
SYMMETRY WorkerSymmetry
INVARIANTS
  Inv
  GrantedIsProven
  BurntStaysBurnt
  OverlapBoundsUses
CHECK_DEADLOCK FALSE
