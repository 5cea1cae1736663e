SPECIFICATION Spec
CONSTANTS
  Callers = {c1}
  Workers = {w1}
  Pollers = {p1, p2}
  Sockets = {s1}
  Page = 1
  MaxTtl = 1
  MaxSignals = 3
  MaxSeq = 1
  MaxClock = 1
  Fcm = Fcm
  None = None
SYMMETRY Symmetry
INVARIANTS
  Inv
  MarkedIsHandedOver
  NothingIsOvertaken
CHECK_DEADLOCK FALSE
