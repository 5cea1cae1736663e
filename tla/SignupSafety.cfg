SPECIFICATION Spec
CONSTANTS
  Numbers = {n1}
  Keys = {k1, k2}
  Tokens = {t1, t2, t3}
  Workers = {w1, w2}
  None = None
SYMMETRY Symmetry
INVARIANTS
  Inv
  EntriesLeadSomewhere
  RegisteredHasAccount
  RestoreResolves
  OverlapBoundsAccounts
CHECK_DEADLOCK FALSE
