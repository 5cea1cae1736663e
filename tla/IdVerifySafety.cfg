SPECIFICATION IdvSpec
CONSTANTS
  a = a
  b = b
  n = n
  Letters = {a, b, n}
  Number = n
  Documents <- OperatorsWrite
  Entries <- UsersWrite
  Callers = {c1}
  Verifiers = {w1}
  EncKey = TRUE
  Months = 2
  Days = 3
  MaxIngests = 2
  None = None
INVARIANTS
  IdvInv
  MatchIsMeaning
CHECK_DEADLOCK FALSE
