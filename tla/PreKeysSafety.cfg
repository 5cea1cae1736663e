SPECIFICATION Spec
CONSTANTS
  g1 = g1
  g2 = g2
  k1 = k1
  k2 = k2
  k3 = k3
  k4 = k4
  Gens = {g1, g2}
  Keys = {k1, k2, k3, k4}
  PoolOf <- TwoPools
  Workers = {w1, w2, w3}
  NoOne = NoOne
  Resends = 2
SYMMETRY WorkerSymmetry
INVARIANTS
  Inv
  ResendsBoundReuse
  RepliesMatch
  KeysAreAccounted
CHECK_DEADLOCK FALSE
