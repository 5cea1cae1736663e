SPECIFICATION Spec
CONSTANTS
  Workers = {w1, w2}
  MaxAttempts = 5
  CodeTtl = 1
  MaxClock = 2
SYMMETRY WorkerSymmetry
INVARIANTS
  Inv
  AttemptsAreLimited
  OneToken
  OverlapBoundsGuesses
CHECK_DEADLOCK FALSE
