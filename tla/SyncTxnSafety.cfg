SPECIFICATION TxnSpec
CONSTANTS
  EventKeys = {e1, e2}
  Handlers = {w1, w2}
  MaxItems = 2
  MaxSyncs = 3
  MaxBulk = 1
  Bulk = Bulk
SYMMETRY Symmetry
INVARIANTS
  TxnInv
  DeadlocksNeedCrossing
  OverlapBoundsReceipts
CHECK_DEADLOCK FALSE
