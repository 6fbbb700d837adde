CONSTANTS
  t1 = t1
  t2 = t2
  b1 = b1
  m1 = m1
  Transfers = {t1, t2}
  Matrices = {m1}
  Batches = {b1}
  KnownBatches = {b1}
  BatchesOf <- MCBatchesOf
  TransfersOf <- TwoTransfers
  BatchOf <- MCBatchOf
  NoMatrix = NoMatrix
  NoDoc = NoDoc
  PageSize = 2
  BatchSize = 2
  MaxCrashes = 1
  MaxFailures = 1
  MaxRestarts = 1
  MaxLost = 1
  SettlesLate = FALSE
SPECIFICATION Spec
INVARIANTS OutcomeIInv StillSomePrefix StoredInOrder
PROPERTIES OnlyTheOtherUndoes
CHECK_DEADLOCK FALSE
