CONSTANTS
  t1 = t1
  t2 = t2
  b1 = b1
  m1 = m1
  Transfers = {t1}
  Matrices = {m1}
  Batches = {b1}
  KnownBatches = {b1}
  BatchesOf <- MCBatchesOf
  TransfersOf <- OneTransfer
  BatchOf <- MCBatchOf
  NoMatrix = NoMatrix
  NoDoc = NoDoc
  PageSize = 2
  BatchSize = 2
  MaxCrashes = 0
  MaxFailures = 0
  MaxRestarts = 0
  MaxLost = 0
  SettlesLate = FALSE
SPECIFICATION FairSpec
PROPERTIES KeptUpToDate
CHECK_DEADLOCK FALSE
