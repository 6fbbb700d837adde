CONSTANTS
  t1 = t1
  t2 = t2
  b1 = b1
  m1 = m1
  Transfers = {t1, t2}
  Matrices = {m1}
  Batches = {b1}
  KnownBatches = {b1}
  BatchesOf <- MCBatchesOf
  TransfersOf <- TwoTransfers
  BatchOf <- MCBatchOf
  NoMatrix = NoMatrix
  NoDoc = NoDoc
  PageSize = 2
  BatchSize = 2
  MaxCrashes = 1
  MaxFailures = 0
  MaxRestarts = 1
  MaxLost = 0
  SettlesLate = TRUE
SPECIFICATION FairSpec
PROPERTIES KeptUpToDate EveryOutcomeIsReported
CHECK_DEADLOCK FALSE
