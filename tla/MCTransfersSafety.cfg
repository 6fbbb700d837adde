CONSTANTS
  Transfers = {t1, t2}
  Matrices = {}
  NoMatrix = NoMatrix
  NoDoc = NoDoc
  BatchSize = 3
  MaxCrashes = 2
  MaxFailures = 1
SYMMETRY TransferSymmetry
SPECIFICATION Spec
INVARIANTS IInv ReportIsReplay ReportIsSomePrefix
PROPERTIES FinalStateIsKept ImplementsReport
CHECK_DEADLOCK FALSE
