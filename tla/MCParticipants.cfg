CONSTANTS
  p1 = p1
  p2 = p2
  Participants = {p1, p2}
  ApprovedAt <- MCApprovedAt
  MaxVersion = 3
  MaxCrashes = 2
  MaxFailures = 2
SPECIFICATION FairSpec
INVARIANTS IInv MirrorsWhenQuiet LostCreateIsForEver
PROPERTIES NeverGoesBack EveryChangeIsReported
CHECK_DEADLOCK FALSE
