CONSTANTS
  q1 = q1
  q2 = q2
  Quotes = {q1, q2}
  MaxCrashes = 1
  MaxFailures = 1
SPECIFICATION FairSpec
INVARIANTS IInv NothingElseIsLost
PROPERTIES AcceptedIsKept CatchesUp
CHECK_DEADLOCK FALSE
