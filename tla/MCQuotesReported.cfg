CONSTANTS
  q1 = q1
  q2 = q2
  Quotes = {q1, q2}
  MaxCrashes = 0
  MaxFailures = 0
SPECIFICATION FairSpec
PROPERTIES ResponsesAreReported
CHECK_DEADLOCK FALSE
