CONSTANTS
  SIGINT = SIGINT
  SIGTERM = SIGTERM
  MaxAdds = 2
  Signals = {SIGINT, SIGTERM}
SPECIFICATION FairSpec
INVARIANTS IInv StopLosesOnlyAdds UngracefulOnlyWhenListening
PROPERTIES ComesUpOrEnds SignalEndsProcess
CHECK_DEADLOCK FALSE
