CONSTANTS
  SIGINT = SIGINT
  SIGTERM = SIGTERM
  MaxAdds = 2
  Signals = {SIGINT, SIGTERM}
SPECIFICATION Spec
INVARIANTS GracefulStop
CHECK_DEADLOCK FALSE
