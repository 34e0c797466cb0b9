SPECIFICATION Spec
CONSTANTS
  N = 1
  Backend = "fstack"
  PERIOD = 2
  MAX_RESTARTS = 1
  MAX_SIGNALS = 1
INVARIANTS FreshEvents
