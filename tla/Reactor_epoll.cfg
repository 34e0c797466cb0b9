SPECIFICATION FairSpec
CONSTANTS
  N = 2
  Backend = "epoll"
  PERIOD = 2
  MAX_RESTARTS = 1
  MAX_SIGNALS = 2
INVARIANTS FreshEvents CleanReturn NoRevival
PROPERTIES SignalDelivered ImplementsReactorContract
