SPECIFICATION Spec
CONSTANTS
  HasHandshake = TRUE
  HasTransportShutdown = TRUE
  HasConnectHandler = TRUE
  HasProtocolShutdown = TRUE
  HasHeartbeat = TRUE
  HasTeardown = TRUE
  ReadStatus = {"ok", "close", "want_read", "want_write", "error"}
  WriteStatus = {"ok", "close", "want_read", "want_write", "error"}
  StepStatus = {"ok", "close", "want_read", "want_write", "error"}
  LateEvents = FALSE
  RX_CAP = 2
  TX_CAP = 2
  Fds = {3}
INVARIANTS EndpointFreedOnce
