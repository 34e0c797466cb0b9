SPECIFICATION RefSpec
CONSTANTS
  HasHandshake = FALSE
  HasTransportShutdown = FALSE
  HasConnectHandler = FALSE
  HasProtocolShutdown = FALSE
  HasHeartbeat = FALSE
  HasTeardown = FALSE
  ReadStatus = {"ok", "close", "want_read", "error"}
  WriteStatus = {"ok", "want_write", "error"}
  StepStatus = {"ok", "close", "want_read", "want_write", "error"}
  LateEvents = TRUE
  RX_CAP = 2
  TX_CAP = 2
  Fds = {3}
PROPERTIES EdgesAreAnswered FlushedBeforeClose
