SPECIFICATION WireSpec
CONSTANTS
  CAP = 170
  Bytes <- Byte
  Scenarios <- MCScenarios
  Masks <- MCMasks
  Rooms <- MCRooms
  CloseCodes <- MCCloseCodes
  MAX_LIVES = 2
INVARIANTS HandshakeAgrees FramesInOrder KeyDecodes ControlDecodes
PROPERTIES IsAQueue AllIsParsed
CHECK_DEADLOCK FALSE
