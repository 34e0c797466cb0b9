SPECIFICATION FairSpec
CONSTANTS
  MaxAddrs = 2
  Fds = {3}
  Errors = {"ECONNREFUSED"}
  REC_BYTES = 2
  ROOM = 1
  MAX_TRAFFIC = 6
INVARIANTS OneDescriptor ResultIsClear NoLostEdge NoHiddenData CloseIsComplete NothingLeft
PROPERTIES DataIsNoticed OutputLeaves
