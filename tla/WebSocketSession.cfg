SPECIFICATION Spec
CONSTANTS
  MSG_CAP = 3
  MAX_FRAMES = 5
  MAX_STRAY = 1
INVARIANTS TypeOK Reassembly PayloadOnce PongsInOrder QuietAfterClose
