SPECIFICATION FairSpec
CONSTANTS
  QUEUE_CAP = 2
  LEVELS = 3
  MAX_DIFFS = 2
  MAX_KILLS = 2
INVARIANTS WorkerOutlivesNet StackOutlivesThreads NoHoles
PROPERTIES ProcessEnds
