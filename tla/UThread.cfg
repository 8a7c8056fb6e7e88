SPECIFICATION FairSpec
CONSTANTS
  MAX_UTHREADS = 4
  MaxThreads = 4
  LateCreate = FALSE
  Priorities <- AllPriorities
INVARIANTS OneRunning OwnContext
PROPERTY HighThreadRuns
