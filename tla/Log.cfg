SPECIFICATION FairSpec
CONSTANTS
  Blocks = {b1, b2, b3}
  Values <- Contents
  Zero = 0
  Ops = {o1, o2, o3}
  MAXOPBLOCKS = 2
  OpBlocks = 1
  LOGSIZE = 4
  nlog = 4
INVARIANTS DurableWhenIdle
PROPERTIES ImplementsAtomicDisk SleeperIsWoken
