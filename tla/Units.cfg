SPECIFICATION Spec
CONSTANTS
  NPAGES = 19
  PGSIZE = 4
  NPROC = 2
  Pools <- SmallPools
  Increments <- SmallIncrements
  Programs <- SmallPrograms
  Writes <- SmallWrites
  Reads <- SmallReads
  MaxSize = 16
  MaxCalls = 4
  ALIGN = 2
  MAXARG = 2
  ADDRMOD = 256
  Users = {1, 2}
  Inums = {1, 2}
  Opens <- SmallOpens
  NBLOCKS = 5
  BSIZE = 2
  NDIRECT = 1
  BPB = 1
  MAXOPBLOCKS = 6
  Texts <- SmallTexts
  ReadSizes = {3}
  MaxFaults = 1
  MaxChanges = 4
  HeaderSize = 2
  MinCore = 4
  Limit = 13
  Requests = {1, 3, 7}
  MaxHoles = 1
  NCPU = 2
  NTHREAD = 2
  MaxTraps = 3
  FSSIZE = 20
  NMETA = 3
  Argvs <- SmallArgvs
  NOFILE = 6
  MAXARGS = 3
  Rooms = {4, 6}
  Commands <- SmallCommands
  Malformed <- SmallMalformed
INVARIANTS PagesOwnedOnce MapMatchesSize BlocksOwnedOnce ChunkFits HeapTiles LocksShutOut Undisturbed ImageIsSound RunsAsWritten PromptReturns
PROPERTIES ImplementsSpaces ImplementsBytes
CHECK_DEADLOCK FALSE
