SPECIFICATION FairSpec
CONSTANTS
  NPROC = 3
  NKT = 1
  CPUs = {c1}
  Nobody = Nobody
  MaxPid = 3
  MaxTid = 3
  Calls = {"fork", "exit", "wait", "tick"}
  InitCalls = {"fork", "wait", "tick"}
  PidArgs = {2}
  TidArgs = {}
  AllocFails = FALSE
PROPERTIES ExitEndsProcess OrphanIsReaped
