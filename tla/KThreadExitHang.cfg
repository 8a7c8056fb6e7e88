SPECIFICATION FairSpec
CONSTANTS
  Nobody = Nobody
  NPROC = 2
  NKT = 2
  CPUs = {c1}
  MaxPid = 2
  MaxTid = 3
  Calls = {"create", "exit"}
  InitCalls = {"fork", "wait"}
  PidArgs = {}
  TidArgs = {}
  AllocFails = FALSE
PROPERTIES ExitEndsProcess
CHECK_DEADLOCK FALSE
