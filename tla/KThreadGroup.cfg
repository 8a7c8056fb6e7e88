SPECIFICATION Spec
CONSTANTS
  Nobody = Nobody
  NPROC = 2
  NKT = 2
  CPUs = {c1, c2}
  MaxPid = 2
  MaxTid = 3
  Calls = {"exit", "exec", "create", "kexit", "join", "kkill", "fault", "tick"}
  InitCalls = {"fork", "wait", "kill"}
  PidArgs = {2}
  TidArgs = {0, 1, 2, 3}
  AllocFails = TRUE
SYMMETRY Symmetry
INVARIANTS UniqueIds JoinMissesNoExit LockDiscipline
CHECK_DEADLOCK FALSE
