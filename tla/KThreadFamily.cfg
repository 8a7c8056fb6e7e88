SPECIFICATION Spec
CONSTANTS
  NPROC = 3
  NKT = 1
  CPUs = {c1, c2}
  Nobody = Nobody
  MaxPid = 3
  MaxTid = 3
  Calls = {"fork", "exit", "wait", "kill"}
  InitCalls = {"fork", "wait", "ktick"}
  PidArgs = {0, 2}
  TidArgs = {}
  AllocFails = FALSE
SYMMETRY Symmetry
INVARIANTS TablesAreSound WaitMissesNoExit
