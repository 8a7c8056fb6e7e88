CONSTANTS
  Procs = {1, 2}
  Shell = 1
  Nobody = Nobody
  NFILE = 2
  NOFILE = 2
  Pages = {g}
  PIPESIZE = 2
  CounterMod = 4
  Messages <- Texts
  ReadSize = 2
SPECIFICATION Spec
INVARIANTS RefsMatch NoStrandedSleeper
PROPERTY ImplementsChannel
CHECK_DEADLOCK FALSE
