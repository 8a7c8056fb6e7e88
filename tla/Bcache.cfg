CONSTANTS
  Procs = {1, 2, 3}
  Bufs = {x1, x2, x3}
  Locks = {x1, x2, x3}
  Nobody = Nobody
  Blocks = {1, 2, 3, 4}
  Contents = {TRUE, FALSE}
  Uses <- ThreadUses
  MaxPins = 1
  Writers = {1, 2}
SPECIFICATION Spec
INVARIANTS ReadsLatest RefsCounted NoLostWakeup
