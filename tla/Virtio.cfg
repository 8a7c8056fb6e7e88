CONSTANTS
  Procs = {p1, p2, p3}
  Nobody = Nobody
  Blocks = {n1}
  Contents = {0, 1}
  NUM = 6
  IdxMod = 6
SPECIFICATION Spec
SYMMETRY Symmetry
INVARIANTS DescriptorsOwned NoLostWakeup
PROPERTY ImplementsDevice
