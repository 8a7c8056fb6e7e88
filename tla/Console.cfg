CONSTANTS
  Procs = {p, q}
  Nobody = Nobody
  TxSize = 1
  TxMod = 3
  RxSize = 1
  Letters = {"a"}
  InSize = 2
  InMod = 4
  ReadSize = 2
  Message <- Text
  Jobs <- SmallJobs
SYMMETRY Symmetry
SPECIFICATION Spec
INVARIANTS NoStall
PROPERTIES ImplementsEditor 
