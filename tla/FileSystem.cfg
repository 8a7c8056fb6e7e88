CONSTANTS
  Procs = {p, q}
  Nobody = Nobody
  NINODE = 3
  Locks = {1, 2, 3}
  Inums = {1, 2, 3}
  Names = {"x", "y"}
  Mixes <- SmallMixes
SYMMETRY Symmetry
SPECIFICATION Spec
INVARIANTS RefsMatch TableMatchesDisk TreeIsSound
