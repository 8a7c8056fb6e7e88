----------------------------- MODULE MCKThread -----------------------------
(* The kernel-thread model on small tables. *)
EXTENDS KThread, TLC

Symmetry == Permutations(CPUs)
=============================================================================
