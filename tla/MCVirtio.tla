----------------------------- MODULE MCVirtio -----------------------------
(* An instance of VirtioDisk for TLC. *)
EXTENDS VirtioDisk, TLC

Symmetry == Permutations(Procs)
=============================================================================
