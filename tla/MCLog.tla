------------------------------- MODULE MCLog -------------------------------
(* Log with two contents of a block: what mkfs left there, and another. *)
EXTENDS Log

Contents == {Zero, 1}
=============================================================================
