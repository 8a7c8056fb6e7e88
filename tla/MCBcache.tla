----------------------------- MODULE MCBcache -----------------------------
(* An instance of Bcache for TLC. *)
EXTENDS Bcache

ThreadUses == <<{1, 2, 3, 4}, {1}, {1}>>
=============================================================================
