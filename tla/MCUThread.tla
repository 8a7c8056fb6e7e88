----------------------------- MODULE MCUThread -----------------------------
(* UThread with the priorities of enum sched_priority. *)
EXTENDS UThread

AllPriorities == LOW .. HIGH
=============================================================================
