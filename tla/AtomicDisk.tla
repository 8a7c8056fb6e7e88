----------------------------- MODULE AtomicDisk -----------------------------
(***************************************************************************)
(* What kernel/log.c promises to the file system: operations write to a    *)
(* memory image of the disk, and what survives a crash is always the image *)
(* at a moment at which no operation was in progress, so each operation    *)
(* survives as a whole or not at all.                                      *)
(***************************************************************************)
CONSTANTS Blocks, Values, Ops

VARIABLES
  mem,      \* what the operations read
  durable,  \* what a reboot would restore
  active    \* the operations in progress

vars == <<mem, durable, active>>

Init == mem \in [Blocks -> Values] /\ durable = mem /\ active = {}

Begin(o) == o \notin active /\ active' = active \cup {o} /\ UNCHANGED <<mem, durable>>

Write(o, b, v) ==
  o \in active /\ mem' = [mem EXCEPT ![b] = v] /\ UNCHANGED <<durable, active>>

End(o) == o \in active /\ active' = active \ {o} /\ UNCHANGED <<mem, durable>>

Commit == active = {} /\ durable' = mem /\ UNCHANGED <<mem, active>>

Crash == mem' = durable /\ active' = {} /\ UNCHANGED durable

Next ==
  \/ \E o \in Ops : Begin(o) \/ End(o) \/ \E b \in Blocks, v \in Values : Write(o, b, v)
  \/ Commit \/ Crash

Spec == Init /\ [][Next]_vars
=============================================================================
