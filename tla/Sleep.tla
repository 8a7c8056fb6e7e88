------------------------------- MODULE Sleep -------------------------------
(***************************************************************************)
(* sleep() and wakeup() as their callers see them.                         *)
(*                                                                         *)
(* sleep(chan, lk) releases the spinlock lk and blocks in one step, which  *)
(* module KThread shows that no wakeup(chan) can fall into.  A caller that *)
(* sleeps keeps its place in the code, since every sleep() stands in a     *)
(* loop that tests its condition again.                                    *)
(***************************************************************************)
CONSTANTS
  Procs,   \* the kernel threads at work
  Nobody   \* no channel; also no thread, no buffer

VARIABLE chan   \* the channel each thread sleeps on, or Nobody

SleepInit == chan = [p \in Procs |-> Nobody]

Awake(p) == chan[p] = Nobody
Sleep(p, c) == chan' = [chan EXCEPT ![p] = c]

\* The channels after wakeup(c).
Woken(c) == [p \in Procs |-> IF chan[p] = c THEN Nobody ELSE chan[p]]
Wakeup(c) == chan' = Woken(c)

\* kill() and kthread_kill() make a sleeping thread runnable: it goes round the
\* loop of its sleep() although nobody woke its channel.
Kicked(p) == ~Awake(p) /\ Sleep(p, Nobody)
=============================================================================
