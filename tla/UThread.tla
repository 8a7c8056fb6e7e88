------------------------------ MODULE UThread ------------------------------
(***************************************************************************)
(* User-level threads: user/uthread.c and user/uswtch.S.  One process, one *)
(* kernel thread; control passes from one user thread to another only in   *)
(* uswtch().  live is the flow of control that executes, and a slot's      *)
(* context is the flow that uswtch() saved there: a flow is a stack (the   *)
(* slot it belongs to, or main's) and whether it is at the first           *)
(* instruction of its start function.                                      *)
(***************************************************************************)
EXTENDS Integers, FiniteSets

CONSTANTS
  MAX_UTHREADS,
  Priorities,   \* the priorities the program asks for
  MaxThreads,   \* bound on the threads in use at once
  LateCreate    \* whether running threads call uthread_create() too

LOW == 0
HIGH == 2

ASSUME SizeAssumption == MAX_UTHREADS \in Nat \ {0}
ASSUME ProgramAssumption ==
  Priorities \subseteq LOW .. HIGH /\ MaxThreads \in Nat /\ LateCreate \in BOOLEAN

VARIABLES
  uthreads_arr,  \* the table: state, priority and context of every slot
  curr_thread,   \* a slot, or None before the first uthread_create()
  started,
  live,          \* the flow that executes
  halted         \* "no", "exit" after exit(0), "fault" after a page fault

vars == <<uthreads_arr, curr_thread, started, live, halted>>

Slots == 0 .. MAX_UTHREADS - 1
None == -1
Flow(s, at) == [stack |-> s, at |-> at]
Main == Flow(None, "body")

state(s) == uthreads_arr[s].state
priority(s) == uthreads_arr[s].priority
Used == {s \in Slots : state(s) # "FREE"}

\* A zeroed bss; main() runs.
Init ==
  /\ uthreads_arr = [s \in Slots |-> [state |-> "FREE", priority |-> LOW, context |-> Main]]
  /\ curr_thread = None
  /\ started = FALSE
  /\ live = Main
  /\ halted = "no"

-----------------------------------------------------------------------------
\* The program is in the body of main() or of a thread's function.
InBody == halted = "no" /\ live.at = "body"
InThread == InBody /\ live # Main

IsFirst(x, S) == x \in S /\ \A y \in S : x <= y

\* What uthread_create() makes of slot i.
NewThread(i, p) == [state |-> "RUNNABLE", priority |-> p, context |-> Flow(i, "start")]

\* uthread_create() takes the first free slot and leaves curr_thread at it.
Create(p) ==
  /\ InBody /\ (live = Main \/ LateCreate) /\ Cardinality(Used) < MaxThreads
  /\ \E i \in Slots :
       /\ IsFirst(i, Slots \ Used)
       /\ uthreads_arr' = [uthreads_arr EXCEPT ![i] = NewThread(i, p)]
       /\ curr_thread' = i
  /\ UNCHANGED <<started, live, halted>>

-----------------------------------------------------------------------------
\* Seeded fault: the search always begins at the start of the table.
ProbeFromZero(id, n) == n

\* The index that iteration n of the search visits: i starts at id + 1, and only
\* its increment is taken modulo the size of the table.
Probe(id, n) == IF n = 0 THEN id + 1 ELSE (id + 1 + n) % MAX_UTHREADS

\* The iterations at which a thread qualifies.  The search starts with LOW as
\* the best priority so far and wants a greater one.
Candidates(id) ==
  {n \in Slots : /\ Probe(id, n) \in Slots
                 /\ state(Probe(id, n)) = "RUNNABLE" /\ priority(Probe(id, n)) > LOW}

\* The thread the search ends with is the first of the greatest priority.
Found(id, s) ==
  \E n \in Candidates(id) :
    /\ s = Probe(id, n)
    /\ \A m \in Candidates(id) :
         priority(Probe(id, m)) < priority(s) \/ (priority(Probe(id, m)) = priority(s) /\ n <= m)

\* From the last slot the search reads one slot beyond the table, which is zero
\* memory or the guard page below the user stack.  A fault ends the process, and
\* what was stored before it is lost with it.
MayFault(id) == Probe(id, 0) = MAX_UTHREADS
Fault == halted' = "fault" /\ UNCHANGED <<uthreads_arr, curr_thread, started, live>>

\* The table after the current thread got state st and thread s was chosen; the
\* flow that called uswtch() is saved in the old slot.
Switched(st, s) ==
  [uthreads_arr EXCEPT ![curr_thread].state = st, ![curr_thread].context = live,
                       ![s].state = "RUNNING"]

\* Seeded faults: yield leaves its caller RUNNING; curr_thread is moved before
\* the address of the old context is taken.
YieldStaysRunning ==
  /\ InThread
  /\ \E s \in Slots :
       /\ Found(curr_thread, s)
       /\ uthreads_arr' = Switched("RUNNING", s)
       /\ curr_thread' = s
       /\ live' = uthreads_arr[s].context
  /\ UNCHANGED <<started, halted>>

YieldSavesInNext ==
  /\ InThread
  /\ \E s \in Slots :
       /\ Found(curr_thread, s)
       /\ uthreads_arr' = [uthreads_arr EXCEPT ![curr_thread].state = "RUNNABLE",
                                               ![s].state = "RUNNING", ![s].context = live]
       /\ curr_thread' = s
       /\ live' = uthreads_arr[s].context
  /\ UNCHANGED <<started, halted>>

\* uthread_yield() when its search finds a thread; without one it returns.
Yield ==
  /\ InThread
  /\ \/ MayFault(curr_thread) /\ Fault
     \/ /\ \E s \in Slots :
             /\ Found(curr_thread, s)
             /\ uthreads_arr' = Switched("RUNNABLE", s)
             /\ curr_thread' = s
             /\ live' = uthreads_arr[s].context
        /\ UNCHANGED <<started, halted>>

\* uthread_exit(): the slot is free before the search.
Exit ==
  /\ InThread
  /\ \/ MayFault(curr_thread) /\ Fault
     \/ /\ \E s \in Slots :
             /\ Found(curr_thread, s)
             /\ uthreads_arr' = Switched("FREE", s)
             /\ curr_thread' = s
             /\ live' = uthreads_arr[s].context
        /\ UNCHANGED <<started, halted>>
     \/ /\ Candidates(curr_thread) = {}
        /\ uthreads_arr' = [uthreads_arr EXCEPT ![curr_thread].state = "FREE"]
        /\ halted' = "exit"
        /\ UNCHANGED <<curr_thread, started, live>>

\* uthread_start_all(), which saves main's flow where nothing ever resumes it.
\* When the search finds no thread, or there is no current thread to start it
\* from, the stores through an invalid pointer fault.
StartAll ==
  /\ InBody /\ ~started
  /\ \/ /\ curr_thread = None \/ MayFault(curr_thread) \/ Candidates(curr_thread) = {}
        /\ Fault
     \/ /\ curr_thread # None
        /\ \E s \in Slots :
             /\ Found(curr_thread, s)
             /\ uthreads_arr' = [uthreads_arr EXCEPT ![s].state = "RUNNING"]
             /\ curr_thread' = s
             /\ live' = uthreads_arr[s].context
        /\ started' = TRUE
        /\ UNCHANGED halted

\* Also main() may call it, on the thread it created last; before there is one
\* the store goes through a null pointer.
SetPriority(p) ==
  /\ InBody
  /\ \/ curr_thread = None /\ Fault
     \/ /\ curr_thread # None
        /\ uthreads_arr' = [uthreads_arr EXCEPT ![curr_thread].priority = p]
        /\ UNCHANGED <<curr_thread, started, live, halted>>

\* A start function begins, and returns: ra still holds its own address.
Enter ==
  /\ halted = "no" /\ live.at = "start"
  /\ live' = [live EXCEPT !.at = "body"]
  /\ UNCHANGED <<uthreads_arr, curr_thread, started, halted>>

Return ==
  /\ InThread
  /\ live' = [live EXCEPT !.at = "start"]
  /\ UNCHANGED <<uthreads_arr, curr_thread, started, halted>>

\* The process is over.
Halted == halted # "no" /\ UNCHANGED vars

Next ==
  \/ \E p \in Priorities : Create(p) \/ SetPriority(p)
  \/ StartAll \/ Yield \/ Exit \/ Enter \/ Return \/ Halted

Spec == Init /\ [][Next]_vars

\* The program's share of cooperative scheduling: a running thread calls
\* uthread_yield() again and again.
FairSpec == Spec /\ WF_vars(Enter) /\ SF_vars(Yield)

-----------------------------------------------------------------------------
Flows == [stack : Slots \cup {None}, at : {"start", "body"}]
Threads == [state : {"FREE", "RUNNING", "RUNNABLE"}, priority : LOW .. HIGH, context : Flows]

\* The table and the current thread have values of their types.
TypeOK ==
  /\ uthreads_arr \in [Slots -> Threads]
  /\ curr_thread \in Slots \cup {None}
  /\ started \in BOOLEAN
  /\ live \in Flows
  /\ halted \in {"no", "exit", "fault"}

\* While threads run, the RUNNING slots are exactly the current one, and the
\* code that executes is on that slot's stack.
OneRunning ==
  started /\ halted = "no" =>
    {s \in Slots : state(s) = "RUNNING"} = {curr_thread} /\ live.stack = curr_thread

\* uswtch() to a thread that waits resumes it on its own stack: no context is
\* lost, and none is saved in two slots.
OwnContext == \A s \in Slots : state(s) = "RUNNABLE" => uthreads_arr[s].context.stack = s

\* A thread of priority HIGH gets its turn, whatever the other threads do with
\* their priorities.  Slot 0 is left out: the search from the last slot skips it,
\* and threads of priority HIGH in the other slots can keep it waiting for ever.
HighThreadRuns ==
  \A s \in Slots \ {0} :
    (started /\ state(s) = "RUNNABLE" /\ priority(s) = HIGH) ~> (live.stack = s \/ halted # "no")
=============================================================================
