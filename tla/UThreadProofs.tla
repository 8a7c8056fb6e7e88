--------------------------- MODULE UThreadProofs ---------------------------
(***************************************************************************)
(* The switching discipline of user/uthread.c for every size of the table, *)
(* when main() creates the threads and the threads create none.            *)
(***************************************************************************)
EXTENDS UThread, TLAPS

USE ZenonT(10), SMTT(60)

\* Before uthread_start_all() main() runs and no slot is RUNNING.
MainFirst == ~started => live = Main /\ \A s \in Slots : state(s) # "RUNNING"

\* The inductive invariant.
IInv == TypeOK /\ OneRunning /\ OwnContext /\ MainFirst

\* The search of yield, exit and start_all ends at a RUNNABLE slot of the table.
LEMMA FoundRunnable ==
  ASSUME NEW id, NEW s, Found(id, s)
  PROVE  s \in Slots /\ state(s) = "RUNNABLE"
BY DEF Found, Candidates

\* A fault ends the process, and the invariant asks nothing more of it.
LEMMA FaultOK == ASSUME IInv, Fault PROVE IInv'
BY DEF IInv, Fault, TypeOK, OneRunning, OwnContext, MainFirst, state

\* A flow that is not main's is the current thread's.
LEMMA ThreadLive ==
  ASSUME IInv, InThread
  PROVE  /\ started /\ halted = "no" /\ curr_thread \in Slots /\ live.stack = curr_thread
         /\ state(curr_thread) = "RUNNING"
         /\ \A s \in Slots : state(s) = "RUNNING" => s = curr_thread
<1>1. started /\ halted = "no"
  BY DEF IInv, MainFirst, InThread, InBody
<1>2. {s \in Slots : state(s) = "RUNNING"} = {curr_thread} /\ live.stack = curr_thread
  BY <1>1 DEF IInv, OneRunning
<1> QED
  BY <1>1, <1>2

\* A switch from the current thread, which gets state st, to a thread that was found.
LEMMA SwitchOK ==
  ASSUME IInv, InThread, NEW st \in {"FREE", "RUNNABLE"}, NEW s \in Slots, state(s) = "RUNNABLE",
         uthreads_arr' = Switched(st, s), curr_thread' = s, live' = uthreads_arr[s].context,
         UNCHANGED <<started, halted>>
  PROVE  IInv'
<1>1. s # curr_thread
  BY ThreadLive
<1>2. uthreads_arr \in [Slots -> Threads] /\ live \in Flows /\ curr_thread \in Slots
  BY ThreadLive DEF IInv, TypeOK
<1> DEFINE r == [uthreads_arr[curr_thread] EXCEPT !.state = st, !.context = live]
           n == [uthreads_arr[s] EXCEPT !.state = "RUNNING"]
<1>3. r \in Threads /\ r.state = st /\ r.context = live
  BY <1>2, ZenonT(60) DEF Threads
<1>4. n \in Threads /\ n.state = "RUNNING"
  BY <1>2 DEF Threads
<1>5. \A u \in Slots : uthreads_arr'[u] = IF u = s THEN n ELSE IF u = curr_thread THEN r ELSE uthreads_arr[u]
  BY <1>1, <1>2 DEF Switched
<1>6. uthreads_arr' \in [Slots -> Threads]
  <2>1. DOMAIN uthreads_arr' = Slots /\ uthreads_arr' = [u \in Slots |-> uthreads_arr'[u]]
    BY <1>2, ZenonT(60) DEF Switched
  <2> HIDE DEF r, n
  <2> QED
    BY <1>2, <1>3, <1>4, <1>5, <2>1
<1>7. uthreads_arr[s].context \in Flows /\ uthreads_arr[s].context.stack = s
  BY <1>2 DEF Threads, IInv, OwnContext, state
<1>8. TypeOK'
  BY <1>6, <1>7 DEF IInv, TypeOK
<1> HIDE DEF r, n
<1>9. OneRunning'
  <2>1. \A u \in Slots : uthreads_arr'[u].state = "RUNNING" <=> u = s
    BY <1>1, <1>3, <1>4, <1>5, ThreadLive DEF state
  <2> QED
    BY <1>7, <2>1 DEF OneRunning, state
<1>10. OwnContext'
  <2>1. ASSUME NEW u \in Slots, uthreads_arr'[u].state = "RUNNABLE"
        PROVE  uthreads_arr'[u].context.stack = u
    BY <1>3, <1>4, <1>5, <2>1, ThreadLive DEF IInv, OwnContext, state
  <2> QED
    BY <2>1 DEF OwnContext, state
<1>11. MainFirst'
  BY ThreadLive DEF MainFirst
<1> QED
  BY <1>8, <1>9, <1>10, <1>11 DEF IInv

\* The last thread to leave makes the process exit.
LEMMA LastExitOK ==
  ASSUME IInv, InThread, uthreads_arr' = [uthreads_arr EXCEPT ![curr_thread].state = "FREE"],
         halted' = "exit", UNCHANGED <<curr_thread, started, live>>
  PROVE  IInv'
<1> DEFINE r == [uthreads_arr[curr_thread] EXCEPT !.state = "FREE"]
<1>1. curr_thread \in Slots /\ uthreads_arr \in [Slots -> Threads] /\ started
  BY ThreadLive DEF IInv, TypeOK
<1>2. r \in Threads /\ r.state = "FREE" /\ uthreads_arr' = [uthreads_arr EXCEPT ![curr_thread] = r]
  BY <1>1 DEF Threads
<1> HIDE DEF r
<1>3. TypeOK'
  BY <1>1, <1>2 DEF IInv, TypeOK
<1>4. OwnContext'
  BY <1>1, <1>2 DEF IInv, OwnContext, state
<1> QED
  BY <1>1, <1>3, <1>4 DEF IInv, OneRunning, MainFirst

\* main() creates a thread in a slot of its own.
LEMMA CreateOK == ASSUME IInv, LateCreate = FALSE, NEW p \in Priorities, Create(p) PROVE IInv'
<1>1. PICK i \in Slots : /\ IsFirst(i, Slots \ Used)
                         /\ uthreads_arr' = [uthreads_arr EXCEPT ![i] = NewThread(i, p)]
                         /\ curr_thread' = i
  BY ZenonT(60) DEF Create
<1>2. live = Main /\ halted = "no" /\ UNCHANGED <<started, live, halted>>
  BY DEF Create, InBody
<1>3. ~started
  BY <1>2 DEF IInv, OneRunning, Main, Flow, None, Slots
<1>4. NewThread(i, p) \in Threads /\ NewThread(i, p).state = "RUNNABLE" /\ NewThread(i, p).context.stack = i
  BY ProgramAssumption DEF NewThread, Threads, Flows, Flow
<1>5. TypeOK'
  BY <1>1, <1>2, <1>4 DEF IInv, TypeOK
<1>6. OwnContext' /\ MainFirst'
  BY <1>1, <1>2, <1>3, <1>4 DEF IInv, TypeOK, OwnContext, MainFirst, state
<1> QED
  BY <1>2, <1>3, <1>5, <1>6 DEF IInv, OneRunning

\* uthread_start_all() starts one thread.
LEMMA StartAllOK == ASSUME IInv, StartAll PROVE IInv'
<1>1. CASE Fault
  BY <1>1, FaultOK
<1>2. ASSUME NEW s \in Slots, Found(curr_thread, s), started' = TRUE, UNCHANGED halted,
             uthreads_arr' = [uthreads_arr EXCEPT ![s].state = "RUNNING"],
             curr_thread' = s, live' = uthreads_arr[s].context
      PROVE  IInv'
  <2> DEFINE n == [uthreads_arr[s] EXCEPT !.state = "RUNNING"]
  <2>1. uthreads_arr \in [Slots -> Threads] /\ state(s) = "RUNNABLE"
    BY <1>2, FoundRunnable DEF IInv, TypeOK
  <2>2. n \in Threads /\ n.state = "RUNNING" /\ uthreads_arr' = [uthreads_arr EXCEPT ![s] = n]
    BY <1>2, <2>1 DEF Threads
  <2>3. live' \in Flows /\ live'.stack = s
    BY <1>2, <2>1 DEF Threads, IInv, OwnContext, state
  <2> HIDE DEF n
  <2>4. TypeOK'
    BY <1>2, <2>1, <2>2, <2>3 DEF IInv, TypeOK
  <2>5. \A u \in Slots : u # s => uthreads_arr'[u] = uthreads_arr[u] /\ state(u) # "RUNNING"
    BY <2>1, <2>2 DEF IInv, MainFirst, StartAll
  <2>6. OneRunning' /\ OwnContext'
    BY <1>2, <2>1, <2>2, <2>3, <2>5 DEF IInv, OneRunning, OwnContext, state
  <2> QED
    BY <1>2, <2>4, <2>6 DEF IInv, MainFirst
<1> QED
  BY <1>1, <1>2, ZenonT(60) DEF StartAll

\* A change of priority concerns no switch.
LEMMA SetPriorityOK ==
  ASSUME IInv, NEW p \in Priorities, SetPriority(p), curr_thread # None
  PROVE  IInv'
<1> DEFINE r == [uthreads_arr[curr_thread] EXCEPT !.priority = p]
<1>1. curr_thread \in Slots /\ uthreads_arr \in [Slots -> Threads] /\ p \in LOW .. HIGH
  BY ProgramAssumption DEF SetPriority, IInv, TypeOK
<1>2. /\ r \in Threads /\ uthreads_arr' = [uthreads_arr EXCEPT ![curr_thread] = r]
      /\ r.state = state(curr_thread) /\ r.context = uthreads_arr[curr_thread].context
  BY ZenonT(60), SMTT(60), <1>1 DEF Threads, SetPriority, state
<1> HIDE DEF r
<1>3. TypeOK'
  BY <1>1, <1>2 DEF IInv, TypeOK, SetPriority
<1>4. \A s \in Slots : uthreads_arr'[s].state = uthreads_arr[s].state
                       /\ uthreads_arr'[s].context = uthreads_arr[s].context
  BY <1>1, <1>2 DEF state
<1> QED
  BY <1>3, <1>4 DEF SetPriority, IInv, OneRunning, OwnContext, MainFirst, state

\* A start function begins or returns on its own stack.
LEMMA BodyOK == ASSUME IInv, Enter \/ Return PROVE IInv'
<1>1. live' \in Flows /\ live'.stack = live.stack
  <2>1. live \in Flows
    BY DEF IInv, TypeOK
  <2> QED
    BY <2>1 DEF Flows, Enter, Return
<1>2. started
  BY DEF IInv, MainFirst, Enter, Return, InThread, InBody, Main, Flow
<1>3. UNCHANGED <<uthreads_arr, curr_thread, started, halted>>
  BY DEF Enter, Return
<1> QED
  BY <1>1, <1>2, <1>3 DEF IInv, TypeOK, OneRunning, OwnContext, MainFirst, state

\* Every step keeps the invariant.
LEMMA NextOK == ASSUME LateCreate = FALSE PROVE IInv /\ [Next]_vars => IInv'
<1> SUFFICES ASSUME IInv, [Next]_vars PROVE IInv'
  OBVIOUS
<1>1. CASE UNCHANGED vars
  BY <1>1 DEF vars, IInv, TypeOK, OneRunning, OwnContext, MainFirst, state
<1>2. CASE Yield \/ Exit
  <2>1. InThread
    BY <1>2 DEF Yield, Exit
  <2> QED
    BY <1>2, <2>1, FaultOK, FoundRunnable, SwitchOK, LastExitOK DEF Yield, Exit
<1>3. CASE \E p \in Priorities : Create(p) \/ SetPriority(p)
  <2>1. ASSUME NEW p \in Priorities, SetPriority(p), curr_thread = None PROVE Fault
    BY <2>1 DEF SetPriority
  <2> QED
    BY <1>3, <2>1, FaultOK, CreateOK, SetPriorityOK, ZenonT(60)
<1>4. CASE StartAll \/ Enter \/ Return
  BY <1>4, StartAllOK, BodyOK
<1> QED
  BY <1>1, <1>2, <1>3, <1>4 DEF Next, Halted

\* main() starts with an empty table.
LEMMA InitOK == Init => IInv
<1> SUFFICES ASSUME Init PROVE IInv
  OBVIOUS
<1>1. Main \in Flows
  BY DEF Main, Flow, Flows
<1>2. [state |-> "FREE", priority |-> LOW, context |-> Main] \in Threads
  BY <1>1 DEF Threads, LOW, HIGH
<1>3. uthreads_arr \in [Slots -> Threads] /\ \A s \in Slots : uthreads_arr[s].state = "FREE"
  BY <1>2 DEF Init
<1>4. TypeOK
  BY <1>1, <1>3, ZenonT(60) DEF Init, TypeOK
<1> QED
  BY <1>3, <1>4 DEF Init, IInv, OneRunning, OwnContext, MainFirst, state

\* However many threads there are and whatever their priorities, exactly one is
\* RUNNING, it is the current one, and it executes on its own stack.
THEOREM OneThreadRuns == ASSUME LateCreate = FALSE PROVE Spec => []OneRunning
<1>1. IInv => OneRunning
  BY DEF IInv
<1>2. IInv /\ [Next]_vars => IInv'
  BY NextOK, ZenonT(60)
<1> QED
  BY <1>1, <1>2, InitOK, PTL DEF Spec

\* No switch of yield, exit or start_all overwrites the context of a waiting thread.
THEOREM ContextsKept == ASSUME LateCreate = FALSE PROVE Spec => []OwnContext
<1>1. IInv => OwnContext
  BY DEF IInv
<1>2. IInv /\ [Next]_vars => IInv'
  BY NextOK, ZenonT(60)
<1> QED
  BY <1>1, <1>2, InitOK, PTL DEF Spec
=============================================================================
