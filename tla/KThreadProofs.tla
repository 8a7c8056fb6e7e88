--------------------------- MODULE KThreadProofs ---------------------------
(***************************************************************************)
(* The types of KThread and its lock discipline hold for every size of the *)
(* tables, every number of CPUs and every set of system calls.             *)
(***************************************************************************)
EXTENDS KThread, TLAPS

USE ZenonT(10), SMTT(60)

\* The label a flow goes on at: yield() returns to the code it interrupted.
Place(f) == IF f.pc \in {"yield", "yield_sched", "yielded"} THEN f.after ELSE f.pc

\* The locals of a flow at the labels that use them.
FlowOK(f) ==
  /\ Place(f) \in {"fork_found", "fork_thread", "fork_copy", "fork_parent", "fork_run",
                   "freeproc", "wait_found", "kill_threads"} => f.q \in Procs
  /\ Place(f) \in {"fork_scan", "fork_found", "fork_thread", "wait", "wait_scan",
                   "wait_found", "wait_none"} => f.t = null
  /\ Place(f) \in {"sleep", "sleep_sched", "woken", "relock"} =>
       \/ f.ret = "wait_scan" /\ f.t = null
       \/ f.ret = "join_check" /\ f.t \in Threads
  /\ Place(f) \in {"join_plock", "join_check", "join_free"} => f.t \in Threads
  /\ Place(f) = "wakeup" => f.ret \in {"reparent", "exit_zombie", "kexit_unlock"}
  /\ Place(f) = "fork_copy" => f.t \in Threads /\ f.t[1] = f.q
  /\ Place(f) = "freeproc" =>
       /\ f.ret \in {"fork", "wait"}
       /\ f.t = null \/ (f.ret = "fork" /\ f.t \in Threads /\ f.t[1] = f.q /\ f.i <= f.t[2])
  /\ Place(f) = "exit_zombie" => f.i = 0

\* A saved context can be resumed by SchedRun: it is one of its own thread, at
\* a label that holds the t_lock of that thread.
ContextOK(s, f) ==
  \/ f.pc = "none"
  \/ /\ f.kt = s /\ FlowOK(f)
     /\ f.pc \in {"woken", "yielded", "zombie", "forkret"}
     /\ f.pc = "yielded" => s[2] = 0

ThreadsOK ==
  /\ kthread \in [Threads -> ThreadRecords]
  /\ \A s \in Threads : ContextOK(s, kthread[s].context)

\* The inductive invariant.
IInv == TypeOK /\ ThreadsOK /\ (\A c \in CPUs : FlowOK(cpu[c])) /\ LockDiscipline

\* The locks after a step that takes CPU c to flow f.
LockMove(c, f) ==
  /\ lock' \in [Objects -> CPUs \cup {Nobody}]
  /\ \A l \in Objects : lock'[l] = lock[l] \/ (lock[l] \in {c, Nobody} /\ lock'[l] \in {c, Nobody})
  /\ f.pc # "panic" => {l \in Objects : lock'[l] = c} = Held(f)

-----------------------------------------------------------------------------
(* Rules: what a step of one CPU has to keep *)

\* The invariant after a step of CPU c: its new flow, the locks it took and gave
\* back, and the new tables are all that has to be looked at.
LEMMA Move ==
  ASSUME NEW c \in CPUs, IInv, NEW f \in Flows, cpu' = [cpu EXCEPT ![c] = f], FlowOK(f),
         LockMove(c, f), ThreadsOK', proc' \in [Procs -> ProcRecords], nextpid' \in Nat
  PROVE  IInv'
<1>1. cpu \in [CPUs -> Flows]
  BY DEF IInv, TypeOK
<1>2. TypeOK'
  BY <1>1 DEF TypeOK, ThreadsOK, LockMove
<1>3. \A d \in CPUs : FlowOK(cpu'[d])
  BY <1>1 DEF IInv
<1>4. ASSUME NEW d \in CPUs, cpu'[d].pc # "panic"
      PROVE  {l \in Objects : lock'[l] = d} = Held(cpu'[d])
  <2>1. CASE d = c
    BY <1>1, <2>1, <1>4 DEF LockMove
  <2>2. CASE d # c
    <3>1. cpu'[d] = cpu[d]
      BY <1>1, <2>2
    <3>2. {l \in Objects : lock[l] = d} = Held(cpu[d])
      BY <3>1, <1>4 DEF IInv, LockDiscipline, At
    <3>3. \A l \in Objects : lock'[l] = d <=> lock[l] = d
      BY <2>2, CpuAssumption DEF LockMove
    <3> QED
      BY <3>1, <3>2, <3>3
  <2> QED
    BY <2>1, <2>2
<1>5. LockDiscipline'
  BY <1>4 DEF LockDiscipline, At, Held
<1>6. (\A d \in CPUs : FlowOK(cpu[d]))'
  BY <1>3 DEF FlowOK, Place, Procs, Threads, null
<1> QED
  BY <1>2, <1>5, <1>6 DEF IInv

\* The locks of a step that takes and releases none.
LEMMA LockKept ==
  ASSUME NEW c \in CPUs, IInv, cpu[c].pc # "panic", NEW f, lock' = lock, f.pc # "panic" => Held(f) = Held(cpu[c])
  PROVE  LockMove(c, f)
BY DEF IInv, TypeOK, LockDiscipline, At, LockMove

\* The locks of a step that ends in acquire(l).
LEMMA LockTaken ==
  ASSUME NEW c \in CPUs, IInv, cpu[c].pc # "panic", NEW f, NEW l \in Objects, Acquire(c, l),
         f.pc # "panic" => Held(f) = Held(cpu[c]) \cup {l}
  PROVE  LockMove(c, f)
<1>1. lock \in [Objects -> CPUs \cup {Nobody}] /\ {x \in Objects : lock[x] = c} = Held(cpu[c])
  BY DEF IInv, TypeOK, LockDiscipline, At
<1>2. lock[l] = Nobody /\ lock' = [lock EXCEPT ![l] = c]
  BY DEF Acquire, Free
<1> QED
  BY ZenonT(60), SMTT(60), <1>1, <1>2 DEF LockMove

\* The locks of a step that releases the two locks its CPU holds.
LEMMA LocksReleased ==
  ASSUME NEW c \in CPUs, IInv, cpu[c].pc # "panic", NEW f, NEW k, NEW l,
         Held(cpu[c]) = {k, l}, lock' = [lock EXCEPT ![k] = Nobody, ![l] = Nobody],
         f.pc # "panic" => Held(f) = {}
  PROVE  LockMove(c, f)
<1>1. lock \in [Objects -> CPUs \cup {Nobody}] /\ {x \in Objects : lock[x] = c} = Held(cpu[c])
  BY DEF IInv, TypeOK, LockDiscipline, At
<1> QED
  BY <1>1, CpuAssumption DEF LockMove

\* The locks of a step that releases one lock its CPU holds.
LEMMA LockReleased ==
  ASSUME NEW c \in CPUs, IInv, cpu[c].pc # "panic", NEW f, NEW l \in Held(cpu[c]), Release(l),
         f.pc # "panic" => Held(f) = Held(cpu[c]) \ {l}
  PROVE  LockMove(c, f)
<1>1. lock \in [Objects -> CPUs \cup {Nobody}] /\ {x \in Objects : lock[x] = c} = Held(cpu[c])
  BY DEF IInv, TypeOK, LockDiscipline, At
<1> QED
  BY <1>1, CpuAssumption DEF LockMove, Release

\* A step that changes no table.
LEMMA Stay ==
  ASSUME NEW c \in CPUs, IInv, NEW f \in Flows, cpu' = [cpu EXCEPT ![c] = f], FlowOK(f),
         LockMove(c, f), UNCHANGED tables
  PROVE  IInv'
<1>1. ThreadsOK' /\ proc' \in [Procs -> ProcRecords] /\ nextpid' \in Nat
  BY DEF tables, IInv, TypeOK, ThreadsOK
<1> QED
  BY <1>1, Move, ZenonT(60)

-----------------------------------------------------------------------------
(* Facts about flows and objects *)

\* What is known of the flow of a CPU and of its thread.
LEMMA Running ==
  ASSUME IInv, NEW c \in CPUs
  PROVE  /\ cpu[c] \in Flows
         /\ FlowOK(cpu[c])
         /\ me(c) \in Threads
         /\ myproc(c) \in Procs
         /\ me(c)[2] \in 0 .. NKT - 1
         /\ me(c) = <<myproc(c), me(c)[2]>>
         /\ \A i \in 0 .. NKT - 1 : Sibling(c, i) \in Threads
<1>1. cpu[c] \in Flows /\ FlowOK(cpu[c]) /\ me(c) \in Threads
  BY DEF IInv, TypeOK, Flows, me
<1> QED
  BY <1>1 DEF Threads, myproc, me, Sibling

\* A flow that starts at a label has the type of a flow.
LEMMA FreshFlow ==
  ASSUME NEW s \in Threads, NEW l \in Labels
  PROVE  Flow(s, l) \in Flows
BY SizeAssumption DEF Flow, Flows, Objects, Returns, null

\* wait_lock, the p->lock of a process and the t_lock of a thread are different locks.
LEMMA Locks ==
  /\ wait_lock \in Objects /\ wait_lock = null /\ wait_lock \notin Threads
  /\ \A p \in Procs : Addr(p) = <<p>> /\ Addr(p) \in Objects /\ Addr(p) # wait_lock
                      /\ Addr(p) \notin Threads
  /\ Threads \subseteq Objects
<1>1. \A p \in Procs : Addr(p) = <<p>>
  BY SizeAssumption DEF Addr, Procs, NoProc
<1>2. ASSUME NEW s \in Threads PROVE s # <<>> /\ \A p \in Procs : s # <<p>>
  <2> PICK p \in Procs, i \in 0 .. NKT - 1 : s = <<p, i>>
    BY DEF Threads
  <2> QED
    OBVIOUS
<1> QED
  BY <1>1, <1>2, SMTT(60) DEF Objects, wait_lock, null

\* A fresh flow needs no locals at the labels that do not look at them.
LEMMA FreshOK ==
  ASSUME NEW s \in Threads,
         NEW l \in Labels \ {"sleep", "sleep_sched", "woken", "relock", "join_plock", "join_check",
                             "join_free", "wakeup", "fork_copy", "freeproc"}
  PROVE  Flow(s, l) \in Flows /\ FlowOK(Flow(s, l)) /\ Flow(s, l).pc = l
BY FreshFlow, SizeAssumption DEF Flow, FlowOK, Place, Procs

\* The thread table after a change to one slot.
LEMMA ThreadChange ==
  ASSUME IInv, NEW s \in Threads, NEW r \in ThreadRecords, ContextOK(s, r.context),
         kthread' = [kthread EXCEPT ![s] = r]
  PROVE  ThreadsOK'
<1>1. kthread \in [Threads -> ThreadRecords] /\ \A u \in Threads : ContextOK(u, kthread[u].context)
  BY DEF IInv, ThreadsOK
<1>2. kthread' \in [Threads -> ThreadRecords]
  BY <1>1
<1>3. \A u \in Threads : ContextOK(u, kthread'[u].context)
  BY <1>1
<1> QED
  BY <1>2, <1>3, ZenonT(60) DEF ThreadsOK, ContextOK, FlowOK, Place, Procs, Threads, null

\* A flow that holds no lock, or has panicked.
Lockless(f) == f \in Flows /\ FlowOK(f) /\ (f.pc # "panic" => Held(f) = {})

\* A flow that panics, enters exit() or kthread_exit(), or returns from a system
\* call holds no lock and needs no locals.
LEMMA Entering ==
  ASSUME IInv, NEW c \in CPUs
  PROVE  /\ \A m \in Panics : Lockless(Panic(c, m)) /\ Panic(c, m).pc = "panic"
         /\ Lockless(EnterExit(c)) /\ Lockless(EnterKexit(c)) /\ Lockless(Returned(c))
         /\ \A f : Lockless(f) => Lockless(Deref(c, f))
<1>1. ASSUME NEW m \in Panics PROVE Lockless(Panic(c, m)) /\ Panic(c, m).pc = "panic"
  <2>1. cpu[c] \in Flows /\ "panic" \in Labels
    BY Running DEF Labels
  <2>2. Panic(c, m) \in Flows /\ Panic(c, m).pc = "panic"
    BY <2>1, ZenonT(60) DEF Panic, Flows
  <2> QED
    BY <2>2 DEF Lockless, FlowOK, Place
<1>2. \A f : Lockless(f) => Lockless(Deref(c, f))
  BY <1>1, ZenonT(60) DEF Deref, Panics
<1>3. Lockless(Flow(me(c), "kexit_last")) /\ Lockless(Returned(c))
  BY FreshOK, Running, SMTT(60) DEF Returned, Lockless, Labels, Interruptible, Held
<1>4. Lockless([Flow(me(c), "reap_scan") EXCEPT !.from = "exit"])
  <2>1. Flow(me(c), "reap_scan") \in Flows /\ FlowOK(Flow(me(c), "reap_scan"))
    BY FreshOK, Running DEF Labels, Interruptible
  <2> QED
    BY ZenonT(60), SMTT(60), <2>1 DEF Lockless, Flow, Flows, FlowOK, Place, Held
<1> QED
  BY <1>1, <1>2, <1>3, <1>4, ZenonT(60) DEF EnterExit, EnterKexit, Panics

\* A step between two flows without locks.
LEMMA LocklessStep ==
  ASSUME NEW c \in CPUs, IInv, cpu[c].pc # "panic", Held(cpu[c]) = {}, NEW f, Lockless(f),
         cpu' = [cpu EXCEPT ![c] = f], lock' = lock,
         ThreadsOK', proc' \in [Procs -> ProcRecords], nextpid' \in Nat
  PROVE  IInv'
<1>1. LockMove(c, f)
  BY LockKept, ZenonT(60) DEF Lockless
<1> QED
  BY <1>1, Move, ZenonT(60) DEF Lockless

-----------------------------------------------------------------------------
(* scheduler(), sched(), yield(), forkret(), sleep(), wakeup() *)

\* forkret() releases the t_lock the scheduler took.
LEMMA ForkretStep ==
  ASSUME NEW c \in CPUs, IInv, Forkret(c)
  PROVE  IInv'
<1> DEFINE f == [cpu[c] EXCEPT !.pc = "user"]
<1>1. cpu[c].pc = "forkret" /\ cpu' = [cpu EXCEPT ![c] = f]
  BY DEF Forkret, Goto, At, IInv, TypeOK
<1>2. f \in Flows /\ FlowOK(f)
  BY Running, SMTT(60) DEF Flows, Labels, FlowOK, Place
<1>3. Held(cpu[c]) = {me(c)} /\ Held(f) = {}
  BY <1>1, Running DEF Held, me, Flows
<1>4. LockMove(c, f)
  BY <1>1, <1>3, LockReleased DEF Forkret
<1> QED
  BY <1>1, <1>2, <1>4, Stay, ZenonT(60) DEF Forkret

\* sleep() after sched(): the channel is cleared and the own t_lock released.
LEMMA WokenStep ==
  ASSUME NEW c \in CPUs, IInv, Woken(c)
  PROVE  IInv'
<1> DEFINE f == [cpu[c] EXCEPT !.pc = "relock"]
<1>1. cpu[c].pc = "woken" /\ cpu' = [cpu EXCEPT ![c] = f]
  BY DEF Woken, Goto, At, IInv, TypeOK
<1>2. f \in Flows /\ FlowOK(f)
  BY <1>1, Running, SMTT(60) DEF Flows, Labels, Interruptible, FlowOK, Place
<1>3. Held(cpu[c]) = {me(c)} /\ Held(f) = {}
  BY ZenonT(60), SMTT(60), <1>1, Running DEF Held, me, Flows
<1>4. LockMove(c, f)
  BY <1>1, <1>3, LockReleased DEF Woken
<1>5. ThreadsOK'
  BY Running, Locks, SMTT(60) DEF Woken, IInv, ThreadsOK, ThreadRecords, ContextOK, null
<1> QED
  BY <1>1, <1>2, <1>4, <1>5, Move, ZenonT(60) DEF Woken, IInv, TypeOK

\* The scheduler changes row without a lock.
LEMMA SchedRowStep ==
  ASSUME NEW c \in CPUs, IInv, NEW p \in Procs, SchedRow(c, p)
  PROVE  IInv'
<1>1. cpu[c].pc = "scheduler" /\ cpu' = [cpu EXCEPT ![c] = Scheduler(p)] /\ lock' = lock
  BY DEF SchedRow, Become, At
<1>2. Lockless(Scheduler(p)) /\ Held(cpu[c]) = {}
  <2>1. <<p, 0>> \in Threads
    BY SizeAssumption DEF Threads
  <2> QED
    BY <1>1, <2>1, FreshOK DEF Lockless, Scheduler, Labels, Held
<1> QED
  BY <1>1, <1>2, LocklessStep, ZenonT(60) DEF SchedRow, tables, IInv, TypeOK, ThreadsOK

\* scheduler() takes the t_lock that the resumed context expects to hold.
LEMMA SchedRunStep ==
  ASSUME NEW c \in CPUs, IInv, NEW i \in 0 .. NKT - 1, SchedRun(c, i)
  PROVE  IInv'
<1> DEFINE s == Sibling(c, i)
           f == IF kthread[s].context.pc = "none"
                THEN [Flow(s, "panic") EXCEPT !.ret = "kerneltrap"] ELSE kthread[s].context
<1>1. s \in Threads /\ kthread[s] \in ThreadRecords /\ ContextOK(s, kthread[s].context)
  BY Running DEF IInv, ThreadsOK
<1>2. cpu[c].pc = "scheduler" /\ cpu' = [cpu EXCEPT ![c] = f] /\ Acquire(c, s)
  BY DEF SchedRun, Become, At
<1>3. f \in Flows /\ FlowOK(f)
  <2>1. CASE kthread[s].context.pc = "none"
    <3>1. Flow(s, "panic") \in Flows
      BY <1>1, FreshFlow DEF Labels
    <3>2. f \in Flows /\ f.pc = "panic"
      BY <2>1, <3>1, ZenonT(60) DEF Flow, Flows, Panics
    <3> QED
      BY <3>2 DEF FlowOK, Place
  <2>2. CASE kthread[s].context.pc # "none"
    BY <1>1, <2>2 DEF ThreadRecords, ContextOK
  <2> QED
    BY <2>1, <2>2
<1>4. LockMove(c, f)
  <2>1. Held(cpu[c]) = {}
    BY <1>2 DEF Held
  <2>2. f.pc # "panic" => Held(f) = {s}
    <3> SUFFICES ASSUME f.pc # "panic" PROVE Held(f) = {s}
      OBVIOUS
    <3>1. f = kthread[s].context /\ f.kt = s /\ f.pc \in {"woken", "yielded", "zombie", "forkret"}
          /\ (f.pc = "yielded" => s[2] = 0)
      BY <1>1 DEF Flow, ContextOK
    <3>2. f.pc = "yielded" => s = <<s[1], 0>>
      BY <1>1, <3>1 DEF Threads
    <3> QED
      BY <3>1, <3>2, ZenonT(60) DEF Held
  <2> QED
    BY <1>1, <1>2, <2>1, <2>2, LockTaken, Locks, ZenonT(60)
<1>5. ThreadsOK'
  <2> DEFINE r == [kthread[s] EXCEPT !.t_state = "RUNNING_t"]
  <2>1. r \in ThreadRecords /\ r.context = kthread[s].context
    BY <1>1 DEF ThreadRecords
  <2>2. kthread' = [kthread EXCEPT ![s] = r]
    BY DEF SchedRun
  <2> QED
    BY <1>1, <2>1, <2>2, ThreadChange, ZenonT(60)
<1> QED
  BY <1>2, <1>3, <1>4, <1>5, Move, ZenonT(60) DEF SchedRun, IInv, TypeOK

\* A flow that passes the checks of sched() holds its own t_lock and no other,
\* so the scheduler is entered without a lock.
LEMMA SchedStep ==
  ASSUME NEW c \in CPUs, IInv, Sched(c)
  PROVE  IInv'
<1>1. cpu[c].pc \in {"sleep_sched", "yield_sched", "exit_sched"}
  BY DEF Sched, ResumeAt
<1>2. CASE SchedCheck(c) # "ok"
  <2>1. SchedCheck(c) \in Panics
    BY <1>2 DEF SchedCheck, Panics
  <2>2. Lockless(Panic(c, SchedCheck(c))) /\ Panic(c, SchedCheck(c)).pc = "panic"
    BY <2>1, Entering
  <2>3. UNCHANGED <<proc, kthread, nextpid, lock>> /\ cpu' = [cpu EXCEPT ![c] = Panic(c, SchedCheck(c))]
    BY <1>2 DEF Sched, Become
  <2>4. LockMove(c, Panic(c, SchedCheck(c)))
    BY <1>1, <2>2, <2>3, LockKept
  <2> QED
    BY <2>2, <2>3, <2>4, Stay, ZenonT(60) DEF Lockless, tables
<1>3. CASE SchedCheck(c) = "ok"
  <2> DEFINE g == [cpu[c] EXCEPT !.pc = ResumeAt[cpu[c].pc]]
             f == Scheduler(myproc(c))
  <2>1. /\ kthread' = [kthread EXCEPT ![me(c)].context = g]
        /\ Release(me(c))
        /\ cpu' = [cpu EXCEPT ![c] = f]
    BY <1>3 DEF Sched, Become
  <2>2. f \in Flows /\ FlowOK(f) /\ Held(f) = {}
    <3>1. <<myproc(c), 0>> \in Threads
      BY Running, SizeAssumption, SMTT(60) DEF Threads
    <3> QED
      BY <3>1, FreshOK DEF Scheduler, Labels, Held
  <2>3. lock[me(c)] = c /\ \A l \in Objects \ {me(c)} : lock[l] # c
    BY <1>3 DEF SchedCheck
  <2>4. Held(cpu[c]) = {me(c)}
    BY <1>1, <2>3, Running, Locks DEF IInv, LockDiscipline, At
  <2>5. LockMove(c, f)
    BY <1>1, <2>1, <2>2, <2>4, LockReleased
  <2>6. ContextOK(me(c), g) /\ g \in Flows
    <3>1. /\ g.pc = ResumeAt[cpu[c].pc]
          /\ ResumeAt[cpu[c].pc] = CASE cpu[c].pc = "sleep_sched" -> "woken"
                                     [] cpu[c].pc = "yield_sched" -> "yielded"
                                     [] cpu[c].pc = "exit_sched" -> "zombie"
      BY <1>1, Running, SMTT(60) DEF ResumeAt, Flows
    <3>2. g \in Flows /\ g.kt = me(c)
      BY <1>1, <3>1, Running, SMTT(60) DEF Flows, Labels, me
    <3>3. FlowOK(g)
      BY <1>1, <3>1, Running, SMTT(60) DEF FlowOK, Place, Flows
    <3>4. cpu[c].pc = "yield_sched" => me(c)[2] = 0
      BY <2>4, Running DEF Held, me, myproc
    <3> QED
      BY <1>1, <3>1, <3>2, <3>3, <3>4 DEF ContextOK
  <2>7. ThreadsOK'
    <3> DEFINE r == [kthread[me(c)] EXCEPT !.context = g]
    <3>1. r \in ThreadRecords /\ r.context = g
      BY <2>6, Running, ZenonT(60) DEF ThreadRecords, IInv, TypeOK
    <3> QED
      BY <2>1, <2>6, <3>1, Running, ThreadChange, ZenonT(60)
  <2> QED
    BY <2>1, <2>2, <2>5, <2>7, Move, ZenonT(60) DEF Sched, IInv, TypeOK
<1> QED
  BY <1>2, <1>3

\* yield() takes the t_lock of kthread[0].
LEMMA YieldStep ==
  ASSUME NEW c \in CPUs, IInv, Yield(c)
  PROVE  IInv'
<1>1. cpu[c].pc = "yield" /\ Held(cpu[c]) = {}
  BY DEF Yield, At, Held
<1>2. CASE Freed(c)
  BY <1>1, <1>2, Entering, LocklessStep, ZenonT(60) DEF Yield, Become, Panics, IInv, TypeOK, ThreadsOK
<1>3. CASE ~Freed(c)
  <2> DEFINE f == [cpu[c] EXCEPT !.pc = "yield_sched"]
             s == Sibling(c, 0)
             r == [kthread[s] EXCEPT !.t_state = "RUNNABLE_t"]
  <2>1. cpu' = [cpu EXCEPT ![c] = f] /\ kthread' = [kthread EXCEPT ![s] = r] /\ Acquire(c, s)
    BY <1>3 DEF Yield, Goto, IInv, TypeOK
  <2>2. s \in Threads /\ kthread[s] \in ThreadRecords /\ ContextOK(s, kthread[s].context)
    BY Running, SizeAssumption, SMTT(60) DEF IInv, ThreadsOK
  <2>3. r \in ThreadRecords /\ r.context = kthread[s].context
    BY <2>2 DEF ThreadRecords
  <2>4. f \in Flows /\ FlowOK(f)
    BY <1>1, Running, SMTT(60) DEF Flows, Labels, FlowOK, Place
  <2>5. Held(f) = {s}
    BY Running DEF Held, Flows, Sibling, myproc, me
  <2>6. LockMove(c, f)
    BY <1>1, <2>1, <2>2, <2>5, LockTaken, Locks
  <2> QED
    BY <2>1, <2>2, <2>3, <2>4, <2>6, Move, ThreadChange, ZenonT(60) DEF Yield, IInv, TypeOK
<1> QED
  BY <1>2, <1>3

\* yield() returns to the code it interrupted, which held no lock.
LEMMA YieldedStep ==
  ASSUME NEW c \in CPUs, IInv, Yielded(c)
  PROVE  IInv'
<1> DEFINE f == [cpu[c] EXCEPT !.pc = cpu[c].after, !.after = "user"]
<1>1. cpu[c].pc = "yielded" /\ cpu' = [cpu EXCEPT ![c] = f] /\ cpu[c].after \in Interruptible \cup {"user"}
  BY Running DEF Yielded, Become, At, Flows
<1>2. f \in Flows /\ f.pc = cpu[c].after
  <2>1. cpu[c].after \in Labels
    BY <1>1 DEF Labels
  <2> QED
    BY <2>1, Running, ZenonT(60) DEF Flows
<1>3. FlowOK(f)
  BY <1>1, Running, SMTT(60) DEF Flows, FlowOK, Place, Interruptible
<1>4. Held(cpu[c]) = {Sibling(c, 0)} /\ Held(f) = {}
  BY <1>1, <1>2, Running DEF Held, Sibling, myproc, me, Interruptible
<1>5. LockMove(c, f)
  BY <1>1, <1>4, LockReleased DEF Yielded
<1> QED
  BY <1>1, <1>2, <1>3, <1>5, Stay, ZenonT(60) DEF Yielded

\* The panic at the end of exit() and kthread_exit().
LEMMA ZombieExitStep ==
  ASSUME NEW c \in CPUs, IInv, ZombieExit(c)
  PROVE  IInv'
<1>1. LockMove(c, Panic(c, "zombie exit"))
  BY LockKept, Entering, ZenonT(60) DEF ZombieExit, At, Panics
<1> QED
  BY <1>1, Entering, Stay, ZenonT(60) DEF ZombieExit, Become, Lockless, Panics

\* sleep(ch, lk) swaps lk for the own t_lock.
LEMMA SleepStep ==
  ASSUME NEW c \in CPUs, IInv, Sleep(c)
  PROVE  IInv'
<1> DEFINE f == [cpu[c] EXCEPT !.pc = "sleep_sched"]
           r == [kthread[me(c)] EXCEPT !.chan = cpu[c].ch, !.t_state = "SLEEPING_t"]
<1>1. /\ cpu[c].pc = "sleep" /\ cpu' = [cpu EXCEPT ![c] = f]
      /\ kthread' = [kthread EXCEPT ![me(c)] = r]
      /\ lock[me(c)] = Nobody /\ lock' = [lock EXCEPT ![me(c)] = c, ![SleepLock(c)] = Nobody]
  BY Running, ZenonT(60) DEF Sleep, Goto, At, Free, IInv, TypeOK
<1>2. kthread[me(c)] \in ThreadRecords /\ ContextOK(me(c), kthread[me(c)].context)
  BY Running DEF IInv, ThreadsOK
<1>3. r \in ThreadRecords /\ r.context = kthread[me(c)].context
  BY <1>2, Running, ZenonT(60) DEF ThreadRecords, Flows
<1>4. f \in Flows /\ FlowOK(f)
  BY <1>1, Running, SMTT(60) DEF Flows, Labels, FlowOK, Place
<1>5. Held(cpu[c]) = {SleepLock(c)} /\ Held(f) = {me(c)}
  BY ZenonT(60), SMTT(60), <1>1, Running DEF Held, SleepLock, FlowOK, Place, Flows, me, myproc
<1>6. LockMove(c, f)
  <2>1. lock \in [Objects -> CPUs \cup {Nobody}] /\ {x \in Objects : lock[x] = c} = Held(cpu[c])
    BY <1>1 DEF IInv, TypeOK, LockDiscipline, At
  <2>2. SleepLock(c) \in Objects /\ me(c) \in Objects /\ SleepLock(c) # me(c)
    BY Running, Locks DEF SleepLock
  <2> QED
    BY ZenonT(60), SMTT(60), <1>1, <1>5, <2>1, <2>2, CpuAssumption DEF LockMove
<1>7. ThreadsOK'
  BY <1>1, <1>2, <1>3, Running, ThreadChange, ZenonT(60)
<1> QED
  BY <1>1, <1>4, <1>6, <1>7, Move, ZenonT(60) DEF Sleep, IInv, TypeOK

\* sleep() takes lk back before it returns.
LEMMA RelockStep ==
  ASSUME NEW c \in CPUs, IInv, Relock(c)
  PROVE  IInv'
<1> DEFINE f == [cpu[c] EXCEPT !.pc = cpu[c].ret]
<1>1. cpu[c].pc = "relock" /\ cpu' = [cpu EXCEPT ![c] = f] /\ Acquire(c, SleepLock(c))
  BY DEF Relock, Goto, At, IInv, TypeOK
<1>2. \/ cpu[c].ret = "wait_scan" /\ cpu[c].t = null
      \/ cpu[c].ret = "join_check" /\ cpu[c].t \in Threads
  BY <1>1, Running DEF FlowOK, Place
<1>3. f \in Flows /\ FlowOK(f)
  BY <1>2, Running, SMTT(60) DEF Flows, Labels, FlowOK, Place
<1>4. Held(cpu[c]) = {} /\ Held(f) = {SleepLock(c)}
  BY ZenonT(60), SMTT(60), <1>1, <1>2, Running DEF Held, SleepLock, Flows, me, myproc
<1>5. LockMove(c, f)
  BY <1>1, <1>4, Running, Locks, LockTaken DEF SleepLock
<1> QED
  BY <1>1, <1>3, <1>5, Stay, ZenonT(60) DEF Relock

\* Each iteration of wakeup() keeps the lock of its caller.
LEMMA WakeupStep ==
  ASSUME NEW c \in CPUs, IInv, Wakeup(c)
  PROVE  IInv'
<1>1. cpu[c].pc = "wakeup" /\ cpu[c].ret \in {"reparent", "exit_zombie", "kexit_unlock"}
  BY Running DEF Wakeup, At, FlowOK, Place
<1>2. CASE cpu[c].q = NPROC
  <2> DEFINE f == Flow(me(c), cpu[c].ret)
  <2>1. cpu' = [cpu EXCEPT ![c] = f] /\ UNCHANGED tables /\ lock' = lock
    BY <1>2 DEF Wakeup, Become, tables
  <2>2. f \in Flows /\ FlowOK(f) /\ f.pc = cpu[c].ret
    BY <1>1, Running, FreshOK DEF Labels
  <2>3. Held(f) = Held(cpu[c])
    BY <1>1, <2>2, Running DEF Held, me, Flow
  <2> QED
    BY <1>1, <2>1, <2>2, <2>3, LockKept, Stay, ZenonT(60)
<1>3. CASE cpu[c].q # NPROC
  <2> DEFINE s == <<cpu[c].q, cpu[c].i>>
             f == IF cpu[c].i + 1 < NKT THEN [cpu[c] EXCEPT !.i = @ + 1]
                  ELSE [cpu[c] EXCEPT !.i = 0, !.q = @ + 1]
             r == [kthread[s] EXCEPT !.t_state = "RUNNABLE_t"]
  <2>1. /\ cpu' = [cpu EXCEPT ![c] = f] /\ lock' = lock
        /\ kthread' = [kthread EXCEPT ![s] = r] \/ kthread' = kthread
    BY <1>3 DEF Wakeup, Become, Iterate, IInv, TypeOK
  <2>2. f \in Flows
    <3>1. cpu[c] \in Flows /\ cpu[c].i \in 0 .. NKT /\ cpu[c].q + 1 \in 0 .. NPROC
      BY <1>3, Running, SizeAssumption, SMTT(60) DEF Flows
    <3>2. cpu[c].i + 1 < NKT => cpu[c].i + 1 \in 0 .. NKT
      BY <3>1, SizeAssumption
    <3>3. 0 \in 0 .. NKT
      BY SizeAssumption
    <3> QED
      BY <3>1, <3>2, <3>3, ZenonT(60) DEF Flows
  <2>3. FlowOK(f) /\ Held(f) = Held(cpu[c])
    BY <1>1, Running, SMTT(60) DEF Flows, FlowOK, Place, Held
  <2>4. ThreadsOK'
    <3>1. CASE kthread' = kthread
      BY <3>1 DEF IInv, ThreadsOK
    <3>2. CASE kthread' = [kthread EXCEPT ![s] = r] /\ s \in Threads
      <4>1. r \in ThreadRecords /\ ContextOK(s, r.context)
        BY <3>2 DEF ThreadRecords, IInv, ThreadsOK
      <4> QED
        BY <3>2, <4>1, ThreadChange, ZenonT(60)
    <3>3. CASE kthread' = [kthread EXCEPT ![s] = r] /\ s \notin Threads
      BY <3>3, <3>1 DEF IInv, ThreadsOK
    <3> QED
      BY <2>1, <3>1, <3>2, <3>3
  <2> QED
    BY <1>1, <2>1, <2>2, <2>3, <2>4, LockKept, Move, ZenonT(60) DEF Wakeup, IInv, TypeOK
<1> QED
  BY <1>2, <1>3

-----------------------------------------------------------------------------
(* trap.c *)

\* The process table after a change to one slot.
LEMMA ProcChange ==
  ASSUME IInv, NEW p \in Procs, NEW r \in ProcRecords, proc' = [proc EXCEPT ![p] = r]
  PROVE  proc' \in [Procs -> ProcRecords]
BY DEF IInv, TypeOK

\* Traps from user code are taken without a lock.
LEMMA TrapStep ==
  ASSUME NEW c \in CPUs, IInv, Ecall(c) \/ UserTick(c) \/ UserFault(c)
  PROVE  IInv'
<1>1. cpu[c].pc = "user" /\ Held(cpu[c]) = {} /\ lock' = lock
  BY DEF Ecall, UserTick, UserFault, At, Held
<1>2. Lockless(Flow(me(c), "sys_killed")) /\ Lockless([Returned(c) EXCEPT !.from = "tick"])
  <2>1. /\ Flow(me(c), "sys_killed") \in Flows /\ FlowOK(Flow(me(c), "sys_killed"))
        /\ Returned(c) \in Flows /\ FlowOK(Returned(c))
    BY FreshOK, Running DEF Labels, Interruptible, Returned
  <2> QED
    BY <2>1, SMTT(60) DEF Lockless, Flow, Flows, Returned, FlowOK, Place, Held
<1>3. CASE Ecall(c) \/ UserTick(c)
  BY <1>1, <1>2, <1>3, Entering, LocklessStep
     DEF Ecall, UserTick, Become, tables, IInv, TypeOK, ThreadsOK
<1>4. CASE UserFault(c)
  <2>1. proc' \in [Procs -> ProcRecords]
    <3> DEFINE r == [proc[myproc(c)] EXCEPT !.killed = TRUE]
    <3>1. r \in ProcRecords
      BY Running, ZenonT(60) DEF IInv, TypeOK, ProcRecords
    <3> QED
      BY <1>4, <3>1, Running, ProcChange DEF UserFault, IInv, TypeOK
  <2> QED
    BY <1>1, <1>4, <2>1, Entering, LocklessStep, ZenonT(60) DEF UserFault, Become, IInv, TypeOK, ThreadsOK
<1> QED
  BY <1>3, <1>4

\* The checks of killed and t_killed in usertrap().
LEMMA CheckStep ==
  ASSUME NEW c \in CPUs, IInv, CheckKilled(c) \/ CheckTkilled(c)
  PROVE  IInv'
<1>1. /\ cpu[c].pc \in {"sys_killed", "ret_killed", "sys_tkilled", "ret_tkilled"}
      /\ Held(cpu[c]) = {} /\ lock' = lock /\ UNCHANGED tables
  BY DEF CheckKilled, CheckTkilled, Held
<1>2. \E f : Lockless(f) /\ cpu' = [cpu EXCEPT ![c] = f]
  <2>1. \A l \in {"sys_tkilled", "ret_tkilled", "syscall"} : Lockless([cpu[c] EXCEPT !.pc = l])
    BY Running, SMTT(60) DEF Lockless, Flows, Labels, Interruptible, FlowOK, Place, Held
  <2>2. \A l \in {"yield", "user"} : Lockless(Flow(me(c), l))
    BY ZenonT(60), SMTT(60), FreshOK, Running DEF Lockless, Labels, Held
  <2>3. CASE CheckKilled(c)
    BY <2>1, <2>3, Entering DEF CheckKilled, Become, Goto, IInv, TypeOK
  <2>4. CASE CheckTkilled(c)
    BY <2>1, <2>2, <2>4, Entering DEF CheckTkilled, Become, Goto, IInv, TypeOK
  <2> QED
    BY <2>3, <2>4
<1> QED
  BY <1>1, <1>2, LocklessStep, ZenonT(60) DEF tables, IInv, TypeOK, ThreadsOK

\* syscall() starts a handler without a lock and with fresh locals.
LEMMA SyscallStep ==
  ASSUME NEW c \in CPUs, IInv, Syscall(c)
  PROVE  IInv'
<1>1. PICK call \in CallsOf(myproc(c)) \ {"tick", "ktick", "fault"} :
        \E arg \in Args(call) : Dispatch(c, call, arg)
  BY DEF Syscall
<1>2. PICK arg \in Args(call) : Dispatch(c, call, arg)
  BY <1>1
<1>3. call \in {"fork", "exit", "wait", "kill", "exec", "create", "kexit", "join", "kkill"}
  BY CallAssumption DEF CallsOf, AllCalls
<1>4. arg \in Nat
  BY <1>3, CallAssumption, SMTT(60) DEF Args
<1>5. Lockless(Handler(c, call, arg))
  <2>1. \A l \in {"fork_scan", "wait", "create_scan"} : Lockless(Flow(me(c), l))
    BY FreshOK, Running, SMTT(60) DEF Lockless, Labels, Interruptible, Held
  <2>2. \A l \in {"reap_scan", "kill_scan", "kkill_scan", "join_scan"} :
          Flow(me(c), l) \in Flows /\ FlowOK(Flow(me(c), l))
    BY FreshOK, Running DEF Labels, Interruptible
  <2>3. Lockless([Flow(me(c), "reap_scan") EXCEPT !.from = "exec"])
    BY <2>2, SMTT(60) DEF Lockless, Flow, Flows, FlowOK, Place, Held
  <2>4. \A l \in {"kill_scan", "kkill_scan", "join_scan"} :
          Lockless([Flow(me(c), l) EXCEPT !.arg = arg])
    BY <1>4, <2>2, SMTT(60) DEF Lockless, Flow, Flows, FlowOK, Place, Held
  <2> QED
    BY <1>3, <2>1, <2>3, <2>4, Entering DEF Handler
<1>6. cpu[c].pc = "syscall" /\ Held(cpu[c]) = {}
  BY <1>2 DEF Dispatch, At, Held
<1> QED
  BY <1>2, <1>5, <1>6, Entering, LocklessStep, ZenonT(60) DEF Dispatch, Become, tables, IInv, TypeOK, ThreadsOK

\* A timer interrupt in the kernel suspends code without a lock.
LEMMA KernelTickStep ==
  ASSUME NEW c \in CPUs, IInv, KernelTick(c)
  PROVE  IInv'
<1> DEFINE f == [cpu[c] EXCEPT !.pc = "yield", !.after = cpu[c].pc]
<1>1. cpu[c].pc \in Interruptible /\ cpu' = [cpu EXCEPT ![c] = f] /\ lock' = lock
  BY DEF KernelTick, Become
<1>2. f \in Flows /\ Place(f) = cpu[c].pc /\ f.pc = "yield"
  <2>1. "yield" \in Labels
    BY DEF Labels
  <2>2. f \in Flows /\ f.pc = "yield" /\ f.after = cpu[c].pc
    BY <1>1, <2>1, Running, ZenonT(60) DEF Flows
  <2> QED
    BY <2>2 DEF Place
<1>3. Place(cpu[c]) = cpu[c].pc /\ Held(cpu[c]) = {} /\ Held(f) = {} /\ cpu[c].pc # "panic"
  BY <1>1, <1>2 DEF Place, Interruptible, Held
<1>4. FlowOK(f)
  BY <1>2, <1>3, Running, SMTT(60) DEF FlowOK, Flows
<1> QED
  BY <1>1, <1>2, <1>3, <1>4, LocklessStep, ZenonT(60) DEF KernelTick, Lockless, tables, IInv, TypeOK, ThreadsOK

-----------------------------------------------------------------------------
(* fork(), allocproc(), allockthread(), freeproc() *)

\* The scan of allocproc() ends with the p->lock of the slot it found.
LEMMA ForkScanStep ==
  ASSUME NEW c \in CPUs, IInv, ForkScan(c)
  PROVE  IInv'
<1> DEFINE q == cpu[c].q
<1>1. cpu[c].pc = "fork_scan" /\ Held(cpu[c]) = {} /\ cpu[c].t = null /\ q \in 0 .. NPROC
  BY Running DEF ForkScan, At, Held, FlowOK, Place, Flows
<1>2. CASE q = NPROC
  BY <1>1, <1>2, Entering, LocklessStep DEF ForkScan, Become, tables, IInv, TypeOK, ThreadsOK
<1>3. CASE q # NPROC /\ proc[q].state = "UNUSED"
  <2> DEFINE f == [cpu[c] EXCEPT !.pc = "fork_found"]
  <2>1. q \in Procs /\ cpu' = [cpu EXCEPT ![c] = f] /\ Acquire(c, Addr(q)) /\ UNCHANGED tables
    BY <1>1, <1>3, SizeAssumption, SMTT(60) DEF ForkScan, Goto, Procs, IInv, TypeOK
  <2>2. f \in Flows /\ FlowOK(f) /\ Held(f) = {Addr(q)}
    BY <1>1, <2>1, Running, SMTT(60) DEF Flows, Labels, FlowOK, Place, Held
  <2> QED
    BY <1>1, <2>1, <2>2, LockTaken, Locks, Stay, ZenonT(60)
<1>4. CASE q # NPROC /\ proc[q].state # "UNUSED"
  <2> DEFINE f == [cpu[c] EXCEPT !.q = q + 1]
  <2>1. cpu' = [cpu EXCEPT ![c] = f] /\ lock' = lock /\ UNCHANGED tables
    BY <1>4 DEF ForkScan, Become
  <2>2. q + 1 \in 0 .. NPROC
    BY <1>1, <1>4, SizeAssumption
  <2>3. Lockless(f)
    BY <1>1, <2>2, Running, SMTT(60) DEF Lockless, Flows, FlowOK, Place, Held
  <2> QED
    BY <1>1, <2>1, <2>3, LocklessStep, ZenonT(60) DEF tables, IInv, TypeOK, ThreadsOK
<1> QED
  BY <1>2, <1>3, <1>4

\* The flow of fork() on an error path.
LEMMA ForkFailsFlow ==
  ASSUME IInv, NEW c \in CPUs
  PROVE  LET f == ForkFails(c) IN
         /\ f \in Flows
         /\ f.pc = "freeproc" /\ f.ret = "fork" /\ f.i = 0 /\ f.q = cpu[c].q /\ f.t = cpu[c].t
<1>1. "freeproc" \in Labels /\ "fork" \in Returns /\ 0 \in 0 .. NKT
  BY SizeAssumption DEF Labels, Returns
<1> QED
  BY <1>1, Running, ZenonT(60) DEF ForkFails, Flows

\* allocproc() sets up the process under its p->lock.
LEMMA ForkFoundStep ==
  ASSUME NEW c \in CPUs, IInv, ForkFound(c)
  PROVE  IInv'
<1> DEFINE q == cpu[c].q
           r == [proc[q] EXCEPT !.p_counter = 1, !.pid = nextpid, !.state = "USED"]
<1>1. cpu[c].pc = "fork_found" /\ cpu[c].t = null /\ q \in Procs /\ Held(cpu[c]) = {Addr(q)}
  BY Running DEF ForkFound, At, Held, FlowOK, Place
<1>2. proc' \in [Procs -> ProcRecords] /\ nextpid' \in Nat /\ ThreadsOK' /\ lock' = lock
  <2>1. r \in ProcRecords
    <3>1. proc[q] \in ProcRecords /\ nextpid \in Nat
      BY <1>1 DEF IInv, TypeOK
    <3> QED
      BY <3>1, ZenonT(60) DEF ProcRecords
  <2>2. proc' = [proc EXCEPT ![q] = r]
    BY <1>1, ZenonT(60) DEF ForkFound, IInv, TypeOK
  <2> QED
    BY <1>1, <2>1, <2>2, ProcChange, SMTT(60) DEF ForkFound, IInv, TypeOK, ThreadsOK
<1>3. CASE Goto(c, "fork_thread")
  <2> DEFINE f == [cpu[c] EXCEPT !.pc = "fork_thread"]
  <2>1. cpu' = [cpu EXCEPT ![c] = f]
    BY <1>3 DEF Goto, IInv, TypeOK
  <2>2. f \in Flows /\ FlowOK(f) /\ Held(f) = {Addr(q)}
    BY <1>1, Running, SMTT(60) DEF Flows, Labels, FlowOK, Place, Held
  <2> QED
    BY <1>1, <1>2, <2>1, <2>2, LockKept, Move, ZenonT(60)
<1>4. CASE Become(c, ForkFails(c))
  <2>1. cpu' = [cpu EXCEPT ![c] = ForkFails(c)]
    BY <1>4 DEF Become
  <2>2. ForkFails(c) \in Flows
    BY ForkFailsFlow
  <2>3. FlowOK(ForkFails(c)) /\ Held(ForkFails(c)) = {Addr(q)}
    BY <1>1, ForkFailsFlow DEF FlowOK, Place, Held
  <2> QED
    BY <1>1, <1>2, <2>1, <2>2, <2>3, LockKept, Move, ZenonT(60)
<1> QED
  BY <1>3, <1>4 DEF ForkFound

\* A thread slot that allockthread() has set up.
LEMMA AllocatedOK ==
  ASSUME IInv, NEW s \in Threads, NEW st \in {"USED_t", "RUNNABLE_t"}
  PROVE  Allocated(s, st) \in ThreadRecords /\ ContextOK(s, Allocated(s, st).context)
<1>1. s[1] \in Procs /\ kthread[s] \in ThreadRecords /\ proc[s[1]].p_counter \in Nat
  BY DEF IInv, TypeOK, Threads, ProcRecords
<1>2. /\ Flow(s, "forkret") \in Flows /\ FlowOK(Flow(s, "forkret"))
      /\ Flow(s, "forkret").pc = "forkret" /\ Flow(s, "forkret").kt = s
  BY FreshOK DEF Labels, Flow
<1> QED
  BY <1>1, <1>2, ZenonT(60) DEF Allocated, ThreadRecords, ContextOK

\* allockthread() takes the t_lock of the slot it found, below p->lock.
LEMMA ForkThreadStep ==
  ASSUME NEW c \in CPUs, IInv, ForkThread(c)
  PROVE  IInv'
<1> DEFINE q == cpu[c].q
           s == <<q, cpu[c].i>>
<1>1. /\ cpu[c].pc = "fork_thread" /\ cpu[c].t = null /\ q \in Procs /\ Held(cpu[c]) = {Addr(q)}
      /\ cpu[c].i \in 0 .. NKT
  BY Running DEF ForkThread, At, Held, FlowOK, Place, Flows
<1>2. CASE cpu[c].i = NKT
  BY <1>1, <1>2, Entering, LockKept, Stay, ZenonT(60) DEF ForkThread, Become, tables, Lockless, Panics
<1>3. CASE cpu[c].i # NKT /\ kthread[s].t_state = "UNUSED_t"
  <2> DEFINE f == [cpu[c] EXCEPT !.pc = "fork_copy", !.t = s]
             r == [proc[q] EXCEPT !.p_counter = @ + 1]
  <2>1. s \in Threads
    BY <1>1, <1>3, SizeAssumption, SMTT(60) DEF Threads
  <2>2. /\ cpu' = [cpu EXCEPT ![c] = f] /\ Acquire(c, s)
        /\ kthread' = [kthread EXCEPT ![s] = Allocated(s, "USED_t")]
        /\ proc' = [proc EXCEPT ![q] = r] /\ nextpid' = nextpid
    BY <1>3 DEF ForkThread, Become
  <2>3. f \in Flows /\ FlowOK(f) /\ Held(f) = {Addr(q), s}
    <3>1. "fork_copy" \in Labels
      BY DEF Labels
    <3>2. f \in Flows /\ f.pc = "fork_copy" /\ f.t = s /\ f.q = q
      BY <2>1, <3>1, Running, ZenonT(60) DEF Flows
    <3> QED
      BY <1>1, <2>1, <3>2, SMTT(60) DEF FlowOK, Place, Held
  <2>4. LockMove(c, f)
    <3>1. s \in Objects /\ Acquire(c, s) /\ (f.pc # "panic" => Held(f) = Held(cpu[c]) \cup {s})
      BY <1>1, <2>1, <2>2, <2>3, Locks
    <3> QED
      BY <1>1, <3>1, LockTaken
  <2>5. ThreadsOK'
    BY <2>1, <2>2, AllocatedOK, ThreadChange, ZenonT(60)
  <2>6. proc' \in [Procs -> ProcRecords]
    <3>1. r \in ProcRecords
      BY <1>1, SMTT(60) DEF IInv, TypeOK, ProcRecords
    <3> QED
      BY <1>1, <2>2, <3>1, ProcChange, ZenonT(60)
  <2> QED
    BY <2>2, <2>3, <2>4, <2>5, <2>6, Move, ZenonT(60) DEF IInv, TypeOK
<1>4. CASE cpu[c].i # NKT /\ kthread[s].t_state # "UNUSED_t"
  <2> DEFINE f == [cpu[c] EXCEPT !.i = @ + 1]
  <2>1. cpu' = [cpu EXCEPT ![c] = f] /\ UNCHANGED <<proc, kthread, nextpid, lock>>
    BY <1>4 DEF ForkThread, Iterate, IInv, TypeOK
  <2>2. cpu[c].i + 1 \in 0 .. NKT
    BY <1>1, <1>4, SizeAssumption
  <2>3. f \in Flows /\ FlowOK(f) /\ Held(f) = {Addr(q)}
    BY <1>1, <2>2, Running, SMTT(60) DEF Flows, FlowOK, Place, Held
  <2> QED
    BY <1>1, <2>1, <2>3, LockKept, Stay, ZenonT(60) DEF tables
<1> QED
  BY <1>2, <1>3, <1>4

\* fork() gives both locks back, or the error path knows which it still holds.
LEMMA ForkCopyStep ==
  ASSUME NEW c \in CPUs, IInv, ForkCopy(c)
  PROVE  IInv'
<1> DEFINE q == cpu[c].q
           s == cpu[c].t
<1>1. /\ cpu[c].pc = "fork_copy" /\ s \in Threads /\ s[1] = q /\ q \in Procs
      /\ Held(cpu[c]) = {Addr(q), s} /\ UNCHANGED tables
  BY Running DEF ForkCopy, At, Held, FlowOK, Place
<1>2. s # null /\ s # Addr(q) /\ 0 <= s[2]
  BY <1>1, Locks, SMTT(60) DEF Threads
<1>3. CASE Release(s) /\ Become(c, [ForkFails(c) EXCEPT !.t = null])
  <2> DEFINE f == [ForkFails(c) EXCEPT !.t = null]
  <2>1. f \in Flows /\ f.pc = "freeproc" /\ f.ret = "fork" /\ f.q = q /\ f.t = null
    BY ZenonT(60), SMTT(60), ForkFailsFlow DEF Flows
  <2>2. FlowOK(f) /\ Held(f) = {Addr(q)}
    BY <1>1, <2>1 DEF FlowOK, Place, Held
  <2>3. LockMove(c, f)
    BY <1>1, <1>2, <1>3, <2>2, LockReleased, SMTT(60)
  <2> QED
    BY <1>1, <1>3, <2>1, <2>2, <2>3, Stay, ZenonT(60) DEF Become
<1>4. CASE lock' = lock /\ Become(c, ForkFails(c))
  <2>1. FlowOK(ForkFails(c)) /\ Held(ForkFails(c)) = {Addr(q), s}
    BY ZenonT(60), SMTT(60), <1>1, <1>2, ForkFailsFlow DEF FlowOK, Place, Held
  <2>2. LockMove(c, ForkFails(c))
    BY <1>1, <1>4, <2>1, LockKept
  <2> QED
    BY <1>1, <1>4, <2>1, <2>2, ForkFailsFlow, Stay, ZenonT(60) DEF Become
<1>5. CASE /\ lock' = [lock EXCEPT ![s] = Nobody, ![Addr(q)] = Nobody]
           /\ Become(c, [cpu[c] EXCEPT !.pc = "fork_parent", !.t = null])
  <2> DEFINE f == [cpu[c] EXCEPT !.pc = "fork_parent", !.t = null]
  <2>1. "fork_parent" \in Labels
    BY DEF Labels, Interruptible
  <2>2. f \in Flows /\ f.pc = "fork_parent" /\ f.q = q
    BY <2>1, Running, ZenonT(60) DEF Flows
  <2>3. FlowOK(f) /\ Held(f) = {}
    BY <1>1, <2>2 DEF FlowOK, Place, Held
  <2>4. LockMove(c, f)
    <3>1. Held(cpu[c]) = {s, Addr(q)} /\ cpu[c].pc # "panic"
      BY <1>1
    <3>2. lock' = [lock EXCEPT ![s] = Nobody, ![Addr(q)] = Nobody]
      BY <1>5
    <3> HIDE DEF s, q, f
    <3> QED
      BY <2>3, <3>1, <3>2, LocksReleased, ZenonT(60)
  <2> QED
    BY <1>1, <1>5, <2>2, <2>3, <2>4, Stay, ZenonT(60) DEF Become
<1>6. CASE lock' = lock /\ Become(c, Panic(c, "release"))
  BY <1>1, <1>6, Entering, LockKept, Stay, ZenonT(60) DEF Become, Lockless, Panics
<1> QED
  BY <1>3, <1>4, <1>5, <1>6 DEF ForkCopy, NoPagetable

\* fork() sets the parent under wait_lock.
LEMMA ForkParentStep ==
  ASSUME NEW c \in CPUs, IInv, ForkParent(c)
  PROVE  IInv'
<1> DEFINE f == [cpu[c] EXCEPT !.pc = "fork_run"]
           q == cpu[c].q
           r == [proc[q] EXCEPT !.parent = myproc(c)]
<1>1. cpu[c].pc = "fork_parent" /\ q \in Procs /\ Held(cpu[c]) = {}
  BY Running DEF ForkParent, At, FlowOK, Place, Held
<1>2. cpu' = [cpu EXCEPT ![c] = f] /\ proc' = [proc EXCEPT ![q] = r]
  BY DEF ForkParent, Goto, IInv, TypeOK
<1>3. r \in ProcRecords
  BY <1>1, Running, SMTT(60) DEF IInv, TypeOK, ProcRecords
<1>4. Lockless(f)
  BY <1>1, Running, SMTT(60) DEF Lockless, Flows, Labels, Interruptible, FlowOK, Place, Held
<1> QED
  BY <1>1, <1>2, <1>3, <1>4, ProcChange, LocklessStep, ZenonT(60) DEF ForkParent, IInv, TypeOK, ThreadsOK

\* fork() makes the new thread RUNNABLE_t under its t_lock.
LEMMA ForkRunStep ==
  ASSUME NEW c \in CPUs, IInv, ForkRun(c)
  PROVE  IInv'
<1> DEFINE s == <<cpu[c].q, 0>>
           r == [kthread[s] EXCEPT !.t_state = "RUNNABLE_t"]
<1>1. cpu[c].pc = "fork_run" /\ s \in Threads /\ Held(cpu[c]) = {}
  BY Running, SizeAssumption, SMTT(60) DEF ForkRun, At, FlowOK, Place, Held, Threads
<1>2. r \in ThreadRecords /\ ContextOK(s, r.context)
  BY ZenonT(60), SMTT(60), <1>1 DEF IInv, ThreadsOK, ThreadRecords
<1>3. ThreadsOK'
  BY <1>1, <1>2, ThreadChange, ZenonT(60) DEF ForkRun
<1> QED
  BY <1>1, <1>3, Entering, LocklessStep, ZenonT(60) DEF ForkRun, Become, IInv, TypeOK

\* A freed slot has the types of the tables.
LEMMA FreeRecords ==
  /\ FreeProc \in ProcRecords
  /\ FreeThread \in ThreadRecords
  /\ \A s \in Threads : ContextOK(s, FreeThread.context)
<1>1. <<0, 0>> \in Threads
  BY SizeAssumption DEF Threads, Procs
<1>2. Flow(<<0, 0>>, "none") \in Flows
  BY <1>1, FreshFlow DEF Labels
<1> QED
  BY <1>2, Locks DEF FreeProc, ProcRecords, FreeThread, ThreadRecords, ContextOK, Flow, null

\* freeproc() takes one t_lock at a time below p->lock; its caller releases the rest.
LEMMA FreeprocStep ==
  ASSUME NEW c \in CPUs, IInv, Freeproc(c)
  PROVE  IInv'
<1> DEFINE q == cpu[c].q
           s == <<q, cpu[c].i>>
           t == cpu[c].t
<1>1. /\ cpu[c].pc = "freeproc" /\ q \in Procs /\ cpu[c].ret \in {"fork", "wait"}
      /\ t = null \/ (cpu[c].ret = "fork" /\ t \in Threads /\ t[1] = q /\ cpu[c].i <= t[2])
      /\ cpu[c].i \in 0 .. NKT
  BY Running, ZenonT(60) DEF Freeproc, At, FlowOK, Place, Flows
<1>2. CASE cpu[c].i = NKT
  <2>1. t = null
    BY <1>1, <1>2, SizeAssumption DEF Threads
  <2>2. Held(cpu[c]) = IF cpu[c].ret = "wait" THEN {wait_lock, Addr(q)} ELSE {Addr(q)}
    BY <1>1, <2>1 DEF Held
  <2>3. /\ proc' = [proc EXCEPT ![q] = FreeProc] /\ UNCHANGED <<kthread, nextpid>>
        /\ cpu' = [cpu EXCEPT ![c] = Returned(c)]
        /\ lock' = [lock EXCEPT ![Addr(q)] = Nobody,
                                ![wait_lock] = IF cpu[c].ret = "wait" THEN Nobody ELSE @]
    BY <1>2 DEF Freeproc, Become
  <2>4. Returned(c) \in Flows /\ FlowOK(Returned(c)) /\ Held(Returned(c)) = {}
    BY FreshOK, Running DEF Returned, Labels, Interruptible, Held
  <2>5. LockMove(c, Returned(c))
    <3>1. CASE cpu[c].ret = "wait"
      BY <1>1, <2>2, <2>3, <2>4, <3>1, LocksReleased, ZenonT(60)
    <3>2. CASE cpu[c].ret = "fork"
      <4>1. lock' = [lock EXCEPT ![Addr(q)] = Nobody]
        BY <1>1, <2>3, <3>2, Locks, ZenonT(60) DEF IInv, TypeOK
      <4> QED
        BY <1>1, <2>2, <2>4, <3>2, <4>1, LockReleased, ZenonT(60) DEF Release
    <3> QED
      BY <1>1, <3>1, <3>2
  <2> QED
    BY <1>1, <2>3, <2>4, <2>5, FreeRecords, ProcChange, Move, ZenonT(60) DEF IInv, TypeOK, ThreadsOK
<1>3. CASE cpu[c].i # NKT /\ lock[s] = c
  BY <1>1, <1>3, Entering, LockKept, Stay, ZenonT(60) DEF Freeproc, Become, Lockless, Panics, tables
<1>4. CASE cpu[c].i # NKT /\ lock[s] # c
  <2> DEFINE f == [cpu[c] EXCEPT !.i = @ + 1]
  <2>1. /\ cpu' = [cpu EXCEPT ![c] = f] /\ kthread' = [kthread EXCEPT ![s] = FreeThread]
        /\ UNCHANGED <<proc, nextpid, lock>>
    BY <1>4 DEF Freeproc, Iterate, IInv, TypeOK
  <2>2. s \in Threads /\ cpu[c].i + 1 \in 0 .. NKT
    BY <1>1, <1>4, SizeAssumption DEF Threads
  <2>3. f \in Flows /\ f.pc = "freeproc" /\ f.ret = cpu[c].ret /\ f.q = q /\ f.t = t /\ f.i = cpu[c].i + 1
    BY ZenonT(60), SMTT(60), <1>1, <2>2, Running DEF Flows
  <2>4. Held(f) = Held(cpu[c])
    BY <1>1, <2>3 DEF Held
  <2>5. t # null => t # s
    <3>1. t # null => t \in Held(cpu[c]) /\ t \in Objects
      BY <1>1, Locks DEF Held
    <3> QED
      BY <1>1, <1>4, <3>1 DEF IInv, LockDiscipline, At
  <2>6. t # null => cpu[c].i + 1 <= t[2]
    BY <1>1, <2>5 DEF Threads
  <2>7. FlowOK(f)
    BY <1>1, <2>3, <2>6 DEF FlowOK, Place
  <2>8. LockMove(c, f)
    BY <1>1, <2>1, <2>4, LockKept
  <2> QED
    BY <2>1, <2>2, <2>3, <2>7, <2>8, FreeRecords, ThreadChange, Move, ZenonT(60) DEF IInv, TypeOK
<1> QED
  BY <1>2, <1>3, <1>4

-----------------------------------------------------------------------------
(* exit(), exec(), wait() *)

\* exit() and exec() visit their siblings without a lock.
LEMMA ReapScanStep ==
  ASSUME NEW c \in CPUs, IInv, ReapScan(c)
  PROVE  IInv'
<1> DEFINE i == cpu[c].i
           s == Sibling(c, i)
<1>1. cpu[c].pc = "reap_scan" /\ Held(cpu[c]) = {} /\ i \in 0 .. NKT /\ lock' = lock
  BY Running DEF ReapScan, At, Held, Flows
<1>2. CASE i = NKT
  <2>1. Lockless(Flow(me(c), "exit_wait"))
    BY ZenonT(60), SMTT(60), FreshOK, Running DEF Lockless, Labels, Interruptible, Held
  <2> QED
    BY <1>1, <1>2, <2>1, Entering, LocklessStep DEF ReapScan, Become, IInv, TypeOK, ThreadsOK
<1>3. CASE i # NKT /\ s # me(c) /\ Live(s)
  <2> DEFINE f == [cpu[c] EXCEPT !.pc = "join_scan", !.i = 0, !.arg = kthread[me(c)].tid]
             r == [kthread[s] EXCEPT !.t_killed = TRUE]
  <2>1. cpu' = [cpu EXCEPT ![c] = f] /\ kthread' = [kthread EXCEPT ![s] = r] /\ UNCHANGED <<proc, nextpid>>
    BY <1>3 DEF ReapScan, Become
  <2>2. s \in Threads
    BY <1>1, <1>3, Running, SizeAssumption
  <2>3. r \in ThreadRecords /\ ContextOK(s, r.context)
    BY <2>2, ZenonT(60) DEF IInv, ThreadsOK, ThreadRecords
  <2>4. "join_scan" \in Labels /\ kthread[me(c)].tid \in Nat /\ 0 \in 0 .. NKT
    BY Running, SizeAssumption, SMTT(60) DEF Labels, Interruptible, IInv, TypeOK, ThreadRecords
  <2>5. f \in Flows /\ f.pc = "join_scan"
    BY <2>4, Running, ZenonT(60) DEF Flows
  <2>6. Lockless(f)
    BY <2>5 DEF Lockless, FlowOK, Place, Held
  <2> QED
    BY <1>1, <2>1, <2>2, <2>3, <2>6, ThreadChange, LocklessStep, ZenonT(60) DEF IInv, TypeOK
<1>4. CASE i # NKT /\ ~(s # me(c) /\ Live(s))
  <2> DEFINE f == [cpu[c] EXCEPT !.i = @ + 1]
  <2>1. cpu' = [cpu EXCEPT ![c] = f] /\ UNCHANGED <<proc, kthread, nextpid>>
    BY <1>4 DEF ReapScan, Iterate, IInv, TypeOK
  <2>2. i + 1 \in 0 .. NKT
    BY <1>1, <1>4, SizeAssumption
  <2>3. Lockless(f)
    BY ZenonT(60), SMTT(60), <1>1, <2>2, Running DEF Lockless, Flows, FlowOK, Place, Held
  <2> QED
    BY <1>1, <2>1, <2>3, LocklessStep, ZenonT(60) DEF IInv, TypeOK, ThreadsOK
<1> QED
  BY <1>2, <1>3, <1>4

\* exit() and wait() take wait_lock.
LEMMA WaitLockTaken ==
  ASSUME NEW c \in CPUs, IInv, ExitWait(c) \/ Wait(c)
  PROVE  IInv'
<1> DEFINE f == [cpu[c] EXCEPT !.pc = IF cpu[c].pc = "wait" THEN "wait_scan" ELSE "reparent"]
<1>1. /\ cpu[c].pc \in {"exit_wait", "wait"} /\ cpu' = [cpu EXCEPT ![c] = f]
      /\ Acquire(c, wait_lock) /\ UNCHANGED tables /\ Held(cpu[c]) = {}
  BY DEF ExitWait, Wait, Goto, At, Held, IInv, TypeOK
<1>2. f \in Flows /\ FlowOK(f) /\ Held(f) = {wait_lock}
  BY <1>1, Running, SMTT(60) DEF Flows, Labels, FlowOK, Place, Held
<1> QED
  BY <1>1, <1>2, LockTaken, Locks, Stay, ZenonT(60)

\* The flow of a caller of wakeup().
LEMMA WakingFlow ==
  ASSUME IInv, NEW c \in CPUs, NEW ch \in Objects,
         NEW l \in {"reparent", "exit_zombie", "kexit_unlock"}
  PROVE  LET f == Waking(c, ch, l) IN
         f \in Flows /\ FlowOK(f) /\ f.pc = "wakeup" /\ f.ret = l /\ f.kt = me(c)
<1>1. Flow(me(c), "wakeup") \in Flows
  BY ZenonT(60), SMTT(60), FreshFlow, Running DEF Labels
<1>2. l \in Returns
  BY DEF Returns
<1> QED
  BY <1>1, <1>2, ZenonT(60) DEF Waking, Flow, Flows, FlowOK, Place

\* reparent() gives children to init under wait_lock.
LEMMA ReparentStep ==
  ASSUME NEW c \in CPUs, IInv, Reparent(c)
  PROVE  IInv'
<1>1. cpu[c].pc = "reparent" /\ Held(cpu[c]) = {wait_lock} /\ lock' = lock
  BY DEF Reparent, At, Held
<1>2. ASSUME NEW ch \in Objects, NEW l \in {"reparent", "exit_zombie"},
             Become(c, Waking(c, ch, l)), proc' \in [Procs -> ProcRecords], UNCHANGED <<kthread, nextpid>>
      PROVE  IInv'
  <2>1. Waking(c, ch, l) \in Flows /\ FlowOK(Waking(c, ch, l)) /\ Held(Waking(c, ch, l)) = {wait_lock}
    BY WakingFlow, SMTT(60) DEF Held
  <2> QED
    BY <1>1, <1>2, <2>1, LockKept, Move, ZenonT(60) DEF Become, IInv, TypeOK, ThreadsOK
<1>3. initproc \in Procs /\ \A p \in Procs : proc[p] \in ProcRecords
  BY SizeAssumption, SMTT(60) DEF initproc, Procs, IInv, TypeOK
<1>4. Addr(proc[myproc(c)].parent) \in Objects
  <2>1. proc[myproc(c)].parent \in Procs \cup {NoProc}
    BY <1>3, Running DEF ProcRecords
  <2>2. Addr(NoProc) = wait_lock
    BY DEF Addr, wait_lock, null
  <2> QED
    BY <2>1, <2>2, Locks
<1>5. CASE Become(c, Waking(c, Addr(proc[myproc(c)].parent), "exit_zombie")) /\ UNCHANGED proc
  BY <1>2, <1>4, <1>5 DEF Reparent, IInv, TypeOK
<1>6. ASSUME NEW pp \in Procs, proc' = [proc EXCEPT ![pp].parent = initproc],
             Become(c, Waking(c, Addr(initproc), "reparent"))
      PROVE  IInv'
  <2> DEFINE r == [proc[pp] EXCEPT !.parent = initproc]
  <2>1. r \in ProcRecords
    BY <1>3 DEF ProcRecords
  <2>2. proc' \in [Procs -> ProcRecords]
    BY <1>6, <2>1, ProcChange, ZenonT(60)
  <2> QED
    BY <1>2, <1>3, <1>6, <2>2, Locks DEF Reparent
<1> QED
  BY <1>5, <1>6, ZenonT(60) DEF Reparent, Children

\* exit() sets p->state under wait_lock and p->lock.
LEMMA ExitZombieStep ==
  ASSUME NEW c \in CPUs, IInv, ExitZombie(c)
  PROVE  IInv'
<1> DEFINE f == [cpu[c] EXCEPT !.pc = "exit_threads"]
           r == [proc[myproc(c)] EXCEPT !.state = "ZOMBIE"]
<1>1. cpu[c].pc = "exit_zombie" /\ cpu[c].i = 0 /\ Held(cpu[c]) = {wait_lock}
  BY Running DEF ExitZombie, At, Held, FlowOK, Place
<1>2. cpu' = [cpu EXCEPT ![c] = f] /\ proc' = [proc EXCEPT ![myproc(c)] = r] /\ lock' = lock
  BY DEF ExitZombie, Goto, IInv, TypeOK
<1>3. r \in ProcRecords
  BY ZenonT(60), SMTT(60), Running DEF IInv, TypeOK, ProcRecords
<1>4. f \in Flows /\ FlowOK(f) /\ f.i = 0 /\ f.pc = "exit_threads" /\ f.kt = me(c)
  BY <1>1, Running, SMTT(60) DEF Flows, Labels, FlowOK, Place, me
<1>5. Held(f) = {wait_lock}
  BY <1>4, Running DEF Held
<1>6. LockMove(c, f)
  BY <1>1, <1>2, <1>5, LockKept, ZenonT(60)
<1>7. proc' \in [Procs -> ProcRecords]
  BY <1>2, <1>3, Running, ProcChange, ZenonT(60)
<1> QED
  BY <1>2, <1>4, <1>6, <1>7, Move, ZenonT(60) DEF ExitZombie, IInv, TypeOK, ThreadsOK

\* exit() keeps its own t_lock from the moment its scan passes its own slot.
LEMMA ExitThreadsStep ==
  ASSUME NEW c \in CPUs, IInv, ExitThreads(c)
  PROVE  IInv'
<1> DEFINE i == cpu[c].i
           s == Sibling(c, i)
<1>1. /\ cpu[c].pc = "exit_threads" /\ i \in 0 .. NKT /\ cpu[c].kt = me(c)
      /\ Held(cpu[c]) = {wait_lock} \cup (IF i > me(c)[2] THEN {me(c)} ELSE {})
  BY Running DEF ExitThreads, At, Held, Flows, me
<1>2. CASE i = NKT
  <2> DEFINE f == [cpu[c] EXCEPT !.pc = "exit_unlock"]
  <2>1. cpu' = [cpu EXCEPT ![c] = f] /\ lock' = lock /\ UNCHANGED tables
    BY <1>2 DEF ExitThreads, Goto, IInv, TypeOK, tables
  <2>2. f \in Flows /\ f.pc = "exit_unlock" /\ f.kt = me(c)
    BY <1>1, Running, SMTT(60) DEF Flows, Labels
  <2>3. FlowOK(f) /\ Held(f) = {wait_lock, me(c)}
    BY <2>2 DEF FlowOK, Place, Held
  <2>4. Held(cpu[c]) = {wait_lock, me(c)}
    BY <1>1, <1>2, Running, SizeAssumption, SMTT(60)
  <2> QED
    BY <1>1, <2>1, <2>2, <2>3, <2>4, LockKept, Stay, ZenonT(60)
<1>3. CASE i # NKT
  <2> DEFINE f == [cpu[c] EXCEPT !.i = @ + 1]
             r == [kthread[s] EXCEPT !.t_state = "ZOMBIE_t"]
  <2>1. /\ cpu' = [cpu EXCEPT ![c] = f] /\ kthread' = [kthread EXCEPT ![s] = r]
        /\ IF s = me(c) THEN Acquire(c, s) ELSE lock' = lock
    BY <1>3 DEF ExitThreads, Iterate, IInv, TypeOK
  <2>2. s \in Threads /\ i + 1 \in 0 .. NKT
    BY <1>1, <1>3, Running, SizeAssumption, SMTT(60)
  <2>3. ThreadsOK'
    <3>1. r \in ThreadRecords /\ ContextOK(s, r.context)
      BY <2>2 DEF IInv, ThreadsOK, ThreadRecords
    <3> QED
      BY <2>1, <2>2, <3>1, ThreadChange, ZenonT(60)
  <2>4. f \in Flows /\ f.pc = "exit_threads" /\ f.kt = me(c) /\ f.i = i + 1
    BY ZenonT(60), SMTT(60), <1>1, <2>2, Running DEF Flows
  <2>5. FlowOK(f) /\ Held(f) = {wait_lock} \cup (IF i + 1 > me(c)[2] THEN {me(c)} ELSE {})
    BY <2>4 DEF FlowOK, Place, Held
  <2>6. s = me(c) <=> i = me(c)[2]
    BY <1>1, Running DEF Sibling
  <2>7. LockMove(c, f)
    <3>1. CASE s = me(c)
      <4>1. Held(f) = Held(cpu[c]) \cup {s} /\ s \in Objects
        BY <1>1, <2>5, <2>6, <3>1, <2>2, Locks, Running, SMTT(60)
      <4> QED
        BY <1>1, <2>1, <3>1, <4>1, LockTaken
    <3>2. CASE s # me(c)
      <4>1. i + 1 > me(c)[2] <=> i > me(c)[2]
        BY <1>1, <2>6, <3>2, Running, SizeAssumption, SMTT(60)
      <4>2. Held(f) = Held(cpu[c])
        BY <1>1, <2>5, <4>1
      <4> QED
        BY <1>1, <2>1, <3>2, <4>2, LockKept, ZenonT(60)
    <3> QED
      BY <3>1, <3>2
  <2> QED
    BY <2>1, <2>3, <2>4, <2>5, <2>7, Move, ZenonT(60) DEF ExitThreads, IInv, TypeOK
<1> QED
  BY <1>2, <1>3

\* exit() enters sched() with its own t_lock only.
LEMMA ExitUnlockStep ==
  ASSUME NEW c \in CPUs, IInv, ExitUnlock(c)
  PROVE  IInv'
<1> DEFINE f == Flow(me(c), "exit_sched")
<1>1. cpu[c].pc = "exit_unlock" /\ Held(cpu[c]) = {wait_lock, me(c)}
  BY DEF ExitUnlock, At, Held, me
<1>2. f \in Flows /\ FlowOK(f) /\ f.pc = "exit_sched" /\ f.kt = me(c)
  BY Running, FreshOK DEF Labels, Flow
<1>3. Held(f) = {me(c)} /\ me(c) # wait_lock
  BY <1>2, Running, Locks DEF Held
<1>4. LockMove(c, f)
  BY ZenonT(60), SMTT(60), <1>1, <1>3, LockReleased DEF ExitUnlock
<1> QED
  BY <1>2, <1>4, Stay, ZenonT(60) DEF ExitUnlock, Become

\* wait() visits its children under wait_lock, and keeps the p->lock of a zombie.
LEMMA WaitScanStep ==
  ASSUME NEW c \in CPUs, IInv, WaitScan(c)
  PROVE  IInv'
<1>1. cpu[c].pc = "wait_scan" /\ cpu[c].t = null /\ Held(cpu[c]) = {wait_lock} /\ UNCHANGED tables
  BY Running, ZenonT(60) DEF WaitScan, At, Held, FlowOK, Place
<1>2. CASE Goto(c, "wait_none") /\ lock' = lock
  <2> DEFINE f == [cpu[c] EXCEPT !.pc = "wait_none"]
  <2>1. cpu' = [cpu EXCEPT ![c] = f]
    BY <1>2 DEF Goto, IInv, TypeOK
  <2>2. f \in Flows /\ FlowOK(f) /\ Held(f) = {wait_lock}
    BY <1>1, Running, SMTT(60) DEF Flows, Labels, FlowOK, Place, Held
  <2> QED
    BY <1>1, <1>2, <2>1, <2>2, LockKept, Stay, ZenonT(60)
<1>3. ASSUME NEW pp \in Procs, Acquire(c, Addr(pp)),
             Become(c, [cpu[c] EXCEPT !.pc = "wait_found", !.q = pp])
      PROVE  IInv'
  <2> DEFINE f == [cpu[c] EXCEPT !.pc = "wait_found", !.q = pp]
  <2>1. pp \in 0 .. NPROC /\ "wait_found" \in Labels
    BY SizeAssumption DEF Procs, Labels
  <2>2. f \in Flows /\ f.pc = "wait_found" /\ f.q = pp /\ f.t = null
    BY <1>1, <2>1, Running, ZenonT(60) DEF Flows
  <2>3. FlowOK(f) /\ Held(f) = {wait_lock, Addr(pp)}
    BY <2>2 DEF FlowOK, Place, Held
  <2>4. LockMove(c, f)
    BY <1>1, <1>3, <2>3, LockTaken, Locks, SMTT(60)
  <2> QED
    BY <1>1, <1>3, <2>2, <2>3, <2>4, Stay, ZenonT(60) DEF Become
<1>4. ASSUME NEW pp \in Procs, Become(c, [cpu[c] EXCEPT !.q = pp + 1]), lock' = lock
      PROVE  IInv'
  <2> DEFINE f == [cpu[c] EXCEPT !.q = pp + 1]
  <2>1. pp + 1 \in 0 .. NPROC
    BY SizeAssumption DEF Procs
  <2>2. f \in Flows /\ f.pc = "wait_scan" /\ f.t = null
    BY ZenonT(60), SMTT(60), <1>1, <2>1, Running DEF Flows
  <2>3. FlowOK(f) /\ Held(f) = {wait_lock}
    BY <2>2 DEF FlowOK, Place, Held
  <2> QED
    BY <1>1, <1>4, <2>2, <2>3, LockKept, Stay, ZenonT(60) DEF Become
<1> QED
  BY <1>2, <1>3, <1>4, ZenonT(60) DEF WaitScan, Children

\* wait() frees the zombie, or releases both locks when copyout() fails.
LEMMA WaitFoundStep ==
  ASSUME NEW c \in CPUs, IInv, WaitFound(c)
  PROVE  IInv'
<1> DEFINE q == cpu[c].q
<1>1. /\ cpu[c].pc = "wait_found" /\ cpu[c].t = null /\ q \in Procs
      /\ Held(cpu[c]) = {wait_lock, Addr(q)} /\ UNCHANGED tables
  BY Running DEF WaitFound, At, Held, FlowOK, Place
<1>2. CASE /\ lock' = [lock EXCEPT ![Addr(q)] = Nobody, ![wait_lock] = Nobody]
           /\ Become(c, Returned(c))
  <2>1. Held(cpu[c]) = {Addr(q), wait_lock} /\ cpu[c].pc # "panic"
    BY <1>1
  <2>2. Returned(c) \in Flows /\ FlowOK(Returned(c)) /\ (Returned(c).pc # "panic" => Held(Returned(c)) = {})
    BY Entering DEF Lockless
  <2>3. lock' = [lock EXCEPT ![Addr(q)] = Nobody, ![wait_lock] = Nobody]
    BY <1>2
  <2>4. LockMove(c, Returned(c))
    <3> HIDE DEF q
    <3> QED
      BY <2>1, <2>2, <2>3, LocksReleased, ZenonT(60)
  <2> QED
    BY <1>1, <1>2, <2>2, <2>4, Stay, ZenonT(60) DEF Become
<1>3. CASE Become(c, [cpu[c] EXCEPT !.pc = "freeproc", !.ret = "wait"]) /\ lock' = lock
  <2> DEFINE f == [cpu[c] EXCEPT !.pc = "freeproc", !.ret = "wait"]
  <2>1. "freeproc" \in Labels /\ "wait" \in Returns
    BY DEF Labels, Returns
  <2>2. f \in Flows /\ f.pc = "freeproc" /\ f.ret = "wait" /\ f.q = q /\ f.t = null
    BY <1>1, <2>1, Running, ZenonT(60) DEF Flows
  <2>3. FlowOK(f) /\ Held(f) = {wait_lock, Addr(q)}
    BY <1>1, <2>2 DEF FlowOK, Place, Held
  <2> QED
    BY <1>1, <1>3, <2>2, <2>3, LockKept, Stay, ZenonT(60) DEF Become
<1> QED
  BY <1>2, <1>3 DEF WaitFound

\* wait() without a zombie releases wait_lock or hands it to sleep().
LEMMA WaitNoneStep ==
  ASSUME NEW c \in CPUs, IInv, WaitNone(c)
  PROVE  IInv'
<1>1. cpu[c].pc = "wait_none" /\ Held(cpu[c]) = {wait_lock} /\ UNCHANGED tables
  BY DEF WaitNone, At, Held
<1>2. CASE Release(wait_lock) /\ Become(c, Returned(c))
  BY <1>1, <1>2, Entering, LockReleased, Stay, ZenonT(60) DEF Become, Lockless
<1>3. CASE /\ Become(c, [Flow(me(c), "sleep") EXCEPT !.ch = Addr(myproc(c)), !.ret = "wait_scan"])
           /\ lock' = lock
  <2> DEFINE g == Flow(me(c), "sleep")
             f == [g EXCEPT !.ch = Addr(myproc(c)), !.ret = "wait_scan"]
  <2>1. g \in Flows /\ "wait_scan" \in Returns /\ Addr(myproc(c)) \in Objects
    BY FreshFlow, Running, Locks DEF Labels, Returns
  <2>2. f \in Flows /\ f.pc = "sleep" /\ f.ret = "wait_scan" /\ f.t = null
    BY <2>1, ZenonT(60) DEF Flow, Flows
  <2>3. FlowOK(f) /\ Held(f) = {wait_lock}
    BY <2>2 DEF FlowOK, Place, Held
  <2> QED
    BY <1>1, <1>3, <2>2, <2>3, LockKept, Stay, ZenonT(60) DEF Become
<1> QED
  BY <1>2, <1>3 DEF WaitNone

-----------------------------------------------------------------------------
(* kthread_create(), kthread_exit(), kthread_join(), kthread_kill(), kill() *)

\* The flow after one iteration of a scan over the thread slots.
LEMMA NextIndex ==
  ASSUME IInv, NEW c \in CPUs, cpu[c].i # NKT
  PROVE  LET f == [cpu[c] EXCEPT !.i = @ + 1] IN
         /\ f \in Flows /\ f.pc = cpu[c].pc /\ f.t = cpu[c].t /\ f.q = cpu[c].q
         /\ Iterate(c) => cpu' = [cpu EXCEPT ![c] = f]
         /\ Sibling(c, cpu[c].i) \in Threads
         /\ cpu[c].i \in 0 .. NKT - 1
<1>1. cpu[c].i \in 0 .. NKT - 1 /\ cpu[c].i + 1 \in 0 .. NKT
  BY Running, SizeAssumption, SMTT(60) DEF Flows
<1> QED
  BY <1>1, Running, ZenonT(60) DEF Flows, Iterate, IInv, TypeOK

\* kthread_create() takes one t_lock at a time.
LEMMA CreateScanStep ==
  ASSUME NEW c \in CPUs, IInv, CreateScan(c)
  PROVE  IInv'
<1> DEFINE s == Sibling(c, cpu[c].i)
<1>1. cpu[c].pc = "create_scan" /\ Held(cpu[c]) = {} /\ lock' = lock /\ nextpid' \in Nat
  BY DEF CreateScan, At, Held, IInv, TypeOK
<1>2. CASE cpu[c].i = NKT
  BY <1>1, <1>2, Entering, LocklessStep DEF CreateScan, Become, IInv, TypeOK, ThreadsOK
<1>3. CASE cpu[c].i # NKT /\ kthread[s].t_state # "UNUSED_t"
  <2> DEFINE f == [cpu[c] EXCEPT !.i = @ + 1]
  <2>1. cpu' = [cpu EXCEPT ![c] = f] /\ f \in Flows /\ f.pc = "create_scan"
    BY <1>1, <1>3, NextIndex DEF CreateScan
  <2>2. Lockless(f)
    BY <2>1 DEF Lockless, FlowOK, Place, Held
  <2> QED
    BY <1>1, <1>3, <2>1, <2>2, LocklessStep, ZenonT(60) DEF CreateScan, IInv, TypeOK, ThreadsOK
<1>4. CASE cpu[c].i # NKT /\ kthread[s].t_state = "UNUSED_t"
  <2> DEFINE g == Flow(me(c), "create_ret")
             f == [g EXCEPT !.t = s, !.arg = proc[s[1]].p_counter]
             r == [proc[s[1]] EXCEPT !.p_counter = @ + 1]
             u == Allocated(s, "RUNNABLE_t")
  <2>1. cpu' = [cpu EXCEPT ![c] = f] /\ kthread' = [kthread EXCEPT ![s] = u]
    BY <1>4 DEF CreateScan, Become
  <2>2. s \in Threads /\ s[1] \in Procs /\ proc[s[1]] \in ProcRecords
    BY <1>4, NextIndex, Running, ZenonT(60) DEF Sibling, IInv, TypeOK
  <2>3. proc[s[1]].p_counter \in Nat /\ r \in ProcRecords
    BY <2>2, SMTT(60) DEF ProcRecords
  <2>4. proc' = [proc EXCEPT ![s[1]] = r]
    BY <1>4, <2>2 DEF CreateScan, IInv, TypeOK
  <2>5. proc' \in [Procs -> ProcRecords]
    BY <2>2, <2>3, <2>4, ProcChange, ZenonT(60)
  <2>6. u \in ThreadRecords /\ ContextOK(s, u.context)
    BY <2>2, AllocatedOK
  <2>7. ThreadsOK'
    BY <2>1, <2>2, <2>6, ThreadChange, ZenonT(60)
  <2>8. g \in Flows
    BY FreshOK, Running DEF Labels, Interruptible
  <2>9. f \in Flows /\ f.pc = "create_ret"
    BY <2>2, <2>3, <2>8, ZenonT(60) DEF Flow, Flows
  <2>10. Lockless(f)
    BY <2>9 DEF Lockless, FlowOK, Place, Held
  <2> QED
    BY <1>1, <2>1, <2>5, <2>7, <2>10, LocklessStep, ZenonT(60)
<1> QED
  BY <1>2, <1>3, <1>4

\* kthread_create() returns without a lock.
LEMMA CreateRetStep ==
  ASSUME NEW c \in CPUs, IInv, CreateRet(c)
  PROVE  IInv'
<1>1. cpu[c].pc = "create_ret" /\ Held(cpu[c]) = {}
  BY DEF CreateRet, At, Held
<1> QED
  BY <1>1, Entering, LocklessStep, ZenonT(60) DEF CreateRet, Become, tables, IInv, TypeOK, ThreadsOK

\* if_last_thread() takes one t_lock at a time.
LEMMA KexitLastStep ==
  ASSUME NEW c \in CPUs, IInv, KexitLast(c)
  PROVE  IInv'
<1>1. cpu[c].pc = "kexit_last" /\ Held(cpu[c]) = {} /\ lock' = lock /\ UNCHANGED tables
  BY DEF KexitLast, At, Held
<1>2. ASSUME NEW f, Lockless(f), cpu' = [cpu EXCEPT ![c] = f] PROVE IInv'
  BY <1>1, <1>2, LocklessStep, ZenonT(60) DEF tables, IInv, TypeOK, ThreadsOK
<1>3. CASE cpu[c].i = NKT
  BY <1>2, <1>3, Entering DEF KexitLast, Become
<1>4. CASE cpu[c].i # NKT /\ Iterate(c)
  <2> DEFINE f == [cpu[c] EXCEPT !.i = @ + 1]
  <2>1. cpu' = [cpu EXCEPT ![c] = f] /\ f \in Flows /\ f.pc = "kexit_last"
    BY <1>1, <1>4, NextIndex
  <2>2. Lockless(f)
    BY <2>1 DEF Lockless, FlowOK, Place, Held
  <2> QED
    BY <1>2, <2>1, <2>2, ZenonT(60)
<1>5. CASE Goto(c, "kexit_zombie")
  <2> DEFINE f == [cpu[c] EXCEPT !.pc = "kexit_zombie"]
  <2>1. "kexit_zombie" \in Labels
    BY DEF Labels, Interruptible
  <2>2. cpu' = [cpu EXCEPT ![c] = f] /\ f \in Flows /\ f.pc = "kexit_zombie"
    BY ZenonT(60), SMTT(60), <1>5, <2>1, Running DEF Goto, Flows, IInv, TypeOK
  <2>3. Lockless(f)
    BY <2>2 DEF Lockless, FlowOK, Place, Held
  <2> QED
    BY <1>2, <2>2, <2>3, ZenonT(60)
<1> QED
  BY <1>3, <1>4, <1>5 DEF KexitLast

\* kthread_exit() becomes ZOMBIE_t under its t_lock.
LEMMA KexitZombieStep ==
  ASSUME NEW c \in CPUs, IInv, KexitZombie(c)
  PROVE  IInv'
<1> DEFINE f == [cpu[c] EXCEPT !.pc = "kexit_plock"]
           r == [kthread[me(c)] EXCEPT !.t_state = "ZOMBIE_t"]
<1>1. cpu[c].pc = "kexit_zombie" /\ Held(cpu[c]) = {} /\ lock' = lock
  BY DEF KexitZombie, At, Held
<1>2. "kexit_plock" \in Labels
  BY DEF Labels, Interruptible
<1>3. cpu' = [cpu EXCEPT ![c] = f] /\ f \in Flows /\ f.pc = "kexit_plock"
  BY <1>2, Running, ZenonT(60) DEF KexitZombie, Goto, Flows, IInv, TypeOK
<1>4. Lockless(f)
  BY <1>3 DEF Lockless, FlowOK, Place, Held
<1>5. r \in ThreadRecords /\ ContextOK(me(c), r.context) /\ kthread' = [kthread EXCEPT ![me(c)] = r]
  BY ZenonT(60), SMTT(60), Running DEF KexitZombie, IInv, ThreadsOK, ThreadRecords
<1>6. ThreadsOK'
  BY <1>5, Running, ThreadChange, ZenonT(60)
<1> QED
  BY <1>1, <1>3, <1>4, <1>6, LocklessStep, ZenonT(60) DEF KexitZombie, IInv, TypeOK

\* kthread_exit() wakes its joiners under p->lock.
LEMMA KexitPlockStep ==
  ASSUME NEW c \in CPUs, IInv, KexitPlock(c)
  PROVE  IInv'
<1> DEFINE f == Waking(c, me(c), "kexit_unlock")
<1>1. cpu[c].pc = "kexit_plock" /\ Held(cpu[c]) = {}
  BY DEF KexitPlock, At, Held
<1>2. f \in Flows /\ FlowOK(f) /\ f.pc = "wakeup" /\ f.ret = "kexit_unlock" /\ f.kt = me(c)
  BY WakingFlow, Running, Locks
<1>3. Held(f) = {Addr(myproc(c))}
  BY <1>2 DEF Held, myproc, me
<1>4. LockMove(c, f)
  BY <1>1, <1>3, Running, Locks, LockTaken DEF KexitPlock
<1> QED
  BY <1>2, <1>4, Stay, ZenonT(60) DEF KexitPlock, Become

\* kthread_exit() releases p->lock.
LEMMA KexitUnlockStep ==
  ASSUME NEW c \in CPUs, IInv, KexitUnlock(c)
  PROVE  IInv'
<1> DEFINE f == [cpu[c] EXCEPT !.pc = "kexit_relock"]
<1>1. cpu[c].pc = "kexit_unlock" /\ Held(cpu[c]) = {Addr(myproc(c))}
  BY DEF KexitUnlock, At, Held, myproc
<1>2. "kexit_relock" \in Labels
  BY DEF Labels, Interruptible
<1>3. cpu' = [cpu EXCEPT ![c] = f] /\ f \in Flows /\ f.pc = "kexit_relock"
  BY <1>2, Running, ZenonT(60) DEF KexitUnlock, Goto, Flows, IInv, TypeOK
<1>4. FlowOK(f) /\ Held(f) = {}
  BY <1>3 DEF FlowOK, Place, Held
<1>5. LockMove(c, f)
  BY <1>1, <1>4, LockReleased DEF KexitUnlock
<1> QED
  BY <1>3, <1>4, <1>5, Stay, ZenonT(60) DEF KexitUnlock

\* kthread_exit() enters sched() with its own t_lock.
LEMMA KexitRelockStep ==
  ASSUME NEW c \in CPUs, IInv, KexitRelock(c)
  PROVE  IInv'
<1> DEFINE f == [cpu[c] EXCEPT !.pc = "exit_sched"]
<1>1. cpu[c].pc = "kexit_relock" /\ Held(cpu[c]) = {}
  BY DEF KexitRelock, At, Held
<1>2. cpu' = [cpu EXCEPT ![c] = f] /\ f \in Flows /\ f.pc = "exit_sched" /\ f.kt = me(c)
  <2>1. "exit_sched" \in Labels
    BY DEF Labels
  <2>2. cpu' = [cpu EXCEPT ![c] = f]
    BY DEF KexitRelock, Goto, IInv, TypeOK
  <2> QED
    BY ZenonT(60), SMTT(60), <2>1, <2>2, Running DEF Flows, me
<1>3. FlowOK(f) /\ Held(f) = {me(c)}
  BY <1>2 DEF FlowOK, Place, Held
<1>4. LockMove(c, f)
  BY <1>1, <1>3, Running, Locks, LockTaken DEF KexitRelock
<1> QED
  BY <1>2, <1>3, <1>4, Stay, ZenonT(60) DEF KexitRelock

\* kthread_join() looks for the tid one t_lock at a time.
LEMMA JoinScanStep ==
  ASSUME NEW c \in CPUs, IInv, JoinScan(c)
  PROVE  IInv'
<1>1. cpu[c].pc = "join_scan" /\ Held(cpu[c]) = {} /\ lock' = lock /\ UNCHANGED tables
  BY DEF JoinScan, At, Held
<1>2. ASSUME NEW f, Lockless(f), cpu' = [cpu EXCEPT ![c] = f] PROVE IInv'
  BY <1>1, <1>2, LocklessStep, ZenonT(60) DEF tables, IInv, TypeOK, ThreadsOK
<1>3. CASE Become(c, JoinReturn(c))
  BY <1>2, <1>3, Entering, ZenonT(60) DEF JoinReturn, Become, Panics
<1>4. CASE /\ Become(c, [cpu[c] EXCEPT !.pc = "join_plock", !.i = 0, !.arg = 0])
           /\ cpu[c].t # null
  <2> DEFINE f == [cpu[c] EXCEPT !.pc = "join_plock", !.i = 0, !.arg = 0]
  <2>1. "join_plock" \in Labels /\ 0 \in 0 .. NKT /\ cpu[c].t \in Threads
    BY <1>4, Running, SizeAssumption, SMTT(60) DEF Labels, Interruptible, Flows
  <2>2. f \in Flows /\ f.pc = "join_plock" /\ f.t \in Threads
    BY <2>1, Running, ZenonT(60) DEF Flows
  <2>3. Lockless(f)
    BY <2>2 DEF Lockless, FlowOK, Place, Held
  <2> QED
    BY <1>2, <1>4, <2>3, ZenonT(60) DEF Become
<1>5. CASE cpu[c].i # NKT
  <2> DEFINE s == Sibling(c, cpu[c].i)
             u == IF kthread[s].tid = cpu[c].arg THEN s ELSE cpu[c].t
             f == [cpu[c] EXCEPT !.i = @ + 1, !.t = u]
  <2>1. cpu' = [cpu EXCEPT ![c] = f]
    BY <1>5 DEF JoinScan, Become
  <2>2. cpu[c].i + 1 \in 0 .. NKT /\ u \in Threads \cup {null}
    BY <1>5, NextIndex, Running, SizeAssumption DEF Flows
  <2>3. f \in Flows /\ f.pc = "join_scan"
    <3> HIDE DEF u
    <3> QED
      BY <1>1, <2>2, Running, ZenonT(60) DEF Flows
  <2>4. Lockless(f)
    BY <2>3, ZenonT(60) DEF Lockless, FlowOK, Place, Held
  <2> QED
    BY <1>2, <2>1, <2>4, ZenonT(60)
<1> QED
  BY <1>3, <1>4, <1>5 DEF JoinScan

\* kthread_join() takes p->lock.
LEMMA JoinPlockStep ==
  ASSUME NEW c \in CPUs, IInv, JoinPlock(c)
  PROVE  IInv'
<1> DEFINE f == [cpu[c] EXCEPT !.pc = "join_check"]
<1>1. cpu[c].pc = "join_plock" /\ Held(cpu[c]) = {} /\ cpu[c].t \in Threads
  BY Running DEF JoinPlock, At, Held, FlowOK, Place
<1>2. "join_check" \in Labels /\ cpu' = [cpu EXCEPT ![c] = f]
  BY DEF JoinPlock, Goto, Labels, IInv, TypeOK
<1>3. f \in Flows /\ f.pc = "join_check" /\ f.kt = me(c) /\ f.t \in Threads
  BY ZenonT(60), SMTT(60), <1>1, <1>2, Running DEF Flows, me
<1>4. FlowOK(f) /\ Held(f) = {Addr(myproc(c))}
  BY <1>3 DEF FlowOK, Place, Held, myproc, me
<1>5. LockMove(c, f)
  BY <1>1, <1>4, Running, Locks, LockTaken DEF JoinPlock
<1> QED
  BY <1>2, <1>3, <1>4, <1>5, Stay, ZenonT(60) DEF JoinPlock

\* kthread_join() tests for a zombie, or hands p->lock to sleep().
LEMMA JoinCheckStep ==
  ASSUME NEW c \in CPUs, IInv, JoinCheck(c)
  PROVE  IInv'
<1>1. /\ cpu[c].pc = "join_check" /\ Held(cpu[c]) = {Addr(myproc(c))} /\ cpu[c].t \in Threads
      /\ lock' = lock /\ UNCHANGED tables
  BY Running DEF JoinCheck, At, Held, FlowOK, Place, myproc, me
<1>2. CASE Goto(c, "join_free")
  <2> DEFINE f == [cpu[c] EXCEPT !.pc = "join_free"]
  <2>1. "join_free" \in Labels /\ cpu' = [cpu EXCEPT ![c] = f]
    BY <1>2 DEF Goto, Labels, IInv, TypeOK
  <2>2. f \in Flows /\ f.pc = "join_free" /\ f.kt = me(c) /\ f.t \in Threads
    BY ZenonT(60), SMTT(60), <1>1, <2>1, Running DEF Flows, me
  <2>3. FlowOK(f) /\ Held(f) = {Addr(myproc(c))}
    BY <2>2 DEF FlowOK, Place, Held, myproc, me
  <2> QED
    BY <1>1, <2>1, <2>2, <2>3, LockKept, Stay, ZenonT(60)
<1>3. CASE Become(c, [cpu[c] EXCEPT !.pc = "sleep", !.ch = cpu[c].t, !.ret = "join_check"])
  <2> DEFINE f == [cpu[c] EXCEPT !.pc = "sleep", !.ch = cpu[c].t, !.ret = "join_check"]
  <2>1. "sleep" \in Labels /\ "join_check" \in Returns /\ cpu[c].t \in Objects
    BY <1>1, Locks DEF Labels, Returns
  <2>2. f \in Flows /\ f.pc = "sleep" /\ f.ret = "join_check" /\ f.kt = me(c) /\ f.t \in Threads
    BY <1>1, <2>1, Running, ZenonT(60) DEF Flows, me
  <2>3. FlowOK(f) /\ Held(f) = {Addr(myproc(c))}
    BY <2>2 DEF FlowOK, Place, Held, myproc, me
  <2> QED
    BY <1>1, <1>3, <2>2, <2>3, LockKept, Stay, ZenonT(60) DEF Become
<1> QED
  BY <1>2, <1>3 DEF JoinCheck

\* kthread_join() frees the thread and releases p->lock on every path.
LEMMA JoinFreeStep ==
  ASSUME NEW c \in CPUs, IInv, JoinFree(c)
  PROVE  IInv'
<1>1. /\ cpu[c].pc = "join_free" /\ Held(cpu[c]) = {Addr(myproc(c))} /\ cpu[c].t \in Threads
      /\ Release(Addr(myproc(c))) /\ cpu' = [cpu EXCEPT ![c] = JoinReturn(c)]
  BY Running DEF JoinFree, At, Held, FlowOK, Place, myproc, me, Become
<1>2. Lockless(JoinReturn(c))
  BY Entering, ZenonT(60) DEF JoinReturn, Panics
<1>3. LockMove(c, JoinReturn(c))
  BY <1>1, <1>2, LockReleased DEF Lockless
<1>4. ThreadsOK'
  <2>1. CASE kthread' = kthread
    BY <2>1 DEF IInv, ThreadsOK
  <2>2. CASE kthread' = [kthread EXCEPT ![cpu[c].t] = FreeThread]
    BY <1>1, <2>2, FreeRecords, ThreadChange, ZenonT(60)
  <2> QED
    BY <2>1, <2>2 DEF JoinFree
<1> QED
  BY <1>1, <1>2, <1>3, <1>4, Move, ZenonT(60) DEF JoinFree, Lockless, IInv, TypeOK

\* The record of a thread that kthread_kill() marked.
LEMMA RousedOK ==
  ASSUME IInv, NEW s \in Threads, NEW k \in BOOLEAN
  PROVE  LET r == [kthread[s] EXCEPT !.t_killed = k, !.t_state = Roused(@)] IN
         r \in ThreadRecords /\ ContextOK(s, r.context)
<1>1. kthread[s] \in ThreadRecords /\ ContextOK(s, kthread[s].context)
  BY DEF IInv, ThreadsOK
<1> QED
  BY <1>1, ZenonT(60) DEF Roused, ThreadRecords

\* kthread_kill() takes one t_lock at a time.
LEMMA KkillScanStep ==
  ASSUME NEW c \in CPUs, IInv, KkillScan(c)
  PROVE  IInv'
<1> DEFINE s == Sibling(c, cpu[c].i)
<1>1. cpu[c].pc = "kkill_scan" /\ Held(cpu[c]) = {} /\ lock' = lock /\ UNCHANGED <<proc, nextpid>>
  BY DEF KkillScan, At, Held
<1>2. CASE Become(c, Returned(c)) /\ UNCHANGED kthread
  BY <1>1, <1>2, Entering, LocklessStep, ZenonT(60) DEF Become, IInv, TypeOK, ThreadsOK
<1>3. CASE cpu[c].i # NKT /\ Iterate(c) /\ UNCHANGED kthread
  <2> DEFINE f == [cpu[c] EXCEPT !.i = @ + 1]
  <2>1. cpu' = [cpu EXCEPT ![c] = f] /\ f \in Flows /\ f.pc = "kkill_scan"
    BY <1>1, <1>3, NextIndex
  <2>2. Lockless(f)
    BY <2>1 DEF Lockless, FlowOK, Place, Held
  <2> QED
    BY <1>1, <1>3, <2>1, <2>2, LocklessStep, ZenonT(60) DEF IInv, TypeOK, ThreadsOK
<1>4. CASE /\ cpu[c].i # NKT /\ Become(c, Returned(c))
           /\ kthread' = [kthread EXCEPT ![s].t_killed = TRUE, ![s].t_state = Roused(@)]
  <2> DEFINE r == [kthread[s] EXCEPT !.t_killed = TRUE, !.t_state = Roused(@)]
  <2>1. s \in Threads
    BY <1>4, NextIndex, ZenonT(60)
  <2>2. r \in ThreadRecords /\ ContextOK(s, r.context) /\ kthread' = [kthread EXCEPT ![s] = r]
    BY <1>4, <2>1, RousedOK, ZenonT(60) DEF IInv, TypeOK
  <2>3. ThreadsOK'
    BY <2>1, <2>2, ThreadChange, ZenonT(60)
  <2> QED
    BY <1>1, <1>4, <2>3, Entering, LocklessStep, ZenonT(60) DEF Become, IInv, TypeOK
<1> QED
  BY <1>2, <1>3, <1>4 DEF KkillScan

\* kill() keeps the p->lock of its victim.
LEMMA KillScanStep ==
  ASSUME NEW c \in CPUs, IInv, KillScan(c)
  PROVE  IInv'
<1> DEFINE q == cpu[c].q
<1>1. cpu[c].pc = "kill_scan" /\ Held(cpu[c]) = {} /\ q \in 0 .. NPROC /\ UNCHANGED <<kthread, nextpid>>
  BY Running DEF KillScan, At, Held, Flows
<1>2. CASE Become(c, Returned(c)) /\ UNCHANGED <<proc, lock>>
  BY <1>1, <1>2, Entering, LocklessStep, ZenonT(60) DEF Become, IInv, TypeOK, ThreadsOK
<1>3. CASE q # NPROC /\ Become(c, [cpu[c] EXCEPT !.q = q + 1]) /\ UNCHANGED <<proc, lock>>
  <2> DEFINE f == [cpu[c] EXCEPT !.q = q + 1]
  <2>1. q + 1 \in 0 .. NPROC
    BY <1>1, <1>3, SizeAssumption
  <2>2. f \in Flows /\ f.pc = "kill_scan"
    BY ZenonT(60), SMTT(60), <1>1, <2>1, Running DEF Flows
  <2>3. Lockless(f)
    BY <2>2 DEF Lockless, FlowOK, Place, Held
  <2> QED
    BY <1>1, <1>3, <2>3, LocklessStep, ZenonT(60) DEF Become, IInv, TypeOK, ThreadsOK
<1>4. CASE /\ q # NPROC /\ Acquire(c, Addr(q)) /\ proc' = [proc EXCEPT ![q].killed = TRUE]
           /\ Goto(c, "kill_threads")
  <2> DEFINE f == [cpu[c] EXCEPT !.pc = "kill_threads"]
             r == [proc[q] EXCEPT !.killed = TRUE]
  <2>1. q \in Procs /\ "kill_threads" \in Labels /\ cpu' = [cpu EXCEPT ![c] = f]
    BY <1>1, <1>4, SizeAssumption, SMTT(60) DEF Procs, Labels, Goto, IInv, TypeOK
  <2>2. r \in ProcRecords /\ proc' = [proc EXCEPT ![q] = r]
    <3>1. proc[q] \in ProcRecords /\ proc' = [proc EXCEPT ![q] = r]
      BY <1>4, <2>1 DEF IInv, TypeOK
    <3> QED
      BY <3>1, ZenonT(60) DEF ProcRecords
  <2>3. proc' \in [Procs -> ProcRecords]
    BY <2>1, <2>2, ProcChange, ZenonT(60)
  <2>4. f \in Flows /\ f.pc = "kill_threads" /\ f.q = q
    BY ZenonT(60), SMTT(60), <2>1, Running DEF Flows
  <2>5. FlowOK(f) /\ Held(f) = {Addr(q)}
    BY <2>1, <2>4 DEF FlowOK, Place, Held
  <2>6. LockMove(c, f)
    BY <1>1, <1>4, <2>1, <2>5, Locks, LockTaken
  <2> QED
    BY <1>1, <2>1, <2>3, <2>4, <2>5, <2>6, Move, ZenonT(60) DEF IInv, TypeOK, ThreadsOK
<1> QED
  BY <1>2, <1>3, <1>4 DEF KillScan

\* kill() rouses the threads of its victim under its p->lock.
LEMMA KillThreadsStep ==
  ASSUME NEW c \in CPUs, IInv, KillThreads(c)
  PROVE  IInv'
<1> DEFINE q == cpu[c].q
           s == <<q, cpu[c].i>>
<1>1. cpu[c].pc = "kill_threads" /\ q \in Procs /\ Held(cpu[c]) = {Addr(q)} /\ UNCHANGED <<proc, nextpid>>
  BY Running DEF KillThreads, At, Held, FlowOK, Place
<1>2. CASE Release(Addr(q)) /\ Become(c, Returned(c)) /\ UNCHANGED kthread
  BY <1>1, <1>2, Entering, LockReleased, Stay, ZenonT(60) DEF Become, Lockless, tables
<1>3. CASE /\ cpu[c].i # NKT /\ Iterate(c) /\ lock' = lock
           /\ kthread' = [kthread EXCEPT ![s].t_state = Roused(@)]
  <2> DEFINE f == [cpu[c] EXCEPT !.i = @ + 1]
             r == [kthread[s] EXCEPT !.t_state = Roused(@)]
  <2>1. /\ f \in Flows /\ f.pc = "kill_threads" /\ f.q = q /\ cpu' = [cpu EXCEPT ![c] = f]
        /\ cpu[c].i \in 0 .. NKT - 1
    BY <1>1, <1>3, NextIndex
  <2>2. FlowOK(f) /\ Held(f) = {Addr(q)}
    BY <1>1, <2>1 DEF FlowOK, Place, Held
  <2>3. s \in Threads
    BY <1>1, <2>1 DEF Threads
  <2>4. kthread[s] \in ThreadRecords /\ ContextOK(s, kthread[s].context)
    BY <2>3 DEF IInv, ThreadsOK
  <2>5. r \in ThreadRecords /\ ContextOK(s, r.context)
    BY <2>4 DEF Roused, ThreadRecords
  <2>6. kthread' = [kthread EXCEPT ![s] = r]
    BY <1>3, <2>3 DEF IInv, TypeOK
  <2>7. ThreadsOK'
    BY <2>3, <2>5, <2>6, ThreadChange, ZenonT(60)
  <2>8. LockMove(c, f)
    BY <1>1, <1>3, <2>2, LockKept, ZenonT(60)
  <2> QED
    BY <1>1, <2>1, <2>2, <2>7, <2>8, Move, ZenonT(60) DEF IInv, TypeOK
<1> QED
  BY <1>2, <1>3 DEF KillThreads

-----------------------------------------------------------------------------
(* The invariant and what follows from it *)

\* The kernel boots with its locks free and init ready to run.
LEMMA InitOK == Init => IInv
<1> SUFFICES ASSUME Init PROVE IInv
  OBVIOUS
<1>1. <<initproc, 0>> \in Threads /\ initproc \in Procs
  BY SizeAssumption DEF Threads, Procs, initproc
<1>2. Scheduler(initproc) \in Flows /\ FlowOK(Scheduler(initproc)) /\ Scheduler(initproc).pc = "scheduler"
  BY <1>1, FreshOK DEF Scheduler, Labels
<1>3. cpu \in [CPUs -> Flows] /\ \A c \in CPUs : FlowOK(cpu[c]) /\ Held(cpu[c]) = {}
  BY <1>2, ZenonT(60) DEF Init, Held
<1>4. lock \in [Objects -> CPUs \cup {Nobody}] /\ LockDiscipline
  BY <1>3, CpuAssumption, ZenonT(60) DEF Init, LockDiscipline
<1>5. proc \in [Procs -> ProcRecords] /\ nextpid \in Nat
  <2>1. [FreeProc EXCEPT !.state = "USED", !.pid = 1, !.p_counter = 2] \in ProcRecords
    BY FreeRecords, ZenonT(60) DEF FreeProc, ProcRecords
  <2> QED
    BY <2>1, FreeRecords, ZenonT(60) DEF Init
<1>6. ThreadsOK
  <2> DEFINE s == <<initproc, 0>>
             g == Flow(s, "forkret")
             r == [FreeThread EXCEPT !.process = s[1], !.t_state = "RUNNABLE_t", !.tid = 1,
                                     !.context = g]
             f(u) == [FreeThread EXCEPT !.process = u[1]]
  <2>1. g \in Flows /\ FlowOK(g) /\ g.pc = "forkret" /\ g.kt = s
    BY <1>1, FreshOK DEF Labels, Flow
  <2>2. FreeThread \in ThreadRecords /\ \A u \in Threads : ContextOK(u, FreeThread.context)
    BY FreeRecords
  <2>3. r \in ThreadRecords /\ r.context = g
    <3>1. s[1] \in Procs
      BY <1>1 DEF Threads
    <3> HIDE DEF g
    <3> QED
      BY <2>1, <2>2, <3>1, ZenonT(60) DEF ThreadRecords
  <2>4. ContextOK(s, r.context)
    BY <2>1, <2>3 DEF ContextOK
  <2>5. kthread = [u \in Threads |-> IF u = s THEN r ELSE f(u)]
    BY ZenonT(60) DEF Init
  <2>6. ASSUME NEW u \in Threads PROVE f(u) \in ThreadRecords /\ ContextOK(u, f(u).context)
    <3>1. u[1] \in Procs
      BY DEF Threads
    <3>2. f(u) \in ThreadRecords /\ f(u).context = FreeThread.context
      BY <2>2, <3>1, ZenonT(60) DEF ThreadRecords
    <3> QED
      BY <2>2, <3>2
  <2> HIDE DEF r, g, f
  <2> QED
    BY <2>3, <2>4, <2>5, <2>6, ZenonT(60) DEF ThreadsOK
<1> QED
  BY <1>3, <1>4, <1>5, <1>6 DEF IInv, TypeOK, ThreadsOK

\* A step inside the kernel keeps the invariant.
LEMMA KernelStepOK ==
  ASSUME NEW c \in CPUs, IInv, KernelStep(c)
  PROVE  IInv'
<1>1. CASE \/ Sched(c) \/ Yield(c) \/ Yielded(c) \/ Forkret(c) \/ ZombieExit(c)
           \/ Sleep(c) \/ Woken(c) \/ Relock(c) \/ Wakeup(c)
  BY <1>1, SchedStep, YieldStep, YieldedStep, ForkretStep, ZombieExitStep,
     SleepStep, WokenStep, RelockStep, WakeupStep
<1>2. CASE \/ CheckKilled(c) \/ CheckTkilled(c) \/ ForkScan(c) \/ ForkFound(c) \/ ForkThread(c)
           \/ ForkCopy(c) \/ ForkParent(c) \/ ForkRun(c) \/ Freeproc(c)
  BY <1>2, CheckStep, ForkScanStep, ForkFoundStep, ForkThreadStep, ForkCopyStep,
     ForkParentStep, ForkRunStep, FreeprocStep
<1>3. CASE \/ ReapScan(c) \/ ExitWait(c) \/ Reparent(c) \/ ExitZombie(c) \/ ExitThreads(c)
           \/ ExitUnlock(c) \/ Wait(c) \/ WaitScan(c) \/ WaitFound(c) \/ WaitNone(c)
  BY <1>3, ReapScanStep, WaitLockTaken, ReparentStep, ExitZombieStep, ExitThreadsStep,
     ExitUnlockStep, WaitScanStep, WaitFoundStep, WaitNoneStep
<1>4. CASE \/ CreateScan(c) \/ CreateRet(c) \/ KexitLast(c) \/ KexitZombie(c)
           \/ KexitPlock(c) \/ KexitUnlock(c) \/ KexitRelock(c)
  BY <1>4, CreateScanStep, CreateRetStep, KexitLastStep, KexitZombieStep,
     KexitPlockStep, KexitUnlockStep, KexitRelockStep
<1>5. CASE \/ JoinScan(c) \/ JoinPlock(c) \/ JoinCheck(c) \/ JoinFree(c)
           \/ KkillScan(c) \/ KillScan(c) \/ KillThreads(c)
  BY <1>5, JoinScanStep, JoinPlockStep, JoinCheckStep, JoinFreeStep,
     KkillScanStep, KillScanStep, KillThreadsStep
<1> QED
  BY <1>1, <1>2, <1>3, <1>4, <1>5 DEF KernelStep

\* Every step of every CPU keeps the invariant, and so does stuttering.
LEMMA NextOK == IInv /\ [Next]_vars => IInv'
<1> SUFFICES ASSUME IInv, [Next]_vars PROVE IInv'
  OBVIOUS
<1>1. CASE UNCHANGED vars
  <2>1. TypeOK' /\ LockDiscipline'
    BY <1>1 DEF vars, IInv, TypeOK, LockDiscipline, At
  <2>2. ThreadsOK' /\ (\A c \in CPUs : FlowOK(cpu[c]))'
    BY <1>1 DEF vars, IInv, ThreadsOK
  <2> QED
    BY <2>1, <2>2 DEF IInv
<1>2. ASSUME NEW c \in CPUs, NEW p \in Procs, SchedRow(c, p) PROVE IInv'
  BY <1>2, SchedRowStep
<1>3. ASSUME NEW c \in CPUs, NEW i \in 0 .. NKT - 1, SchedRun(c, i) PROVE IInv'
  BY <1>3, SchedRunStep
<1>4. ASSUME NEW c \in CPUs, Ecall(c) \/ UserTick(c) \/ UserFault(c) \/ KernelTick(c) \/ Syscall(c)
      PROVE  IInv'
  BY <1>4, TrapStep, KernelTickStep, SyscallStep
<1>5. ASSUME NEW c \in CPUs, KernelStep(c) PROVE IInv'
  BY <1>5, KernelStepOK
<1> QED
  BY <1>1, <1>2, <1>3, <1>4, <1>5 DEF Next

\* Whatever the threads of all processes do, on any number of CPUs, every table
\* of proc.c and kthread.c keeps its type.
THEOREM TypeCorrect == Spec => []TypeOK
<1>1. IInv => TypeOK
  BY DEF IInv
<1> QED
  BY <1>1, InitOK, NextOK, PTL DEF Spec

\* Every acquire() is matched by one release() on every path through proc.c,
\* kthread.c and trap.c, error paths and swtch() included: a CPU that has not
\* panicked holds exactly the spinlocks of its place in the code.
THEOREM LocksDisciplined == Spec => []LockDiscipline
<1>1. IInv => LockDiscipline
  BY DEF IInv
<1> QED
  BY <1>1, InitOK, NextOK, PTL DEF Spec

\* The scheduler and user code run with no spinlock of these tables held.
THEOREM NoLockLeaks ==
  Spec => [](\A c \in CPUs : cpu[c].pc \in {"scheduler", "user"} => \A l \in Objects : lock[l] # c)
<1>1. IInv => \A c \in CPUs : cpu[c].pc \in {"scheduler", "user"} => \A l \in Objects : lock[l] # c
  <2> SUFFICES ASSUME IInv, NEW c \in CPUs, cpu[c].pc \in {"scheduler", "user"}
               PROVE  \A l \in Objects : lock[l] # c
    OBVIOUS
  <2>1. {l \in Objects : lock[l] = c} = Held(cpu[c])
    BY DEF IInv, LockDiscipline, At
  <2>2. Held(cpu[c]) = {}
    BY DEF Held
  <2> QED
    BY <2>1, <2>2
<1> QED
  BY <1>1, InitOK, NextOK, PTL DEF Spec
=============================================================================
