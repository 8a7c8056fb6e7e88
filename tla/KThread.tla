------------------------------ MODULE KThread ------------------------------
(***************************************************************************)
(* Processes and their kernel threads: kernel/proc.c, kernel/kthread.c and *)
(* the parts of kernel/trap.c, kernel/exec.c and kernel/sysproc.c that     *)
(* change a thread's or a process's state.                                 *)
(*                                                                         *)
(* The actors are the CPUs.  cpu[c] is what CPU c executes: the scheduler, *)
(* user code, or the kernel code of the thread cpu[c].kt, stopped at the   *)
(* label cpu[c].pc.  A step runs from one lock operation to the next; what *)
(* a CPU does between an acquire and the matching release is one step when *)
(* it takes no other lock in between.  swtch() moves cpu[c] to and from    *)
(* kthread[s].context, so a kernel stack resumed by the wrong thread, or   *)
(* by two CPUs, is a state of the model.                                   *)
(***************************************************************************)
EXTENDS Integers, FiniteSets

CONSTANTS
  NPROC,      \* size of the process table
  NKT,        \* kernel threads per process
  CPUs,
  Nobody,     \* the owner of a free spinlock
  MaxPid,     \* bound on the pids handed out
  MaxTid,     \* bound on the tids handed out in one process
  Calls,      \* the system calls and interrupts of the processes but init
  InitCalls,  \* the same for init
  PidArgs,    \* arguments user code passes to kill()
  TidArgs,    \* arguments user code passes to kthread_join() / kthread_kill()
  AllocFails  \* whether kalloc() may fail in fork()

AllCalls == {"fork", "exit", "wait", "kill", "exec", "create", "kexit",
             "join", "kkill", "tick", "ktick", "fault"}

ASSUME SizeAssumption == NPROC \in Nat \ {0} /\ NKT \in Nat \ {0}
ASSUME CpuAssumption == Nobody \notin CPUs
ASSUME BoundAssumption == MaxPid \in Nat /\ MaxTid \in Nat
ASSUME CallAssumption ==
  /\ Calls \subseteq AllCalls
  /\ InitCalls \subseteq AllCalls
  /\ PidArgs \subseteq Nat
  /\ TidArgs \subseteq Nat
  /\ AllocFails \in BOOLEAN

VARIABLES
  proc,     \* the process table
  kthread,  \* the kernel threads of every process
  nextpid,
  cpu,      \* what each CPU executes
  lock      \* the CPU that holds each spinlock, or Nobody

tables == <<proc, kthread, nextpid>>
vars == <<proc, kthread, nextpid, cpu, lock>>

Procs == 0 .. NPROC - 1
initproc == 0
NoProc == -1

\* Kernel objects: thread <<p, i>> is slot i of process <<p>>.  An object names
\* its spinlock and is a channel of sleep(); <<>> is wait_lock, and no channel.
Threads == Procs \X (0 .. NKT - 1)
wait_lock == <<>>
null == <<>>
Addr(p) == IF p = NoProc THEN null ELSE <<p>>
Objects == {null} \cup {Addr(p) : p \in Procs} \cup Threads

\* A thread of control: its thread, its place in the code, and its locals.
Flow(s, l) ==
  [kt |-> s, pc |-> l, ret |-> "user", ch |-> null, i |-> 0, q |-> 0, t |-> null,
   arg |-> 0, from |-> "sys", after |-> "user"]

\* A CPU in scheduler(), scanning the threads of process p.
Scheduler(p) == Flow(<<p, 0>>, "scheduler")

me(c) == cpu[c].kt
myproc(c) == cpu[c].kt[1]
At(c, l) == cpu[c].pc = l
Sibling(c, i) == <<myproc(c), i>>
OnCpu(c, s) == ~At(c, "scheduler") /\ me(c) = s
Live(s) == kthread[s].t_state \notin {"UNUSED_t", "ZOMBIE_t"}

Become(c, f) == cpu' = [cpu EXCEPT ![c] = f]
Goto(c, l) == cpu' = [cpu EXCEPT ![c].pc = l]
Iterate(c) == cpu' = [cpu EXCEPT ![c].i = @ + 1]
Panic(c, msg) == [cpu[c] EXCEPT !.pc = "panic", !.ret = msg]

\* acquire() and release().  A step that takes and releases a lock has only
\* the guard Free(l).
Free(l) == lock[l] = Nobody
Acquire(c, l) == Free(l) /\ lock' = [lock EXCEPT ![l] = c]
Release(l) == lock' = [lock EXCEPT ![l] = Nobody]

\* freethread() clears process and trapframe, allockthread() sets them: a flow
\* that reads them on a slot that was freed under it faults in the kernel.
Freed(c) == kthread[me(c)].process = NoProc
Deref(c, f) == IF Freed(c) THEN Panic(c, "kerneltrap") ELSE f

\* The flow of a thread that enters exit() or kthread_exit(), or whose system
\* call returns into the second half of usertrap().
EnterExit(c) ==
  Deref(c, IF myproc(c) = initproc THEN Panic(c, "init exiting")
            ELSE [Flow(me(c), "reap_scan") EXCEPT !.from = "exit"])
EnterKexit(c) == Deref(c, Flow(me(c), "kexit_last"))
Returned(c) == Flow(me(c), "ret_killed")

-----------------------------------------------------------------------------
\* Boot: kthreadinit() has run, userinit() has made the first process runnable.
FreeThread ==
  [t_state |-> "UNUSED_t", process |-> NoProc, chan |-> null, t_killed |-> FALSE, tid |-> 0,
   context |-> Flow(<<0, 0>>, "none")]
FreeProc ==
  [state |-> "UNUSED", killed |-> FALSE, pid |-> 0, parent |-> NoProc, p_counter |-> 0]

Init ==
  /\ proc = [p \in Procs |->
       IF p = initproc THEN [FreeProc EXCEPT !.state = "USED", !.pid = 1, !.p_counter = 2]
       ELSE FreeProc]
  /\ kthread = [s \in Threads |->
       IF s = <<initproc, 0>>
       THEN [FreeThread EXCEPT !.process = s[1], !.t_state = "RUNNABLE_t", !.tid = 1,
                               !.context = Flow(s, "forkret")]
       ELSE [FreeThread EXCEPT !.process = s[1]]]
  /\ nextpid = 2
  /\ cpu = [c \in CPUs |-> Scheduler(initproc)]
  /\ lock = [l \in Objects |-> Nobody]

-----------------------------------------------------------------------------
(* scheduler(), sched(), yield(), forkret(), sleep(), wakeup() *)

\* The unlocked test of p->state that opens a row of the scan.
SchedRow(c, p) ==
  /\ At(c, "scheduler") /\ proc[p].state = "USED"
  /\ Become(c, Scheduler(p))
  /\ UNCHANGED <<tables, lock>>

\* A RUNNABLE thread of the row is taken; its t_lock stays held across swtch().
\* The context of a freed slot returns to address 0.
SchedRun(c, i) ==
  LET s == Sibling(c, i) IN
  /\ At(c, "scheduler") /\ kthread[s].t_state = "RUNNABLE_t"
  /\ Acquire(c, s)
  /\ kthread' = [kthread EXCEPT ![s].t_state = "RUNNING_t"]
  /\ Become(c, IF kthread[s].context.pc = "none"
               THEN [Flow(s, "panic") EXCEPT !.ret = "kerneltrap"] ELSE kthread[s].context)
  /\ UNCHANGED <<proc, nextpid>>

ResumeAt == [sleep_sched |-> "woken", yield_sched |-> "yielded", exit_sched |-> "zombie"]

\* The check of sched() that fails first, if any; noff counts the locks held.
SchedCheck(c) ==
  IF lock[me(c)] # c THEN "sched p->lock"
  ELSE IF \E l \in Objects \ {me(c)} : lock[l] = c THEN "sched locks"
  ELSE IF kthread[me(c)].t_state = "RUNNING_t" THEN "sched running"
  ELSE "ok"

\* sched(): its checks, then swtch() to the scheduler, which releases t_lock.
Sched(c) ==
  /\ cpu[c].pc \in DOMAIN ResumeAt
  /\ IF SchedCheck(c) # "ok"
     THEN Become(c, Panic(c, SchedCheck(c))) /\ UNCHANGED <<kthread, lock>>
     ELSE /\ kthread' = [kthread EXCEPT
               ![me(c)].context = [cpu[c] EXCEPT !.pc = ResumeAt[cpu[c].pc]]]
          /\ Release(me(c))
          /\ Become(c, Scheduler(myproc(c)))
  /\ UNCHANGED <<proc, nextpid>>

\* yield() works on kthread[0] of the process, whichever thread calls it.
Yield(c) ==
  /\ At(c, "yield")
  /\ IF Freed(c) THEN Become(c, Panic(c, "kerneltrap")) /\ UNCHANGED <<kthread, lock>>
     ELSE /\ Acquire(c, Sibling(c, 0))
          /\ kthread' = [kthread EXCEPT ![Sibling(c, 0)].t_state = "RUNNABLE_t"]
          /\ Goto(c, "yield_sched")
  /\ UNCHANGED <<proc, nextpid>>

Yielded(c) ==
  /\ At(c, "yielded")
  /\ Release(Sibling(c, 0))
  /\ Become(c, [cpu[c] EXCEPT !.pc = cpu[c].after, !.after = "user"])
  /\ UNCHANGED tables

Forkret(c) ==
  At(c, "forkret") /\ Release(me(c)) /\ Goto(c, "user") /\ UNCHANGED tables

\* exit() and kthread_exit() must never come back from sched().
ZombieExit(c) ==
  At(c, "zombie") /\ Become(c, Panic(c, "zombie exit")) /\ UNCHANGED <<tables, lock>>

\* The second argument of the two calls of sleep(), in wait() and kthread_join().
SleepLock(c) == IF cpu[c].ret = "wait_scan" THEN wait_lock ELSE Addr(myproc(c))

\* sleep(ch, lk): own t_lock is taken before lk is released.
Sleep(c) ==
  /\ At(c, "sleep") /\ Free(me(c))
  /\ lock' = [lock EXCEPT ![me(c)] = c, ![SleepLock(c)] = Nobody]
  /\ kthread' = [kthread EXCEPT ![me(c)].chan = cpu[c].ch, ![me(c)].t_state = "SLEEPING_t"]
  /\ Goto(c, "sleep_sched")
  /\ UNCHANGED <<proc, nextpid>>

Woken(c) ==
  /\ At(c, "woken")
  /\ kthread' = [kthread EXCEPT ![me(c)].chan = null]
  /\ Release(me(c))
  /\ Goto(c, "relock")
  /\ UNCHANGED <<proc, nextpid>>

Relock(c) ==
  At(c, "relock") /\ Acquire(c, SleepLock(c)) /\ Goto(c, cpu[c].ret) /\ UNCHANGED tables

IsSleepingOn(s, ch) == kthread[s].t_state = "SLEEPING_t" /\ kthread[s].chan = ch

\* Seeded fault: the caller's own address as the channel.
WakingOwn(c, ch, l) == [Flow(me(c), "wakeup") EXCEPT !.ch = Addr(myproc(c)), !.ret = l]

\* A flow about to run wakeup(ch) and to go on at l.
Waking(c, ch, l) == [Flow(me(c), "wakeup") EXCEPT !.ch = ch, !.ret = l]

\* One iteration of wakeup(ch) at thread <<q, i>>; the scan skips the caller.
Wakeup(c) ==
  LET s == <<cpu[c].q, cpu[c].i>> IN
  /\ At(c, "wakeup")
  /\ IF cpu[c].q = NPROC
     THEN Become(c, Flow(me(c), cpu[c].ret)) /\ UNCHANGED kthread
     ELSE /\ s # me(c) => Free(s)
          /\ kthread' = IF s # me(c) /\ IsSleepingOn(s, cpu[c].ch)
                        THEN [kthread EXCEPT ![s].t_state = "RUNNABLE_t"] ELSE kthread
          /\ IF cpu[c].i + 1 < NKT THEN Iterate(c)
             ELSE Become(c, [cpu[c] EXCEPT !.i = 0, !.q = @ + 1])
  /\ UNCHANGED <<proc, nextpid, lock>>

-----------------------------------------------------------------------------
(* trap.c: entering the kernel and leaving it *)

CallsOf(p) == IF p = initproc THEN InitCalls ELSE Calls

\* ecall, timer interrupt, and any other exception, which calls setkilled().
Ecall(c) ==
  /\ At(c, "user") /\ CallsOf(myproc(c)) \ {"tick", "ktick", "fault"} # {}
  /\ Become(c, Deref(c, Flow(me(c), "sys_killed")))
  /\ UNCHANGED <<tables, lock>>

UserTick(c) ==
  /\ At(c, "user") /\ "tick" \in CallsOf(myproc(c))
  /\ Become(c, Deref(c, [Returned(c) EXCEPT !.from = "tick"]))
  /\ UNCHANGED <<tables, lock>>

UserFault(c) ==
  /\ At(c, "user") /\ "fault" \in CallsOf(myproc(c))
  /\ Free(Addr(myproc(c)))
  /\ proc' = IF Freed(c) THEN proc ELSE [proc EXCEPT ![myproc(c)].killed = TRUE]
  /\ Become(c, Deref(c, Returned(c)))
  /\ UNCHANGED <<kthread, nextpid, lock>>

\* killed(p) before a system call and on the way back to user mode.
CheckKilled(c) ==
  /\ cpu[c].pc \in {"sys_killed", "ret_killed"}
  /\ Free(Addr(myproc(c)))
  /\ IF proc[myproc(c)].killed THEN Become(c, EnterExit(c))
     ELSE Goto(c, IF At(c, "sys_killed") THEN "sys_tkilled" ELSE "ret_tkilled")
  /\ UNCHANGED <<tables, lock>>

\* t_killed(kt) at the same two places; the timer's yield() comes after it.
CheckTkilled(c) ==
  /\ cpu[c].pc \in {"sys_tkilled", "ret_tkilled"}
  /\ Free(me(c))
  /\ IF kthread[me(c)].t_killed THEN Become(c, EnterKexit(c))
     ELSE IF At(c, "sys_tkilled") THEN Goto(c, "syscall")
     ELSE Become(c, Deref(c, Flow(me(c), IF cpu[c].from = "tick" THEN "yield" ELSE "user")))
  /\ UNCHANGED <<tables, lock>>

\* The handler of each system call, with the argument user code passes.
Handler(c, call, arg) ==
  CASE call = "exit"   -> EnterExit(c)
    [] call = "kexit"  -> EnterKexit(c)
    [] call = "fork"   -> Flow(me(c), "fork_scan")
    [] call = "wait"   -> Flow(me(c), "wait")
    [] call = "exec"   -> [Flow(me(c), "reap_scan") EXCEPT !.from = "exec"]
    [] call = "create" -> Flow(me(c), "create_scan")
    [] call = "kill"   -> [Flow(me(c), "kill_scan") EXCEPT !.arg = arg]
    [] call = "kkill"  -> [Flow(me(c), "kkill_scan") EXCEPT !.arg = arg]
    [] call = "join"   -> [Flow(me(c), "join_scan") EXCEPT !.arg = arg]

Args(call) ==
  CASE call = "kill" -> PidArgs [] call \in {"kkill", "join"} -> TidArgs [] OTHER -> {0}

\* syscall(); the counters of pids and tids are bounded here.
Dispatch(c, call, arg) ==
  /\ At(c, "syscall")
  /\ call = "fork" => nextpid <= MaxPid
  /\ call = "create" => proc[myproc(c)].p_counter <= MaxTid
  /\ Become(c, Deref(c, Handler(c, call, arg)))
  /\ UNCHANGED <<tables, lock>>

\* Kernel code that holds no lock and runs with interrupts on.
Interruptible ==
  {"syscall", "ret_killed", "ret_tkilled", "fork_scan", "fork_parent", "fork_run",
   "reap_scan", "exit_wait", "wait", "create_scan", "create_ret", "kexit_last",
   "kexit_zombie", "kexit_plock", "kexit_relock", "join_scan", "join_plock",
   "kkill_scan", "kill_scan", "relock"}

\* A timer interrupt in the kernel: kerneltrap() looks at kthread[0] only.  Traps
\* other than system calls, and exit() of a killed process, pass some of these
\* places with interrupts off: there the model allows more than the machine.
KernelTick(c) ==
  /\ "ktick" \in CallsOf(myproc(c)) /\ cpu[c].pc \in Interruptible /\ ~Freed(c)
  /\ kthread[Sibling(c, 0)].t_state = "RUNNING_t"
  /\ Become(c, [cpu[c] EXCEPT !.pc = "yield", !.after = cpu[c].pc])
  /\ UNCHANGED <<tables, lock>>

-----------------------------------------------------------------------------
(* fork(), allocproc(), allockthread(), freeproc() *)

ForkScan(c) ==
  LET q == cpu[c].q IN
  /\ At(c, "fork_scan")
  /\ IF q = NPROC THEN Become(c, Returned(c)) /\ UNCHANGED lock
     ELSE IF proc[q].state = "UNUSED" THEN Acquire(c, Addr(q)) /\ Goto(c, "fork_found")
     ELSE Free(Addr(q)) /\ Become(c, [cpu[c] EXCEPT !.q = q + 1]) /\ UNCHANGED lock
  /\ UNCHANGED tables

\* freeproc(np) on an error path of fork().
ForkFails(c) == [cpu[c] EXCEPT !.pc = "freeproc", !.ret = "fork", !.i = 0]

\* allocproc() after found: pid and state are set, then the trapframe page.
ForkFound(c) ==
  LET q == cpu[c].q IN
  /\ At(c, "fork_found")
  /\ proc' = [proc EXCEPT ![q].p_counter = 1, ![q].pid = nextpid, ![q].state = "USED"]
  /\ nextpid' = nextpid + 1
  /\ Goto(c, "fork_thread") \/ (AllocFails /\ Become(c, ForkFails(c)))
  /\ UNCHANGED <<kthread, lock>>

\* What allockthread(p) makes of slot s: t_killed keeps its old value.
Allocated(s, st) ==
  [kthread[s] EXCEPT !.tid = proc[s[1]].p_counter, !.t_state = st, !.process = s[1],
                     !.context = Flow(s, "forkret")]

\* allockthread(np); were every slot taken, new_t would be a null pointer.
ForkThread(c) ==
  LET s == <<cpu[c].q, cpu[c].i>> IN
  /\ At(c, "fork_thread")
  /\ IF cpu[c].i = NKT
     THEN Become(c, Panic(c, "kerneltrap")) /\ UNCHANGED <<proc, kthread, lock>>
     ELSE IF kthread[s].t_state = "UNUSED_t"
     THEN /\ Acquire(c, s)
          /\ kthread' = [kthread EXCEPT ![s] = Allocated(s, "USED_t")]
          /\ proc' = [proc EXCEPT ![s[1]].p_counter = @ + 1]
          /\ Become(c, [cpu[c] EXCEPT !.pc = "fork_copy", !.t = s])
     ELSE Free(s) /\ Iterate(c) /\ UNCHANGED <<proc, kthread, lock>>
  /\ UNCHANGED nextpid

\* proc_pagetable() fails: the new thread's t_lock is released before freeproc().
NoPagetable(c) == Release(cpu[c].t) /\ Become(c, [ForkFails(c) EXCEPT !.t = null])

\* proc_pagetable() and uvmcopy(); when the second fails the t_lock is not
\* released.  On success fork() releases p->lock and the t_lock of kthread[0].
ForkCopy(c) ==
  LET q == cpu[c].q
      s == cpu[c].t
  IN
  /\ At(c, "fork_copy")
  /\ \/ AllocFails /\ NoPagetable(c)
     \/ AllocFails /\ UNCHANGED lock /\ Become(c, ForkFails(c))
     \/ IF s = <<q, 0>>
        THEN /\ lock' = [lock EXCEPT ![s] = Nobody, ![Addr(q)] = Nobody]
             /\ Become(c, [cpu[c] EXCEPT !.pc = "fork_parent", !.t = null])
        ELSE Become(c, Panic(c, "release")) /\ UNCHANGED lock
  /\ UNCHANGED tables

ForkParent(c) ==
  /\ At(c, "fork_parent") /\ Free(wait_lock)
  /\ proc' = [proc EXCEPT ![cpu[c].q].parent = myproc(c)]
  /\ Goto(c, "fork_run")
  /\ UNCHANGED <<kthread, nextpid, lock>>

ForkRun(c) ==
  LET s == <<cpu[c].q, 0>> IN
  /\ At(c, "fork_run") /\ Free(s)
  /\ kthread' = [kthread EXCEPT ![s].t_state = "RUNNABLE_t"]
  /\ Become(c, Returned(c))
  /\ UNCHANGED <<proc, nextpid, lock>>

\* freeproc(): every thread slot under its t_lock, then the process; its caller
\* releases p->lock and, in wait(), wait_lock.
Freeproc(c) ==
  LET q == cpu[c].q
      s == <<q, cpu[c].i>>
  IN
  /\ At(c, "freeproc")
  /\ IF cpu[c].i = NKT
     THEN /\ proc' = [proc EXCEPT ![q] = FreeProc]
          /\ lock' = [lock EXCEPT ![Addr(q)] = Nobody,
                                  ![wait_lock] = IF cpu[c].ret = "wait" THEN Nobody ELSE @]
          /\ Become(c, Returned(c))
          /\ UNCHANGED kthread
     ELSE /\ IF lock[s] = c THEN Become(c, Panic(c, "acquire")) /\ UNCHANGED kthread
             ELSE Free(s) /\ Iterate(c) /\ kthread' = [kthread EXCEPT ![s] = FreeThread]
          /\ UNCHANGED <<proc, lock>>
  /\ UNCHANGED nextpid

-----------------------------------------------------------------------------
(* exit() and the loop it shares with exec(), reparent(), wait() *)

\* exit() and exec() visit the siblings; a live one is marked killed, and then
\* the caller joins kt->tid, its own tid.
ReapScan(c) ==
  LET i == cpu[c].i
      s == Sibling(c, i)
  IN
  /\ At(c, "reap_scan")
  /\ IF i = NKT
     THEN /\ Become(c, IF cpu[c].from = "exec" THEN Returned(c) ELSE Flow(me(c), "exit_wait"))
          /\ UNCHANGED kthread
     ELSE IF s # me(c) /\ Live(s)
     THEN /\ Free(s)
          /\ kthread' = [kthread EXCEPT ![s].t_killed = TRUE]
          /\ Become(c, [cpu[c] EXCEPT !.pc = "join_scan", !.i = 0, !.arg = kthread[me(c)].tid])
     ELSE (s # me(c) => Free(s)) /\ Iterate(c) /\ UNCHANGED kthread
  /\ UNCHANGED <<proc, nextpid, lock>>

ExitWait(c) ==
  At(c, "exit_wait") /\ Acquire(c, wait_lock) /\ Goto(c, "reparent") /\ UNCHANGED tables

Children(p) == {pp \in Procs : proc[pp].parent = p}
IsFirst(x, S) == x \in S /\ \A y \in S : x <= y

\* Seeded fault: exit() does not call reparent().
ReparentNobody(c) ==
  /\ At(c, "reparent")
  /\ Become(c, Waking(c, Addr(proc[myproc(c)].parent), "exit_zombie"))
  /\ UNCHANGED <<tables, lock>>

\* reparent() gives each child to init and wakes init; then the parent is woken.
Reparent(c) ==
  LET p == myproc(c) IN
  /\ At(c, "reparent")
  /\ \/ /\ Children(p) = {}
        /\ Become(c, Waking(c, Addr(proc[p].parent), "exit_zombie"))
        /\ UNCHANGED proc
     \/ \E pp \in Children(p) :
          /\ IsFirst(pp, Children(p))
          /\ proc' = [proc EXCEPT ![pp].parent = initproc]
          /\ Become(c, Waking(c, Addr(initproc), "reparent"))
  /\ UNCHANGED <<kthread, nextpid, lock>>

\* Seeded fault: exit() does not set p->state.
ExitStaysUsed(c) ==
  /\ At(c, "exit_zombie") /\ Free(Addr(myproc(c)))
  /\ Goto(c, "exit_threads")
  /\ UNCHANGED <<tables, lock>>

ExitZombie(c) ==
  /\ At(c, "exit_zombie") /\ Free(Addr(myproc(c)))
  /\ proc' = [proc EXCEPT ![myproc(c)].state = "ZOMBIE"]
  /\ Goto(c, "exit_threads")
  /\ UNCHANGED <<kthread, nextpid, lock>>

\* Every slot of the process becomes ZOMBIE_t; the caller keeps its own t_lock.
ExitThreads(c) ==
  LET s == Sibling(c, cpu[c].i) IN
  /\ At(c, "exit_threads")
  /\ IF cpu[c].i = NKT THEN Goto(c, "exit_unlock") /\ UNCHANGED <<kthread, lock>>
     ELSE /\ kthread' = [kthread EXCEPT ![s].t_state = "ZOMBIE_t"]
          /\ IF s = me(c) THEN Acquire(c, s) ELSE Free(s) /\ UNCHANGED lock
          /\ Iterate(c)
  /\ UNCHANGED <<proc, nextpid>>

\* Seeded fault: exit() goes to sched() with wait_lock held.
ExitKeepsWaitLock(c) ==
  At(c, "exit_unlock") /\ Become(c, Flow(me(c), "exit_sched")) /\ UNCHANGED <<tables, lock>>

ExitUnlock(c) ==
  /\ At(c, "exit_unlock") /\ Release(wait_lock)
  /\ Become(c, Flow(me(c), "exit_sched"))
  /\ UNCHANGED tables

Wait(c) == At(c, "wait") /\ Acquire(c, wait_lock) /\ Goto(c, "wait_scan") /\ UNCHANGED tables

\* The scan of wait() from index q on: the next child under its p->lock, or
\* the end of the table.
WaitScan(c) ==
  LET rest == {pp \in Children(myproc(c)) : pp >= cpu[c].q} IN
  /\ At(c, "wait_scan")
  /\ \/ rest = {} /\ Goto(c, "wait_none") /\ UNCHANGED lock
     \/ \E pp \in rest :
          /\ IsFirst(pp, rest)
          /\ IF proc[pp].state = "ZOMBIE"
             THEN Acquire(c, Addr(pp)) /\ Become(c, [cpu[c] EXCEPT !.pc = "wait_found", !.q = pp])
             ELSE Free(Addr(pp)) /\ Become(c, [cpu[c] EXCEPT !.q = pp + 1]) /\ UNCHANGED lock
  /\ UNCHANGED tables

\* copyout() of the exit status, which may fail, then freeproc().  init passes a
\* null address, and no copyout() is made.
WaitFound(c) ==
  /\ At(c, "wait_found")
  /\ \/ /\ myproc(c) # initproc
        /\ lock' = [lock EXCEPT ![Addr(cpu[c].q)] = Nobody, ![wait_lock] = Nobody]
        /\ Become(c, Returned(c))
     \/ Become(c, [cpu[c] EXCEPT !.pc = "freeproc", !.ret = "wait"]) /\ UNCHANGED lock
  /\ UNCHANGED tables

\* No zombie: without children, or killed, wait() fails; otherwise it sleeps.
WaitNone(c) ==
  LET p == myproc(c) IN
  /\ At(c, "wait_none")
  /\ Children(p) # {} => Free(Addr(p))
  /\ IF Children(p) = {} \/ proc[p].killed
     THEN Release(wait_lock) /\ Become(c, Returned(c))
     ELSE /\ Become(c, [Flow(me(c), "sleep") EXCEPT !.ch = Addr(p), !.ret = "wait_scan"])
          /\ UNCHANGED lock
  /\ UNCHANGED tables

-----------------------------------------------------------------------------
(* kthread_create(), kthread_exit(), kthread_join(), kthread_kill(), kill() *)

\* Seeded fault: alloctid() does not advance p_counter.
CreateScanReusesTid(c) ==
  LET s == Sibling(c, cpu[c].i) IN
  /\ At(c, "create_scan")
  /\ IF cpu[c].i = NKT THEN Become(c, Returned(c)) /\ UNCHANGED kthread
     ELSE /\ Free(s)
          /\ IF kthread[s].t_state = "UNUSED_t"
             THEN /\ kthread' = [kthread EXCEPT ![s] = Allocated(s, "RUNNABLE_t")]
                  /\ Become(c, [Flow(me(c), "create_ret") EXCEPT
                                  !.t = s, !.arg = proc[s[1]].p_counter])
             ELSE Iterate(c) /\ UNCHANGED kthread
  /\ UNCHANGED <<proc, nextpid, lock>>

CreateScan(c) ==
  LET s == Sibling(c, cpu[c].i) IN
  /\ At(c, "create_scan")
  /\ IF cpu[c].i = NKT THEN Become(c, Returned(c)) /\ UNCHANGED <<proc, kthread>>
     ELSE /\ Free(s)
          /\ IF kthread[s].t_state = "UNUSED_t"
             THEN /\ kthread' = [kthread EXCEPT ![s] = Allocated(s, "RUNNABLE_t")]
                  /\ proc' = [proc EXCEPT ![s[1]].p_counter = @ + 1]
                  /\ Become(c, [Flow(me(c), "create_ret") EXCEPT
                                  !.t = s, !.arg = proc[s[1]].p_counter])
             ELSE Iterate(c) /\ UNCHANGED <<proc, kthread>>
  /\ UNCHANGED <<nextpid, lock>>

\* kthread_create() reads t->tid for its result after it released t_lock.
CreateRet(c) == At(c, "create_ret") /\ Become(c, Returned(c)) /\ UNCHANGED <<tables, lock>>

\* if_last_thread(): one sibling at a time, each under its own t_lock.
KexitLast(c) ==
  LET s == Sibling(c, cpu[c].i) IN
  /\ At(c, "kexit_last")
  /\ IF cpu[c].i = NKT THEN Become(c, EnterExit(c))
     ELSE /\ s # me(c) => Free(s)
          /\ IF s # me(c) /\ Live(s) THEN Goto(c, "kexit_zombie") ELSE Iterate(c)
  /\ UNCHANGED <<tables, lock>>

KexitZombie(c) ==
  /\ At(c, "kexit_zombie") /\ Free(me(c))
  /\ kthread' = [kthread EXCEPT ![me(c)].t_state = "ZOMBIE_t"]
  /\ Goto(c, "kexit_plock")
  /\ UNCHANGED <<proc, nextpid, lock>>

\* Seeded fault: kthread_exit() does not wake its joiners.
KexitWakesNobody(c) ==
  /\ At(c, "kexit_plock") /\ Acquire(c, Addr(myproc(c)))
  /\ Become(c, Flow(me(c), "kexit_unlock"))
  /\ UNCHANGED tables

KexitPlock(c) ==
  /\ At(c, "kexit_plock") /\ Acquire(c, Addr(myproc(c)))
  /\ Become(c, Waking(c, me(c), "kexit_unlock"))
  /\ UNCHANGED tables

KexitUnlock(c) ==
  /\ At(c, "kexit_unlock") /\ Release(Addr(myproc(c)))
  /\ Goto(c, "kexit_relock")
  /\ UNCHANGED tables

KexitRelock(c) ==
  At(c, "kexit_relock") /\ Acquire(c, me(c)) /\ Goto(c, "exit_sched") /\ UNCHANGED tables

\* kthread_join() returns: to user code, or into the loop of exit() and exec(),
\* which then releases a t_lock it does not hold.
JoinReturn(c) == IF cpu[c].from = "sys" THEN Returned(c) ELSE Panic(c, "release")

JoinScan(c) ==
  LET s == Sibling(c, cpu[c].i) IN
  /\ At(c, "join_scan")
  /\ IF cpu[c].i = NKT
     THEN Become(c, IF cpu[c].t = null THEN JoinReturn(c)
                    ELSE [cpu[c] EXCEPT !.pc = "join_plock", !.i = 0, !.arg = 0])
     ELSE /\ Free(s)
          /\ Become(c, [cpu[c] EXCEPT !.i = @ + 1,
                          !.t = IF kthread[s].tid = cpu[c].arg THEN s ELSE @])
  /\ UNCHANGED <<tables, lock>>

JoinPlock(c) ==
  /\ At(c, "join_plock") /\ Acquire(c, Addr(myproc(c)))
  /\ Goto(c, "join_check")
  /\ UNCHANGED tables

\* t_by_ktid->t_state is read under p->lock but without its t_lock.
JoinCheck(c) ==
  /\ At(c, "join_check")
  /\ IF kthread[cpu[c].t].t_state = "ZOMBIE_t" THEN Goto(c, "join_free")
     ELSE Become(c, [cpu[c] EXCEPT !.pc = "sleep", !.ch = cpu[c].t, !.ret = "join_check"])
  /\ UNCHANGED <<tables, lock>>

\* copyout() of the status, which may fail, then freethread().
JoinFree(c) ==
  /\ At(c, "join_free") /\ Free(cpu[c].t)
  /\ kthread' \in {kthread, [kthread EXCEPT ![cpu[c].t] = FreeThread]}
  /\ Release(Addr(myproc(c)))
  /\ Become(c, JoinReturn(c))
  /\ UNCHANGED <<proc, nextpid>>

\* The state of a thread that kill() or kthread_kill() reached.
Roused(st) == IF st = "SLEEPING_t" THEN "RUNNABLE_t" ELSE st

KkillScan(c) ==
  LET s == Sibling(c, cpu[c].i) IN
  /\ At(c, "kkill_scan")
  /\ IF cpu[c].i = NKT THEN Become(c, Returned(c)) /\ UNCHANGED kthread
     ELSE /\ Free(s)
          /\ IF kthread[s].tid = cpu[c].arg
             THEN /\ kthread' = [kthread EXCEPT ![s].t_killed = TRUE, ![s].t_state = Roused(@)]
                  /\ Become(c, Returned(c))
             ELSE Iterate(c) /\ UNCHANGED kthread
  /\ UNCHANGED <<proc, nextpid, lock>>

KillScan(c) ==
  LET q == cpu[c].q IN
  /\ At(c, "kill_scan")
  /\ IF q = NPROC THEN Become(c, Returned(c)) /\ UNCHANGED <<proc, lock>>
     ELSE IF proc[q].pid = cpu[c].arg
     THEN /\ Acquire(c, Addr(q))
          /\ proc' = [proc EXCEPT ![q].killed = TRUE]
          /\ Goto(c, "kill_threads")
     ELSE Free(Addr(q)) /\ Become(c, [cpu[c] EXCEPT !.q = q + 1]) /\ UNCHANGED <<proc, lock>>
  /\ UNCHANGED <<kthread, nextpid>>

KillThreads(c) ==
  LET s == <<cpu[c].q, cpu[c].i>> IN
  /\ At(c, "kill_threads")
  /\ IF cpu[c].i = NKT
     THEN Release(Addr(cpu[c].q)) /\ Become(c, Returned(c)) /\ UNCHANGED kthread
     ELSE /\ Free(s)
          /\ kthread' = [kthread EXCEPT ![s].t_state = Roused(@)]
          /\ Iterate(c)
          /\ UNCHANGED lock
  /\ UNCHANGED <<proc, nextpid>>

-----------------------------------------------------------------------------
\* The steps CPU c takes inside the kernel once it is there.
KernelStep(c) ==
  \/ Sched(c) \/ Yield(c) \/ Yielded(c) \/ Forkret(c) \/ ZombieExit(c)
  \/ Sleep(c) \/ Woken(c) \/ Relock(c) \/ Wakeup(c)
  \/ CheckKilled(c) \/ CheckTkilled(c)
  \/ ForkScan(c) \/ ForkFound(c) \/ ForkThread(c) \/ ForkCopy(c)
  \/ ForkParent(c) \/ ForkRun(c) \/ Freeproc(c)
  \/ ReapScan(c) \/ ExitWait(c) \/ Reparent(c) \/ ExitZombie(c)
  \/ ExitThreads(c) \/ ExitUnlock(c)
  \/ Wait(c) \/ WaitScan(c) \/ WaitFound(c) \/ WaitNone(c)
  \/ CreateScan(c) \/ CreateRet(c)
  \/ KexitLast(c) \/ KexitZombie(c) \/ KexitPlock(c) \/ KexitUnlock(c) \/ KexitRelock(c)
  \/ JoinScan(c) \/ JoinPlock(c) \/ JoinCheck(c) \/ JoinFree(c)
  \/ KkillScan(c) \/ KillScan(c) \/ KillThreads(c)

Syscall(c) ==
  \E call \in CallsOf(myproc(c)) \ {"tick", "ktick", "fault"} :
    \E arg \in Args(call) : Dispatch(c, call, arg)

Next ==
  \E c \in CPUs :
    \/ \E p \in Procs : SchedRow(c, p)
    \/ \E i \in 0 .. NKT - 1 : SchedRun(c, i)
    \/ Ecall(c) \/ UserTick(c) \/ UserFault(c) \/ KernelTick(c)
    \/ Syscall(c)
    \/ KernelStep(c)

Spec == Init /\ [][Next]_vars

\* What the hardware and the scan of scheduler() provide: a CPU goes on with its
\* code and gets a spinlock that is free again and again, user code traps (the
\* timer makes it), a thread that is RUNNABLE_t again and again is found by some
\* CPU, and init calls wait() again and again (the loop of user/init.c).
Fairness ==
  /\ \A c \in CPUs :
       /\ SF_vars(KernelStep(c))
       /\ WF_vars(Syscall(c))
       /\ WF_vars(Ecall(c))
       /\ SF_vars(UserTick(c))
  /\ \A p \in Procs : SF_vars(\E c \in CPUs : SchedRow(c, p))
  /\ \A p \in Procs, i \in 0 .. NKT - 1 :
       SF_vars(\E c \in CPUs : myproc(c) = p /\ SchedRun(c, i))
  /\ SF_vars(\E c \in CPUs : myproc(c) = initproc /\ Ecall(c))
  /\ SF_vars(\E c \in CPUs : myproc(c) = initproc /\ Dispatch(c, "wait", 0))

FairSpec == Spec /\ Fairness

-----------------------------------------------------------------------------
(* Types *)

Labels ==
  Interruptible \cup
  {"none", "scheduler", "user", "panic", "sleep_sched", "yield_sched", "exit_sched",
   "woken", "yielded", "zombie", "yield", "forkret", "sleep", "wakeup", "sys_killed",
   "sys_tkilled", "fork_found", "fork_thread", "fork_copy", "freeproc", "reparent",
   "exit_zombie", "exit_threads", "exit_unlock", "wait_scan", "wait_found", "wait_none",
   "kexit_unlock", "join_check", "join_free", "kill_threads"}

Panics ==
  {"init exiting", "sched p->lock", "sched locks", "sched running", "zombie exit",
   "kerneltrap", "acquire", "release"}

Returns ==
  {"user", "wait_scan", "join_check", "reparent", "exit_zombie", "kexit_unlock", "fork", "wait"}

Flows ==
  [kt : Threads, pc : Labels, ret : Returns \cup Panics, ch : Objects, i : 0 .. NKT,
   q : 0 .. NPROC, t : Threads \cup {null}, arg : Nat,
   from : {"sys", "exit", "exec", "tick"}, after : Interruptible \cup {"user"}]

ProcRecords ==
  [state : {"UNUSED", "USED", "ZOMBIE"}, killed : BOOLEAN, pid : Nat,
   parent : Procs \cup {NoProc}, p_counter : Nat]

ThreadRecords ==
  [t_state : {"UNUSED_t", "USED_t", "SLEEPING_t", "RUNNABLE_t", "RUNNING_t", "ZOMBIE_t"},
   process : Procs \cup {NoProc}, chan : Objects, t_killed : BOOLEAN, tid : Nat, context : Flows]

\* Every variable of the kernel has a value of its declared type.
TypeOK ==
  /\ proc \in [Procs -> ProcRecords]
  /\ kthread \in [Threads -> ThreadRecords]
  /\ nextpid \in Nat
  /\ cpu \in [CPUs -> Flows]
  /\ lock \in [Objects -> CPUs \cup {Nobody}]

-----------------------------------------------------------------------------
(* Safety *)

\* The spinlocks that code stopped at flow f holds.
Held(f) ==
  CASE f.pc \in {"reparent", "exit_zombie", "wait_scan", "wait_none"} -> {wait_lock}
    [] f.pc = "exit_threads" -> {wait_lock} \cup (IF f.i > f.kt[2] THEN {f.kt} ELSE {})
    [] f.pc = "exit_unlock" -> {wait_lock, f.kt}
    [] f.pc \in {"sleep_sched", "exit_sched", "woken", "zombie", "forkret"} -> {f.kt}
    [] f.pc \in {"yield_sched", "yielded"} -> {<<f.kt[1], 0>>}
    [] f.pc \in {"fork_found", "fork_thread", "kill_threads"} -> {Addr(f.q)}
    [] f.pc = "fork_copy" -> {Addr(f.q), f.t}
    [] f.pc = "wait_found" \/ (f.pc = "freeproc" /\ f.ret = "wait") -> {wait_lock, Addr(f.q)}
    [] f.pc = "freeproc" /\ f.ret = "fork" -> {Addr(f.q)} \cup ({f.t} \ {null})
    [] f.pc \in {"join_check", "join_free", "kexit_unlock"} -> {Addr(f.kt[1])}
    [] f.pc = "wakeup" -> {IF f.ret = "kexit_unlock" THEN Addr(f.kt[1]) ELSE wait_lock}
    [] f.pc = "sleep" -> {IF f.ret = "join_check" THEN Addr(f.kt[1]) ELSE wait_lock}
    [] OTHER -> {}

\* A CPU that has not panicked holds exactly the spinlocks its place in the
\* code says, through every swtch(): whatever the threads of a process do,
\* no lock leaks into the scheduler, is released twice, or changes owner.
LockDiscipline ==
  \A c \in CPUs : ~At(c, "panic") => {l \in Objects : lock[l] = c} = Held(cpu[c])

\* No kernel stack is run by two CPUs, a thread is RUNNING_t exactly while a
\* CPU runs it, and no CPU runs on a slot that freethread() has given back.
ThreadsMatchCpus ==
  /\ \A c, d \in CPUs : c # d /\ ~At(c, "scheduler") /\ ~At(d, "scheduler") => me(c) # me(d)
  /\ \A s \in Threads : Free(s) =>
       (kthread[s].t_state = "RUNNING_t" <=> \E c \in CPUs : OnCpu(c, s))
  /\ \A c \in CPUs : ~At(c, "scheduler") => ~Freed(c)

\* A process slot that allocproc() may take has no pid, no parent and no thread in
\* it, so allockthread() cannot fail in a fresh process.  It may be marked killed:
\* kill(0) finds it.
UnusedProcIsClean ==
  \A p \in Procs : proc[p].state = "UNUSED" =>
    /\ proc[p].pid = 0 /\ proc[p].parent = NoProc
    /\ \A i \in 0 .. NKT - 1 : kthread[<<p, i>>].t_state = "UNUSED_t"

\* A process that can run, except init, has a parent that is still USED: exit()
\* hands every child to init before it becomes a zombie.
ParentsAreAlive ==
  \A p \in Procs \ {initproc} :
    (proc[p].state # "UNUSED" /\ kthread[<<p, 0>>].t_state \notin {"UNUSED_t", "USED_t"})
      => proc[p].parent # NoProc /\ proc[proc[p].parent].state = "USED"

\* No parent sleeps in wait() while one of its children is a zombie.
WaitMissesNoExit ==
  \A s \in Threads :
    (IsSleepingOn(s, Addr(s[1])) /\ Free(wait_lock))
      => \A pp \in Children(s[1]) : proc[pp].state # "ZOMBIE"

\* No CPU has stopped in panic().
NoPanic == \A c \in CPUs : ~At(c, "panic")

\* The wakeup() of thread u, in kthread_exit(), has not reached thread s yet; a
\* timer interrupt may have come before it.
StillToWake(u, s) ==
  \E c \in CPUs :
    /\ me(c) = u
    /\ \/ "kexit_plock" \in {cpu[c].pc, cpu[c].after}
       \/ /\ At(c, "wakeup") /\ cpu[c].ch = u
          /\ cpu[c].q < s[1] \/ (cpu[c].q = s[1] /\ cpu[c].i <= s[2])

\* While the kernel has not panicked: in a process that has not exited, no thread
\* sleeps in kthread_join() on a zombie whose kthread_exit() will not wake it any
\* more.
JoinMissesNoExit ==
  NoPanic => \A s, u \in Threads :
    (proc[s[1]].state = "USED" /\ IsSleepingOn(s, u) /\ kthread[u].t_state = "ZOMBIE_t")
      => StillToWake(u, s)

\* Two live processes never share a pid, two live threads of a process never a tid.
UniqueIds ==
  /\ \A p, q \in Procs : p # q /\ proc[p].pid = proc[q].pid => proc[p].pid = 0
  /\ \A s, u \in Threads : s # u /\ s[1] = u[1] /\ kthread[s].tid = kthread[u].tid
       => kthread[s].tid = 0

\* fork(), exit(), wait() and kill() keep the tables of processes and threads
\* sound: a kernel stack is run by one CPU and only while its thread is RUNNING_t,
\* a slot that allocproc() may take has no thread left in it, a process has a living
\* parent, no two share an id, and nothing panics.
TablesAreSound ==
  ThreadsMatchCpus /\ UnusedProcIsClean /\ ParentsAreAlive /\ UniqueIds /\ NoPanic

-----------------------------------------------------------------------------
(* Liveness, under FairSpec *)

\* A process that calls exit() becomes a zombie.
Exiting(p) == \E c \in CPUs : myproc(c) = p /\ At(c, "reap_scan") /\ cpu[c].from = "exit"
ExitEndsProcess == \A p \in Procs : Exiting(p) ~> proc[p].state = "ZOMBIE"

\* A zombie that init is the parent of, its own child or one that reparent()
\* gave it, is reaped: neither a wakeup nor a change of parent is missed.
OrphanIsReaped ==
  \A p \in Procs :
    (proc[p].state = "ZOMBIE" /\ proc[p].parent = initproc) ~> proc[p].state = "UNUSED"
=============================================================================
