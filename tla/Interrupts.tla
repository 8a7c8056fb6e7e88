----------------------------- MODULE Interrupts -----------------------------
(***************************************************************************)
(* Spinlocks, interrupts and traps: kernel/spinlock.c with its nested      *)
(* interrupt state, the ways into and out of the kernel (kernel/trap.c,    *)
(* kernel/kernelvec.S), and what runs with them on every CPU: scheduler(), *)
(* sched(), yield(), sleep() and wakeup() of kernel/proc.c, sys_sleep().   *)
(*                                                                         *)
(* A flow of control, a thread or the scheduler of a CPU, is the sequence  *)
(* of operations it still has to do.  A trap puts the handler's operations *)
(* in front.  A timer interrupt may come wherever the CPU has interrupts   *)
(* enabled.  Every process has one thread; none is killed.                 *)
(***************************************************************************)
EXTENDS Integers, Sequences, FiniteSets

CONSTANTS
  NCPU,       \* CPU 1 is the hart with id 0
  NTHREAD,
  MaxTraps    \* bound: traps in a behaviour

VARIABLES
  cpu,        \* struct cpu and the supervisor registers of each CPU
  code,       \* what each flow has to do
  spin,       \* the CPU that holds each spinlock, 0 if none does
  tstate,     \* t_state of each thread
  traps,      \* traps so far
  died        \* how the machine stopped, "" while it runs

vars == <<cpu, code, spin, tstate, traps, died>>

CPUs == 1 .. NCPU
Threads == 1 .. NTHREAD
Scheduler(c) == -c
Tickslock == 0          \* the lock of thread t is t

Op(o) == [op |-> o, l |-> 0, old |-> FALSE, home |-> <<>>]
On(o, l) == [Op(o) EXCEPT !.l = l]

(* Operations that calls stand for *)

Acquire(l) == <<On("off", l), On("swap", l)>>
Release(l) == <<On("release", l)>>

Yield(t) == Acquire(t) \o <<Op("RUNNABLE"), Op("sched")>> \o Release(t)

Sleep(t, lk) ==
  Acquire(t) \o Release(lk) \o <<Op("SLEEPING"), Op("sched")>> \o Release(t) \o Acquire(lk)

\* wakeup() from flow f, which passes over its own thread.
WakeupFrom[t \in 1 .. NTHREAD + 1, f \in (-NCPU) .. NTHREAD] ==
  IF t > NTHREAD THEN <<>>
  ELSE (IF t = f THEN <<>> ELSE Acquire(t) \o <<On("wake", t)>> \o Release(t))
       \o WakeupFrom[t + 1, f]

\* devintr() for a timer interrupt: one CPU counts the ticks.
Devintr(c, f) ==
  IF c = 1 THEN Acquire(Tickslock) \o WakeupFrom[1, f] \o Release(Tickslock) ELSE <<>>

\* sys_sleep() of no tick or of one.
SysSleep(t, n) ==
  Acquire(Tickslock) \o (IF n = 0 THEN <<>> ELSE Sleep(t, Tickslock)) \o Release(Tickslock)

\* The way back to user code after fork(), an interrupt or a system call.
FromFork == 0
FromTimer == 1
FromCall == 2
Usertrapret(from) == <<On("usertrapret", from), Op("userret"), Op("user")>>

Forkret(t) == Release(t) \o Usertrapret(FromFork)

Init ==
  /\ cpu = [c \in CPUs |->
              [sie |-> FALSE, spie |-> FALSE, stvec |-> "kernel", sepc |-> <<>>,
               noff |-> 0, intena |-> FALSE, run |-> Scheduler(c)]]
  /\ code = [f \in {Scheduler(c) : c \in CPUs} \cup Threads |->
               IF f \in Threads THEN Forkret(f) ELSE <<On("pass", 1)>>]
  /\ spin = [l \in 0 .. NTHREAD |-> 0]
  /\ tstate = [t \in Threads |-> "RUNNABLE"]
  /\ traps = 0 /\ died = ""

Flow(c) == cpu[c].run
Top(c) == Head(code[Flow(c)])
Rest(c) == Tail(code[Flow(c)])
Does(c, o) == died = "" /\ Top(c).op = o

\* The flow on c goes on with s.
Then(c, s) == code' = [code EXCEPT ![Flow(c)] = s]

\* The first of the checks that fails, as a panic.
Checks(cs) ==
  LET bad == {i \in DOMAIN cs : ~cs[i][1]}
  IN  IF bad = {} THEN died ELSE cs[CHOOSE i \in bad : \A j \in bad : i <= j][2]

(* spinlock.c *)

\* push_off() reads whether interrupts are on; if so it may lose the CPU then.
Get(c) ==
  /\ Does(c, "off") /\ cpu[c].sie /\ ~Top(c).old
  /\ Then(c, <<[Top(c) EXCEPT !.old = TRUE]>> \o Rest(c))
  /\ UNCHANGED <<cpu, spin, tstate, traps, died>>

\* intena after push_off(): the outermost one sets it.
Saved(c, old) == IF cpu[c].noff = 0 THEN old ELSE cpu[c].intena

\* The rest of push_off(), and acquire() up to its loop.
PushOff(c) ==
  LET o == Top(c)
  IN  /\ Does(c, "off") /\ (cpu[c].sie => o.old)
      /\ cpu' = [cpu EXCEPT ![c].sie = FALSE, ![c].noff = @ + 1, ![c].intena = Saved(c, o.old)]
      /\ died' = Checks(<<<<spin[o.l] # c, "acquire">>>>)
      /\ Then(c, Rest(c))
      /\ UNCHANGED <<spin, tstate, traps>>

\* The round of acquire()'s loop that gets the lock.
Swap(c) ==
  /\ Does(c, "swap") /\ spin[Top(c).l] = 0
  /\ spin' = [spin EXCEPT ![Top(c).l] = c]
  /\ Then(c, Rest(c))
  /\ UNCHANGED <<cpu, tstate, traps, died>>

\* Seeded fault: an inner release() turns interrupts on again, too.
PoppedAny(c) == cpu[c].sie \/ cpu[c].intena

\* Whether interrupts are on after pop_off(): the outermost one restores them.
Popped(c) == cpu[c].sie \/ (cpu[c].noff = 1 /\ cpu[c].intena)

\* release() and pop_off().
Unlock(c) ==
  LET l == Top(c).l
  IN  /\ Does(c, "release")
      /\ died' = Checks(<<<<spin[l] = c, "release">>, <<~cpu[c].sie, "pop_off - interruptible">>,
                          <<cpu[c].noff >= 1, "pop_off">>>>)
      /\ spin' = [spin EXCEPT ![l] = 0]
      /\ cpu' = [cpu EXCEPT ![c].noff = @ - 1, ![c].sie = Popped(c)]
      /\ Then(c, Rest(c))
      /\ UNCHANGED <<tstate, traps>>

(* proc.c *)

\* A thread sets its own state; wakeup() that of another.
SetState(c) ==
  /\ \E s \in {"RUNNABLE", "SLEEPING"} : Does(c, s) /\ tstate' = [tstate EXCEPT ![Flow(c)] = s]
  /\ Then(c, Rest(c))
  /\ UNCHANGED <<cpu, spin, traps, died>>

Wake(c) ==
  /\ Does(c, "wake")
  /\ tstate' = [tstate EXCEPT ![Top(c).l] = IF @ = "SLEEPING" THEN "RUNNABLE" ELSE @]
  /\ Then(c, Rest(c))
  /\ UNCHANGED <<cpu, spin, traps, died>>

\* sched() up to swtch(): intena stays on the thread's stack.
Sched(c) ==
  LET t == Flow(c)
  IN  /\ Does(c, "sched")
      /\ died' = Checks(<<<<spin[t] = c, "sched p->lock">>, <<cpu[c].noff = 1, "sched locks">>,
                          <<tstate[t] # "RUNNING", "sched running">>,
                          <<~cpu[c].sie, "sched interruptible">>>>)
      /\ cpu' = [cpu EXCEPT ![c].run = Scheduler(c)]
      /\ Then(c, <<[Op("resume") EXCEPT !.old = cpu[c].intena]>> \o Rest(c))
      /\ UNCHANGED <<spin, tstate, traps>>

\* Seeded fault: sched() leaves the intena of the CPU it wakes up on.
ResumedAsIs(c, old) == cpu[c].intena

\* intena when swtch() comes back, perhaps on another CPU.
Resumed(c, old) == old

Resume(c) ==
  /\ Does(c, "resume")
  /\ cpu' = [cpu EXCEPT ![c].intena = Resumed(c, Top(c).old)]
  /\ Then(c, Rest(c))
  /\ UNCHANGED <<spin, tstate, traps, died>>

\* scheduler(): a pass over the threads begins with intr_on().
Pass(c) ==
  LET t    == Top(c).l
      next == IF t = NTHREAD THEN 1 ELSE t + 1
  IN  /\ Does(c, "pass")
      /\ cpu' = [cpu EXCEPT ![c].sie = IF t = 1 THEN TRUE ELSE @]
      /\ Then(c, Acquire(t) \o <<On("dispatch", t)>> \o Release(t) \o <<On("pass", next)>>)
      /\ UNCHANGED <<spin, tstate, traps, died>>

Dispatch(c) ==
  LET t == Top(c).l
  IN  /\ Does(c, "dispatch")
      /\ IF tstate[t] = "RUNNABLE"
         THEN tstate' = [tstate EXCEPT ![t] = "RUNNING"] /\ cpu' = [cpu EXCEPT ![c].run = t]
         ELSE UNCHANGED <<tstate, cpu>>
      /\ Then(c, Rest(c))
      /\ UNCHANGED <<spin, traps, died>>

(* trap.c *)

\* What the hardware does on a trap to vector v: home is where it came from.
Trapped(c, home) == [cpu[c] EXCEPT !.sie = FALSE, !.spie = cpu[c].sie, !.sepc = home]

\* usertrap() for a system call, up to syscall().
Ecall(c) ==
  /\ Does(c, "user")
  /\ traps < MaxTraps /\ traps' = traps + 1
  /\ cpu' = [cpu EXCEPT ![c] = [Trapped(c, <<>>) EXCEPT !.stvec = "kernel"]]
  /\ \E n \in {0, 1} : Then(c, <<Op("intr_on")>> \o SysSleep(Flow(c), n) \o Usertrapret(FromCall))
  /\ died' = Checks(<<<<cpu[c].stvec = "user", "kerneltrap: not from supervisor mode">>>>)
  /\ UNCHANGED <<spin, tstate>>

IntrOn(c) ==
  /\ Does(c, "intr_on")
  /\ cpu' = [cpu EXCEPT ![c].sie = TRUE]
  /\ Then(c, Rest(c))
  /\ UNCHANGED <<spin, tstate, traps, died>>

\* usertrap() for a timer interrupt.
UserTimer(c) ==
  /\ Does(c, "user") /\ cpu[c].sie
  /\ traps < MaxTraps /\ traps' = traps + 1
  /\ cpu' = [cpu EXCEPT ![c] = [Trapped(c, <<>>) EXCEPT !.stvec = "kernel"]]
  /\ Then(c, Devintr(c, Flow(c)) \o Yield(Flow(c)) \o Usertrapret(FromTimer))
  /\ died' = Checks(<<<<cpu[c].stvec = "user", "kerneltrap: not from supervisor mode">>>>)
  /\ UNCHANGED <<spin, tstate>>

\* kerneltrap() for a timer interrupt: sepc and sstatus stay on the stack.
KernelTimer(c) ==
  LET home == <<Flow(c), Len(code[Flow(c)])>>
  IN  /\ died = "" /\ cpu[c].sie /\ Top(c).op # "user"
      /\ traps < MaxTraps /\ traps' = traps + 1
      /\ cpu' = [cpu EXCEPT ![c] = Trapped(c, home)]
      /\ Then(c, Devintr(c, Flow(c))
                 \o <<Op("tick"), [Op("kernelret") EXCEPT !.old = cpu[c].sie, !.home = home]>>
                 \o code[Flow(c)])
      /\ died' = Checks(<<<<cpu[c].stvec = "kernel", "usertrap: not from user mode">>>>)
      /\ UNCHANGED <<spin, tstate>>

\* kerneltrap() gives up the CPU if a thread was interrupted.
Tick(c) ==
  /\ Does(c, "tick")
  /\ Then(c, (IF Flow(c) \in Threads /\ tstate[Flow(c)] = "RUNNING" THEN Yield(Flow(c)) ELSE <<>>)
             \o Rest(c))
  /\ UNCHANGED <<cpu, spin, tstate, traps, died>>

\* The registers that sret uses at the end of kerneltrap().
TrapRegisters(c, o) == [sepc |-> o.home, spie |-> o.old]

\* The end of kerneltrap() and kernelvec, with sret.
KernelRet(c) ==
  LET r == TrapRegisters(c, Top(c))
  IN  /\ Does(c, "kernelret")
      /\ cpu' = [cpu EXCEPT ![c].sepc = r.sepc, ![c].spie = TRUE, ![c].sie = r.spie]
      /\ Then(c, Rest(c))
      /\ died' = Checks(<<<<r.sepc = <<Flow(c), Len(Rest(c))>>, "returned elsewhere">>>>)
      /\ UNCHANGED <<spin, tstate, traps>>

\* usertrapret() turns interrupts off before it switches the vector.
Usertrapreturn(c) ==
  /\ Does(c, "usertrapret")
  /\ cpu' = [cpu EXCEPT ![c].sie = FALSE, ![c].stvec = "user"]
  /\ Then(c, Rest(c))
  /\ UNCHANGED <<spin, tstate, traps, died>>

\* The end of usertrapret() and userret, with sret.
UserRet(c) ==
  /\ Does(c, "userret")
  /\ cpu' = [cpu EXCEPT ![c].spie = TRUE, ![c].sie = TRUE]
  /\ Then(c, Rest(c))
  /\ UNCHANGED <<spin, tstate, traps, died>>

Next == \E c \in CPUs :
  \/ Get(c) \/ PushOff(c) \/ Swap(c) \/ Unlock(c)
  \/ SetState(c) \/ Wake(c) \/ Sched(c) \/ Resume(c) \/ Pass(c) \/ Dispatch(c)
  \/ Ecall(c) \/ IntrOn(c) \/ UserTimer(c) \/ KernelTimer(c) \/ Tick(c) \/ KernelRet(c)
  \/ Usertrapreturn(c) \/ UserRet(c)

Spec == Init /\ [][Next]_vars

-----------------------------------------------------------------------------

HeldBy(c) == {l \in DOMAIN spin : spin[l] = c}

\* A CPU takes no interrupt while it holds or waits for a spinlock, so that no
\* handler spins for a lock under it; noff counts those locks, and CPUs never wait
\* for each other in a circle.
LocksShutOut ==
  \A c \in CPUs :
    LET waits == IF Top(c).op = "swap" THEN 1 ELSE 0
    IN  /\ cpu[c].noff = Cardinality(HeldBy(c)) + waits
        /\ cpu[c].sie => cpu[c].noff = 0
        /\ waits = 1 => LET d == spin[Top(c).l]
                        IN  d # 0 => d # c /\ (Top(d).op = "swap" => spin[Top(d).l] # c)

\* A trap disturbs nothing: no check of the spinlocks, of sched() or of the trap
\* handlers fails, and it returns to the code it interrupted, even when yield() in
\* between moved the thread to another CPU and other traps came there. And
\* interrupts are a matter of the thread, wherever it runs: on in user code and
\* in a system call from its intr_on() on, off in a trap handler until its end, and
\* off under a spinlock. What other threads and their traps did to the CPUs it has
\* used, to intena and to sstatus, does not show.
Undisturbed ==
  /\ died = ""
  /\ \A c \in CPUs : Flow(c) \in Threads /\ HeldBy(c) = {} /\ Top(c).op # "swap" =>
       LET ops    == code[Flow(c)]
           has(o) == \E i \in DOMAIN ops : ops[i].op = o
           from(x) == \E i \in DOMAIN ops : ops[i] = On("usertrapret", x)
       IN  /\ has("kernelret") \/ has("intr_on") \/ from(FromTimer) => ~cpu[c].sie
           /\ from(FromCall) /\ ~has("kernelret") /\ ~has("intr_on") => cpu[c].sie
           /\ cpu[c].sie = (Top(c).op = "user") \/ has("usertrapret")
=============================================================================
