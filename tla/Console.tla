------------------------------ MODULE Console ------------------------------
(***************************************************************************)
(* The console, kernel/console.c, on the serial port of module Uart.       *)
(*                                                                         *)
(* Threads read and write the console; one interrupt handler at a time     *)
(* runs uartintr(), since the interrupt controller hands the device's      *)
(* interrupt to one CPU until it is completed.  cons.lock is a variable:   *)
(* consoleintr() holds it while it waits for the device to take an echo,   *)
(* and kill() can fall between consoleread()'s test and its sleep().       *)
(* Slots of cons.buf outside r .. e are never read and are kept empty.     *)
(***************************************************************************)
EXTENDS Uart

CONSTANTS
  InSize,      \* INPUT_BUF_SIZE
  InMod,       \* r, w and e count modulo this (2^32 in the code)
  ReadSize,    \* how much a read asks for
  Message,     \* what a write writes
  Jobs         \* the call each thread makes, and the keys the user may type

ASSUME InAssumption ==
  InSize \in Nat \ {0} /\ InMod \in Nat /\ InMod % InSize = 0 /\ InMod > InSize

VARIABLES
  cons,      \* buf, r, w, e and lock
  killed,
  job,       \* one of Jobs
  pc,        \* where each thread is
  loc,       \* its locals: bytes moved so far
  intr       \* the handler: where it is, and echo bytes left

vars == <<tx, tx_lock, thr, rx, irq, chan, cons, killed, job, pc, loc, intr>>

inchan == "cons.r"

Init ==
  /\ SleepInit /\ UartInit
  /\ cons = [buf |-> [k \in 0 .. InSize - 1 |-> Nobody], r |-> 0, w |-> 0, e |-> 0,
             lock |-> Nobody]
  /\ job \in Jobs
  /\ killed = [p \in Procs |-> FALSE]
  /\ pc = [p \in Procs |-> "user"]
  /\ loc = [p \in Procs |-> <<>>]
  /\ intr = [pc |-> "idle", echo |-> 0]

At(p, l) == pc[p] = l /\ Awake(p)
Goto(p, l) == pc' = [pc EXCEPT ![p] = l]

\* Back to user mode, where a killed thread exits and another takes its place.
Leave(p) ==
  /\ Goto(p, "user")
  /\ loc' = [loc EXCEPT ![p] = <<>>]
  /\ killed' = [killed EXCEPT ![p] = FALSE]

\* kill() of a thread that reads; and of one that sleeps in uartputc(), which
\* does not look at killed.
Kill(p) ==
  /\ IF job.call[p] = "read"
     THEN /\ pc[p] # "user" /\ ~killed[p]
          /\ killed' = [killed EXCEPT ![p] = TRUE]
          /\ Sleep(p, Nobody)
     ELSE Kicked(p) /\ UNCHANGED killed
  /\ UNCHANGED <<job, uartVars, cons, pc, loc, intr>>

-----------------------------------------------------------------------------
(* consolewrite() and uartputc() *)

Write(p) ==
  /\ At(p, "user") /\ job.call[p] = "write"
  /\ Goto(p, "putc")
  /\ UNCHANGED <<job, uartVars, chan, cons, killed, loc, intr>>

\* All bytes are written, or either_copyin() of the next one fails.
WriteDone(p) ==
  /\ At(p, "putc")
  /\ Leave(p)
  /\ UNCHANGED <<job, uartVars, chan, cons, intr>>

PutWait(p) ==
  /\ At(p, "putc") /\ Len(loc[p]) < Len(Message)
  /\ WaitRing(p)
  /\ UNCHANGED <<job, cons, killed, pc, loc, intr>>

PutStore(p) ==
  LET c == Message[Len(loc[p]) + 1] IN
  /\ At(p, "putc") /\ Len(loc[p]) < Len(Message)
  /\ PutRing(p, c)
  /\ Goto(p, "start")
  /\ loc' = [loc EXCEPT ![p] = Append(@, c)]
  /\ UNCHANGED <<job, cons, killed, intr>>

\* uartstart() under uartputc().
PutStart(p) ==
  /\ At(p, "start")
  /\ IF StartStops THEN StartEnds(p) /\ Goto(p, "putc")
     ELSE Goto(p, "send") /\ UNCHANGED <<uartVars, chan>>
  /\ UNCHANGED <<job, cons, killed, loc, intr>>

PutSend(p) ==
  /\ At(p, "send")
  /\ StartSends(p)
  /\ Goto(p, "start")
  /\ UNCHANGED <<job, cons, killed, loc, intr>>

-----------------------------------------------------------------------------
(* consoleread() *)

Read(p) ==
  /\ At(p, "user") /\ job.call[p] = "read"
  /\ Goto(p, "read")
  /\ UNCHANGED <<job, uartVars, chan, cons, killed, loc, intr>>

InReady == (cons.w - cons.r) % InMod
Reading(p) == At(p, "read") /\ cons.lock \in {Nobody, p}
Unlocked(c) == [c EXCEPT !.lock = Nobody]

\* Nothing to read: killed, or about to sleep.
ReadWait(p) ==
  /\ Reading(p) /\ cons.r = cons.w
  /\ IF killed[p] THEN Leave(p) /\ cons' = Unlocked(cons)
     ELSE Goto(p, "rsleep") /\ cons' = [cons EXCEPT !.lock = p] /\ UNCHANGED <<loc, killed>>
  /\ UNCHANGED <<job, uartVars, chan, intr>>

ReadSleep(p) ==
  /\ pc[p] = "rsleep"
  /\ Sleep(p, inchan)
  /\ Goto(p, "read")
  /\ cons' = Unlocked(cons)
  /\ UNCHANGED <<job, uartVars, killed, loc, intr>>

\* cons after the first character is taken.
Taken == [cons EXCEPT !.buf[cons.r % InSize] = Nobody, !.r = (@ + 1) % InMod]

\* Seeded fault: control-D is used up by a read that already has characters.
AfterEofTaken(p) == Taken

\* cons after a read of control-D: put back unless the read has nothing.
AfterEof(p) == IF loc[p] # <<>> THEN cons ELSE Taken

\* One iteration of the loop: end of file, or a character, which ends the read
\* if it is a newline, the last one asked for, or cannot be copied out.
ReadChar(p) ==
  LET c == cons.buf[cons.r % InSize] IN
  /\ Reading(p) /\ cons.r # cons.w
  /\ IF c = "^D" THEN Goto(p, "return") /\ cons' = Unlocked(AfterEof(p)) /\ UNCHANGED loc
     ELSE \/ /\ loc' = [loc EXCEPT ![p] = Append(@, c)]
             /\ IF c = "nl" \/ Len(loc[p]) + 1 = ReadSize
                THEN Goto(p, "return") /\ cons' = Unlocked(Taken)
                ELSE cons' = [Taken EXCEPT !.lock = p] /\ UNCHANGED pc
          \/ /\ loc' = [loc EXCEPT ![p] = <<>>]
             /\ Goto(p, "return") /\ cons' = Unlocked(Taken)
  /\ UNCHANGED <<job, uartVars, chan, killed, intr>>

ReadReturn(p) ==
  /\ At(p, "return")
  /\ Leave(p)
  /\ UNCHANGED <<job, uartVars, chan, cons, intr>>

-----------------------------------------------------------------------------
(* uartintr() and consoleintr() *)

IntrGoto(l) == intr' = [intr EXCEPT !.pc = l]

\* devintr() claims the interrupt.
IntrClaim ==
  /\ irq /\ intr.pc = "idle"
  /\ irq' = FALSE
  /\ IntrGoto("getc")
  /\ UNCHANGED <<job, tx, tx_lock, thr, rx, chan, cons, killed, pc, loc>>

\* uartgetc() returns -1: on to the transmit side.
IntrNoChar ==
  /\ intr.pc = "getc" /\ rx = <<>> /\ tx_lock = Nobody
  /\ tx_lock' = handler
  /\ IntrGoto("start")
  /\ UNCHANGED <<job, tx, thr, rx, irq, chan, cons, killed, pc, loc>>

InLine == (cons.e - cons.w) % InMod
InUsed == (cons.e - cons.r) % InMod

HasRoom == InUsed < InSize

\* cons without its last k characters.
Erased(k) ==
  LET e == (cons.e - k) % InMod IN
  [cons EXCEPT !.e = e, !.lock = handler,
     !.buf = [x \in DOMAIN @ |-> IF \E j \in 0 .. k - 1 : x = (e + j) % InSize
                                 THEN Nobody ELSE @[x]]]

\* How many characters control-U removes: back to w or to a newline.
LineLen ==
  LET ks == {k \in 0 .. InLine : \A j \in 1 .. k : cons.buf[(cons.e - j) % InSize] # "nl"}
  IN CHOOSE k \in ks : \A j \in ks : j <= k

\* The character c completes the line; used counts it.
Commits(c, used) == c \in {"nl", "^D"} \/ used = InSize

\* consoleintr(c): the edit of cons, and the echo bytes to be sent before the
\* lock is released (backspace, blank, backspace for an erased character).
\* Nobody sees cons before that, so the edit comes first here.
IntrChar ==
  LET c == Head(rx) IN
  /\ intr.pc = "getc" /\ rx # <<>> /\ cons.lock = Nobody
  /\ rx' = Tail(rx)
  /\ IF c \in {"^U", "^H"}
     THEN LET k == IF c = "^U" THEN LineLen ELSE IF InLine = 0 THEN 0 ELSE 1 IN
          /\ cons' = Erased(k)
          /\ intr' = [pc |-> "echo", echo |-> 3 * k]
          /\ UNCHANGED chan
     ELSE IF HasRoom
     THEN LET e == (cons.e + 1) % InMod
              done == Commits(c, InUsed + 1) IN
          /\ cons' = [cons EXCEPT !.buf[cons.e % InSize] = c, !.e = e, !.lock = handler,
                                  !.w = IF done THEN e ELSE @]
          /\ intr' = [pc |-> "echo", echo |-> 1]
          /\ IF done THEN Wakeup(inchan) ELSE UNCHANGED chan
     ELSE UNCHANGED <<cons, intr, chan>>
  /\ UNCHANGED <<job, tx, tx_lock, thr, irq, killed, pc, loc>>

\* uartputc_sync() waits until the device is idle ...
EchoWait ==
  /\ intr.pc = "echo" /\ intr.echo > 0 /\ TxIdle
  /\ IntrGoto("sync")
  /\ UNCHANGED <<job, uartVars, chan, cons, killed, pc, loc>>

\* ... and stores the byte.
EchoStore ==
  /\ intr.pc = "sync"
  /\ SyncStore
  /\ intr' = [pc |-> "echo", echo |-> intr.echo - 1]
  /\ UNCHANGED <<job, cons, killed, pc, loc>>

EchoDone ==
  /\ intr.pc = "echo" /\ intr.echo = 0
  /\ IntrGoto("getc")
  /\ cons' = Unlocked(cons)
  /\ UNCHANGED <<job, uartVars, chan, killed, pc, loc>>

\* Seeded fault: the handler does not restart the transmitter.
IntrStartSkipped ==
  /\ intr.pc = "start"
  /\ tx_lock' = Nobody /\ IntrGoto("idle")
  /\ UNCHANGED <<job, tx, thr, rx, irq, chan, cons, killed, pc, loc>>

\* uartstart() under the handler, which then completes the interrupt.
IntrStart ==
  /\ intr.pc = "start"
  /\ IF StartStops THEN StartEnds(handler) /\ IntrGoto("idle")
     ELSE IntrGoto("send") /\ UNCHANGED <<uartVars, chan>>
  /\ UNCHANGED <<job, cons, killed, pc, loc>>

IntrSend ==
  /\ intr.pc = "send"
  /\ StartSends(handler)
  /\ IntrGoto("start")
  /\ UNCHANGED <<job, cons, killed, pc, loc>>

-----------------------------------------------------------------------------
Device(A) == A /\ UNCHANGED <<job, cons, killed, pc, loc, intr>>

Handler ==
  \/ IntrClaim \/ IntrNoChar \/ IntrChar \/ EchoWait \/ EchoStore \/ EchoDone
  \/ IntrStart \/ IntrSend

InWrite(p) == WriteDone(p) \/ PutWait(p) \/ PutStore(p) \/ PutStart(p) \/ PutSend(p)
InRead(p) == ReadWait(p) \/ ReadSleep(p) \/ ReadChar(p) \/ ReadReturn(p)

Next ==
  \/ Device(DevSend)
  \/ \E c \in job.keys : Device(DevReceive(c))
  \/ Handler
  \/ \E p \in Procs : Read(p) \/ Write(p) \/ Kill(p) \/ InWrite(p) \/ InRead(p)

Spec == Init /\ [][Next]_vars

-----------------------------------------------------------------------------
\* Nobody waits for what has already happened: a reader sleeps only while no
\* character is ready, a writer only while the ring is full.  And output never
\* waits in the ring with nothing to move it: the device is sending, has asked
\* for an interrupt, or someone is in uartintr() or uartstart().
NoStall ==
  /\ \A p \in Procs : ~Awake(p) =>
       IF pc[p] = "read" THEN InReady = 0 ELSE TxFull
  /\ ~TxEmpty => thr # <<>> \/ irq \/ intr.pc # "idle" \/ tx_lock # Nobody

Window(from, n) == [k \in 1 .. n |-> cons.buf[(from + k - 1) % InSize]]

Editor == INSTANCE LineEditor WITH
  BufSize <- InSize,
  ready <- Window(cons.r, InReady),
  line <- Window(cons.w, InLine),
  got <- [p \in Procs |-> IF pc[p] \in {"read", "rsleep", "return"} THEN loc[p] ELSE <<>>]

\* What readers get is what the line editor promises: whatever keys, reads,
\* kills and wrap-arounds come in between, no ready character is lost,
\* duplicated, reordered or taken back by control-U, and control-D ends one read.
ImplementsEditor == Editor!EditorSpec

Output == INSTANCE ByteQueue WITH
  Bytes <- ToSet(Message),
  Capacity <- TxSize + RxSize + 2,
  queue <- SelectSeq(thr, LAMBDA c : c # Echo)
           \o [k \in 1 .. TxCount |-> tx.buf[(tx.r + k - 1) % TxSize]]

=============================================================================
