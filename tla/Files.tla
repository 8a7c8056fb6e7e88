------------------------------- MODULE Files -------------------------------
(***************************************************************************)
(* Descriptors, the file table and pipes: kernel/pipe.c, kernel/file.c and *)
(* the calls of kernel/sysfile.c, fork() and exit() that move references   *)
(* to open files.                                                          *)
(*                                                                         *)
(* Each process has one thread here, so its descriptor table is its own.   *)
(* What happens under ftable.lock is one step; pi->lock is a variable,     *)
(* since kill() can fall between two iterations of a loop that holds it.   *)
(* A pipe's counters are the uint of the code, modulo CounterMod.          *)
(***************************************************************************)
EXTENDS Integers, Sequences, FiniteSets, FiniteSetsExt, Functions, Sleep

CONSTANTS
  NFILE,       \* size of the file table
  NOFILE,      \* descriptors of a process
  Pages,       \* pages kalloc() has for pipes
  PIPESIZE,
  CounterMod,  \* nread and nwrite count modulo this (2^32 in the code)
  Messages,    \* what a process writes in one call
  ReadSize,    \* how much it asks for in one read
  Shell        \* the process that never exits

ASSUME PipeAssumption ==
  /\ PIPESIZE \in Nat \ {0} /\ CounterMod \in Nat
  /\ CounterMod % PIPESIZE = 0 /\ CounterMod > PIPESIZE
ASSUME TableAssumption ==
  /\ NFILE \in Nat /\ NOFILE \in Nat /\ Nobody \notin 1 .. NFILE
  /\ Shell \in Procs /\ IsFiniteSet(Procs) /\ Nobody \notin Procs \cup Pages
ASSUME CallAssumption ==
  /\ ReadSize \in Nat /\ \A m \in Messages : m \in Seq(Range(m))
  /\ \A pi \in Pages : Nobody \notin {<<"nread", pi>>, <<"nwrite", pi>>}

VARIABLES
  file,       \* ftable.file
  ofile,      \* p->ofile, Nobody for a free descriptor
  pipe,       \* the pipes, by page; quiet: a killed writer left a reader asleep
  killed,
  pc,         \* where each process is; "none" for one that does not exist
  loc         \* its locals: files to close, the pipe, what to move, how far

vars == <<file, ofile, pipe, killed, pc, loc, chan>>

FileIds == 1 .. NFILE
Fds == 0 .. NOFILE - 1
FreeFile == [ref |-> 0, type |-> "FD_NONE", writable |-> FALSE, pipe |-> Nobody]
NoPipe ==
  [data |-> [k \in 0 .. PIPESIZE - 1 |-> Nobody], nread |-> 0, nwrite |-> 0,
   readopen |-> FALSE, writeopen |-> FALSE, lock |-> Nobody, quiet |-> FALSE]
NoLoc == [fs |-> <<>>, ret |-> "user", pi |-> Nobody, msg |-> <<>>, n |-> 0, i |-> 0]

\* A shell: one process with no open file.
Init ==
  /\ SleepInit
  /\ file = [f \in FileIds |-> FreeFile]
  /\ ofile = [p \in Procs |-> [d \in Fds |-> Nobody]]
  /\ pipe = [pi \in Pages |-> NoPipe]
  /\ killed = [p \in Procs |-> FALSE]
  /\ pc = [p \in Procs |-> IF p = Shell THEN "user" ELSE "none"]
  /\ loc = [p \in Procs |-> NoLoc]

At(p, l) == pc[p] = l /\ Awake(p)
Goto(p, l) == pc' = [pc EXCEPT ![p] = l]
Locals(p, r) == loc' = [loc EXCEPT ![p] = r]
InUser(p) == pc[p] = "user" /\ ~killed[p]

-----------------------------------------------------------------------------
(* filealloc(), filedup(), fileclose(), fdalloc() *)

Closed(f) == file[f].ref = 0
FirstClosed == Min({f \in FileIds : Closed(f)})
FreeFds(p) == {d \in Fds : ofile[p][d] = Nobody}
Allocated(f) == [file EXCEPT ![f].ref = 1]

\* Close the files fs and then go on at l.
CloseThen(p, fs, l) ==
  /\ Goto(p, IF fs = <<>> THEN l ELSE "close")
  /\ Locals(p, IF fs = <<>> THEN NoLoc ELSE [NoLoc EXCEPT !.fs = fs, !.ret = l])
CloseAll(p, fs) == CloseThen(p, fs, loc[p].ret)

\* A file with one reference less.  The fields of a file of type FD_NONE are not
\* read, so they are cleared as well.
Dropped(f) == IF file[f].ref > 1 THEN [file[f] EXCEPT !.ref = @ - 1] ELSE FreeFile

\* fileclose() of the first file of the list: the reference goes under
\* ftable.lock; the last one takes the file's pipe along in the copy ff.
Fileclose(p) ==
  LET f == Head(loc[p].fs)  rest == Tail(loc[p].fs) IN
  /\ pc[p] = "close"
  /\ IF file[f].ref < 1
     THEN Goto(p, "panic") /\ UNCHANGED <<file, loc>>
     ELSE /\ file' = [file EXCEPT ![f] = Dropped(f)]
          /\ IF file[f].ref = 1 /\ file[f].type = "FD_PIPE"
             THEN /\ Goto(p, "pipeclose")
                  /\ Locals(p, [loc[p] EXCEPT !.fs = rest, !.pi = file[f].pipe,
                                              !.n = IF file[f].writable THEN 1 ELSE 0])
             ELSE CloseAll(p, rest)
  /\ UNCHANGED <<ofile, pipe, killed, chan>>

\* A pipe after one end is closed; the last end frees the page.
PipeWithout(pi, w) ==
  LET after == IF w THEN [pipe[pi] EXCEPT !.writeopen = FALSE]
                    ELSE [pipe[pi] EXCEPT !.readopen = FALSE] IN
  IF after.readopen \/ after.writeopen THEN [after EXCEPT !.quiet = @ /\ ~w] ELSE NoPipe

\* pipeclose(ff.pipe, ff.writable).
Pipeclose(p) ==
  LET pi == loc[p].pi  w == loc[p].n = 1 IN
  /\ pc[p] = "pipeclose" /\ pipe[pi].lock = Nobody
  /\ Wakeup(IF w THEN <<"nread", pi>> ELSE <<"nwrite", pi>>)
  /\ pipe' = [pipe EXCEPT ![pi] = PipeWithout(pi, w)]
  /\ CloseAll(p, loc[p].fs)
  /\ UNCHANGED <<file, ofile, killed>>

-----------------------------------------------------------------------------
(* sys_pipe(), sys_dup(), sys_close(), fork(), exit(), kill() *)

\* pipealloc() takes its two files one after the other ...
SysPipe(p) ==
  /\ InUser(p) /\ \E f \in FileIds : Closed(f)
  /\ file' = Allocated(FirstClosed)
  /\ Goto(p, "pipealloc")
  /\ Locals(p, [NoLoc EXCEPT !.fs = <<FirstClosed>>])
  /\ UNCHANGED <<ofile, pipe, killed, chan>>

PipeallocSecond(p) ==
  /\ pc[p] = "pipealloc"
  /\ IF \E f \in FileIds : Closed(f)
     THEN /\ file' = Allocated(FirstClosed)
          /\ Goto(p, "kalloc")
          /\ Locals(p, [loc[p] EXCEPT !.fs = Append(@, FirstClosed)])
     ELSE CloseAll(p, loc[p].fs) /\ UNCHANGED file
  /\ UNCHANGED <<ofile, pipe, killed, chan>>

FreePages == {pi \in Pages : ~pipe[pi].readopen /\ ~pipe[pi].writeopen}

\* ... then the page of the pipe, if there is one,
PipeallocBad(p) ==
  /\ pc[p] = "kalloc" /\ FreePages = {}
  /\ CloseAll(p, loc[p].fs)
  /\ UNCHANGED <<file, ofile, pipe, killed, chan>>

PipeallocPage(p) ==
  LET rf == loc[p].fs[1]  wf == loc[p].fs[2] IN
  /\ pc[p] = "kalloc"
  /\ \E pi \in FreePages :
       /\ pipe' = [pipe EXCEPT ![pi] = [NoPipe EXCEPT !.readopen = TRUE, !.writeopen = TRUE]]
       /\ file' = [file EXCEPT
            ![rf] = [@ EXCEPT !.type = "FD_PIPE", !.writable = FALSE, !.pipe = pi],
            ![wf] = [@ EXCEPT !.type = "FD_PIPE", !.writable = TRUE, !.pipe = pi]]
  /\ Goto(p, "fdalloc")
  /\ UNCHANGED <<ofile, loc, killed, chan>>

\* and sys_pipe() gives both files descriptors, or closes them when it has no
\* two descriptors or cannot store their numbers.
PipeFds(p) ==
  LET rf == loc[p].fs[1]  wf == loc[p].fs[2]
      fd0 == Min(FreeFds(p))  fd1 == Min(FreeFds(p) \ {fd0}) IN
  /\ pc[p] = "fdalloc"
  /\ \/ /\ Cardinality(FreeFds(p)) >= 2
        /\ ofile' = [ofile EXCEPT ![p][fd0] = rf, ![p][fd1] = wf]
        /\ CloseAll(p, <<>>)
     \/ CloseAll(p, loc[p].fs) /\ UNCHANGED ofile
  /\ UNCHANGED <<file, pipe, killed, chan>>

SysDup(p, d) ==
  LET f == ofile[p][d] IN
  /\ InUser(p) /\ f # Nobody /\ FreeFds(p) # {}
  /\ ofile' = [ofile EXCEPT ![p][Min(FreeFds(p))] = f]
  /\ IF file[f].ref < 1 THEN Goto(p, "panic") /\ UNCHANGED file
     ELSE file' = [file EXCEPT ![f].ref = @ + 1] /\ UNCHANGED pc
  /\ UNCHANGED <<pipe, killed, loc, chan>>

SysClose(p, d) ==
  /\ InUser(p) /\ ofile[p][d] # Nobody
  /\ ofile' = [ofile EXCEPT ![p][d] = Nobody]
  /\ CloseAll(p, <<ofile[p][d]>>)
  /\ UNCHANGED <<file, pipe, killed, chan>>

RefsOf(p, f) == Cardinality({d \in Fds : ofile[p][d] = f})

\* Seeded fault: fork() copies the descriptors without filedup().
ForkShares(p, q) ==
  /\ InUser(p) /\ pc[q] = "none"
  /\ ofile' = [ofile EXCEPT ![q] = ofile[p]]
  /\ killed' = [killed EXCEPT ![q] = FALSE]
  /\ Goto(q, "user")
  /\ UNCHANGED <<file, pipe, loc, chan>>

\* fork(): the child q gets every descriptor, with a filedup() each.
Fork(p, q) ==
  /\ InUser(p) /\ pc[q] = "none"
  /\ ofile' = [ofile EXCEPT ![q] = ofile[p]]
  /\ file' = [f \in FileIds |-> [file[f] EXCEPT !.ref = @ + RefsOf(p, f)]]
  /\ killed' = [killed EXCEPT ![q] = FALSE]
  /\ Goto(q, "user")
  /\ UNCHANGED <<pipe, loc, chan>>

\* exit(), by choice or killed, closes the descriptors in order.
Exit(p) ==
  LET open == {d \in Fds : ofile[p][d] # Nobody} IN
  /\ (pc[p] = "user" /\ p # Shell) \/ pc[p] = "exit"
  /\ IF open = {} THEN CloseThen(p, <<>>, "none") /\ UNCHANGED ofile
     ELSE /\ CloseThen(p, <<ofile[p][Min(open)]>>,
                       IF open = {Min(open)} THEN "none" ELSE "exit")
          /\ ofile' = [ofile EXCEPT ![p][Min(open)] = Nobody]
  /\ UNCHANGED <<file, pipe, killed, chan>>

\* kill() by some other process.
Kill(p) ==
  /\ pc[p] # "none" /\ p # Shell /\ ~killed[p]
  /\ killed' = [killed EXCEPT ![p] = TRUE]
  /\ Sleep(p, Nobody)
  /\ UNCHANGED <<file, ofile, pipe, pc, loc>>

-----------------------------------------------------------------------------
(* sys_read(), sys_write(), piperead(), pipewrite() *)

\* Files that are pipes, open the right way; other calls return or panic.
SysRead(p, d) ==
  LET f == ofile[p][d] IN
  /\ InUser(p) /\ f # Nobody /\ ~file[f].writable
  /\ Goto(p, IF file[f].type = "FD_PIPE" THEN "read" ELSE "panic")
  /\ Locals(p, [NoLoc EXCEPT !.pi = file[f].pipe, !.n = ReadSize])
  /\ UNCHANGED <<file, ofile, pipe, killed, chan>>

SysWrite(p, d) ==
  LET f == ofile[p][d] IN
  /\ InUser(p) /\ f # Nobody /\ file[f].writable
  /\ Goto(p, IF file[f].type = "FD_PIPE" THEN "write" ELSE "panic")
  /\ \E m \in Messages : Locals(p, [NoLoc EXCEPT !.pi = file[f].pipe, !.msg = m])
  /\ UNCHANGED <<file, ofile, pipe, killed, chan>>

Count(pi) == (pipe[pi].nwrite - pipe[pi].nread) % CounterMod

\* Seeded fault: the pipe counts as full one byte late.
FullLate(pi) == pipe[pi].nwrite = (pipe[pi].nread + PIPESIZE + 1) % CounterMod

Full(pi) == pipe[pi].nwrite = (pipe[pi].nread + PIPESIZE) % CounterMod
Empty(pi) == pipe[pi].nread = pipe[pi].nwrite

Locked(p) == pipe[loc[p].pi].lock \in {Nobody, p}
Release(pi) == pipe' = [pipe EXCEPT ![pi].lock = Nobody]
Return(p) == Goto(p, "user") /\ Locals(p, NoLoc)

\* Nothing to read and a writer left: killed, or about to sleep.
ReadWait(p) ==
  LET pi == loc[p].pi IN
  /\ At(p, "read") /\ Locked(p) /\ Empty(pi) /\ pipe[pi].writeopen
  /\ IF killed[p] THEN Return(p) /\ Release(pi)
     ELSE /\ Goto(p, "rsleep")
          /\ pipe' = [pipe EXCEPT ![pi].lock = p]
          /\ UNCHANGED loc
  /\ UNCHANGED <<file, ofile, killed, chan>>

ReadSleep(p) ==
  /\ pc[p] = "rsleep"
  /\ Sleep(p, <<"nread", loc[p].pi>>)
  /\ Goto(p, "read")
  /\ Release(loc[p].pi)
  /\ UNCHANGED <<file, ofile, killed, loc>>

\* The k bytes at the front of a pipe, and the pipe without them.  What was read
\* is not kept in data, since nobody looks at it again.
Oldest(pi, k) == [j \in 1 .. k |-> pipe[pi].data[(pipe[pi].nread + j - 1) % PIPESIZE]]
Consumed(pi, k) ==
  [pipe[pi] EXCEPT !.nread = (@ + k) % CounterMod, !.lock = Nobody,
     !.data = [x \in DOMAIN @ |-> IF \E j \in 1 .. k : x = (pipe[pi].nread + j - 1) % PIPESIZE
                                  THEN Nobody ELSE @[x]]]

\* The copy loop takes k bytes; when copyout() of the last one fails, that byte
\* is gone from the pipe and not counted.
ReadCopy(p) ==
  LET pi == loc[p].pi  max == Min({loc[p].n, Count(pi)}) IN
  /\ At(p, "read") /\ Locked(p) /\ ~(Empty(pi) /\ pipe[pi].writeopen)
  /\ \E k \in 0 .. max, lost \in {0, 1} :
       /\ IF lost = 0 THEN k = max ELSE k > 0
       /\ pipe' = [pipe EXCEPT ![pi] = Consumed(pi, k)]
       /\ Locals(p, [NoLoc EXCEPT !.msg = Oldest(pi, k - lost)])
  /\ Wakeup(<<"nwrite", pi>>)
  /\ Goto(p, "copied")
  /\ UNCHANGED <<file, ofile, killed>>

ReadReturn(p) ==
  /\ pc[p] = "copied"
  /\ Return(p)
  /\ UNCHANGED <<file, ofile, pipe, killed, chan>>

\* An iteration of pipewrite(): no reader or killed, full, or one more byte.
WriteFails(p) ==
  LET pi == loc[p].pi IN
  /\ At(p, "write") /\ Locked(p) /\ loc[p].i < Len(loc[p].msg)
  /\ ~pipe[pi].readopen \/ killed[p]
  /\ Return(p)
  /\ pipe' = [pipe EXCEPT ![pi].lock = Nobody,
                            ![pi].quiet = \E q \in Procs : chan[q] = <<"nread", pi>>]
  /\ UNCHANGED <<file, ofile, killed, chan>>

Writes(p) ==
  /\ At(p, "write") /\ Locked(p) /\ loc[p].i < Len(loc[p].msg)
  /\ pipe[loc[p].pi].readopen /\ ~killed[p]

\* Seeded fault: the writer sleeps without waking the reader.
WriteWaitSilent(p) ==
  LET pi == loc[p].pi IN
  /\ Writes(p) /\ Full(pi)
  /\ Goto(p, "wsleep")
  /\ pipe' = [pipe EXCEPT ![pi].lock = p]
  /\ UNCHANGED <<file, ofile, killed, loc, chan>>

WriteWait(p) ==
  LET pi == loc[p].pi IN
  /\ Writes(p) /\ Full(pi)
  /\ Wakeup(<<"nread", pi>>)
  /\ Goto(p, "wsleep")
  /\ pipe' = [pipe EXCEPT ![pi].lock = p, ![pi].quiet = FALSE]
  /\ UNCHANGED <<file, ofile, killed, loc>>

WriteSleep(p) ==
  /\ pc[p] = "wsleep"
  /\ Sleep(p, <<"nwrite", loc[p].pi>>)
  /\ Goto(p, "write")
  /\ Release(loc[p].pi)
  /\ UNCHANGED <<file, ofile, killed, loc>>

\* The pipe with one more byte, in the hands of p.
Produced(pi, x, p) ==
  [pipe[pi] EXCEPT !.data = [@ EXCEPT ![pipe[pi].nwrite % PIPESIZE] = x],
                   !.nwrite = (@ + 1) % CounterMod, !.lock = p]

WriteByte(p) ==
  LET pi == loc[p].pi  i == loc[p].i IN
  /\ Writes(p) /\ ~Full(pi)
  /\ pipe' = [pipe EXCEPT ![pi] = Produced(pi, loc[p].msg[i + 1], p)]
  /\ Locals(p, [loc[p] EXCEPT !.i = i + 1])
  /\ UNCHANGED <<file, ofile, killed, pc, chan>>

\* All of it is written, or copyin() of the next byte fails.
WriteDone(p) ==
  LET pi == loc[p].pi IN
  /\ At(p, "write") /\ Locked(p)
  /\ loc[p].i = Len(loc[p].msg) \/ (Writes(p) /\ ~Full(pi))
  /\ Wakeup(<<"nread", pi>>)
  /\ Return(p)
  /\ pipe' = [pipe EXCEPT ![pi].lock = Nobody, ![pi].quiet = FALSE]
  /\ UNCHANGED <<file, ofile, killed>>

-----------------------------------------------------------------------------
Process(p) ==
  \/ Fileclose(p) \/ Pipeclose(p)
  \/ SysPipe(p) \/ PipeallocSecond(p) \/ PipeallocBad(p) \/ PipeallocPage(p) \/ PipeFds(p)
  \/ \E d \in Fds : SysDup(p, d) \/ SysClose(p, d) \/ SysRead(p, d) \/ SysWrite(p, d)
  \/ \E q \in Procs : Fork(p, q)
  \/ Exit(p) \/ Kill(p)
  \/ ReadWait(p) \/ ReadSleep(p) \/ ReadCopy(p) \/ ReadReturn(p)
  \/ WriteFails(p) \/ WriteWait(p) \/ WriteSleep(p) \/ WriteByte(p) \/ WriteDone(p)

Next == \E p \in Procs : Process(p)

Spec == Init /\ [][Next]_vars

-----------------------------------------------------------------------------
\* The references to f: descriptors, and calls that still have to install it or to
\* close it.
Descriptors(f) == {x \in Procs \X Fds : ofile[x[1]][x[2]] = f}
Pending(f) == {p \in Procs : f \in Range(loc[p].fs)}

RefsCounted ==
  /\ \A p \in Procs : pc[p] # "panic" /\ IsInjective(loc[p].fs)
  /\ \A f \in FileIds : file[f].ref = Cardinality(Descriptors(f)) + Cardinality(Pending(f))

OpenEnds(pi) ==
  {file[f].writable : f \in {g \in FileIds : file[g].ref > 0 /\ file[g].type = "FD_PIPE"
                                             /\ file[g].pipe = pi}}
  \cup {loc[p].n = 1 : p \in {q \in Procs : pc[q] = "pipeclose" /\ loc[q].pi = pi}}

EndsMatch ==
  /\ \A pi \in Pages : /\ pipe[pi].writeopen <=> TRUE \in OpenEnds(pi)
                       /\ pipe[pi].readopen <=> FALSE \in OpenEnds(pi)
  /\ \A p \in Procs : /\ pc[p] \in {"read", "rsleep"} => pipe[loc[p].pi].readopen
                      /\ pc[p] \in {"write", "wsleep"} => pipe[loc[p].pi].writeopen

\* A file's ref counts exactly the descriptors of all processes and the calls in
\* progress that refer to it: none is freed early, none stays for ever, and no
\* call of filedup(), fileclose(), fileread() or filewrite() panics. An end of a
\* pipe is open exactly while a file refers to it or the fileclose() of the last
\* one is on its way to pipeclose(); so a pipe in use is not freed, and a read
\* sees end of file only when no descriptor can write any more.
RefsMatch == RefsCounted /\ EndsMatch

\* Nobody sleeps on a pipe that could serve it: a sleeping writer faces a full
\* pipe with a reader, a sleeping reader an empty pipe with a writer, unless a
\* writer was killed: pipewrite() then returns without its wakeup(), and the reader
\* sleeps until the next one.
NoStrandedSleeper ==
  \A p \in Procs : ~Awake(p) /\ pipe[loc[p].pi].lock = Nobody =>
    IF pc[p] = "write" THEN Full(loc[p].pi) /\ pipe[loc[p].pi].readopen
    ELSE \/ Empty(loc[p].pi) /\ pipe[loc[p].pi].writeopen
         \/ pipe[loc[p].pi].quiet
=============================================================================
