----------------------------- MODULE PipeProofs -----------------------------
(***************************************************************************)
(* The invariants of Files, for any number of processes, descriptors,      *)
(* files and pipes and any size of the pipes.  The steps that move no      *)
(* reference to a file keep them: those of piperead(), pipewrite() and     *)
(* pipeclose(); and no step strands anybody asleep on a pipe.              *)
(***************************************************************************)
EXTENDS Files, TLAPS

USE ZenonT(10), SMTT(60)

Byte == (UNION {Range(m) : m \in Messages}) \cup {Nobody}
FileType ==
  [ref : Nat, type : {"FD_NONE", "FD_PIPE"}, writable : BOOLEAN, pipe : Pages \cup {Nobody}]
PipeType ==
  [data : [0 .. PIPESIZE - 1 -> Byte], nread : 0 .. CounterMod - 1, nwrite : 0 .. CounterMod - 1,
   readopen : BOOLEAN, writeopen : BOOLEAN, lock : Procs \cup {Nobody}, quiet : BOOLEAN]
LocType ==
  [fs : Seq(FileIds), ret : {"user", "exit", "none"}, pi : Pages \cup {Nobody},
   msg : Seq(Byte), n : Nat, i : Nat]

Allocating == {"pipealloc", "kalloc", "fdalloc"}
Reading == {"read", "rsleep"}
Writing == {"write", "wsleep"}
Idle == {"user", "exit", "none"}
Labels == Idle \cup Allocating \cup Reading \cup Writing \cup {"close", "pipeclose", "copied"}

TypeOK ==
  /\ file \in [FileIds -> FileType]
  /\ ofile \in [Procs -> [Fds -> FileIds \cup {Nobody}]]
  /\ pipe \in [Pages -> PipeType]
  /\ killed \in [Procs -> BOOLEAN]
  /\ pc \in [Procs -> Labels]
  /\ loc \in [Procs -> LocType]
  /\ chan \in [Procs -> {Nobody} \cup ({"nread", "nwrite"} \X Pages)]

\* What a process at each label has in its locals; one that does not exist, or
\* that exit() has only the last file to close for, has no descriptor.
HasNone(p) == \A d \in Fds : ofile[p][d] = Nobody
LocalsOK(p) ==
  /\ pc[p] \in Idle => loc[p] = NoLoc
  /\ pc[p] \in Reading \cup Writing => loc[p].fs = <<>> /\ loc[p].pi \in Pages
  /\ pc[p] = "copied" => loc[p].fs = <<>>
  /\ pc[p] \in Allocating => loc[p].ret = "user"
  /\ pc[p] = "pipealloc" => Len(loc[p].fs) = 1
  /\ pc[p] \in {"kalloc", "fdalloc"} => Len(loc[p].fs) = 2
  /\ pc[p] = "close" => loc[p].fs # <<>>
  /\ pc[p] = "pipeclose" => loc[p].pi \in Pages /\ loc[p].n \in {0, 1}
  /\ pc[p] = "none" \/ loc[p].ret = "none" => HasNone(p)
  /\ IsInjective(loc[p].fs)
LocalsSound == \A p \in Procs : LocalsOK(p)

\* A file without references is free; the files of a pipealloc() have no other
\* reference, and get their pipe together; every descriptor leads to a pipe.
Lists(p, f) == f \in Range(loc[p].fs)
FilesSound ==
  /\ \A f \in FileIds : file[f].ref = 0 => file[f] = FreeFile
  /\ \A f \in FileIds : file[f].type = "FD_PIPE" => file[f].pipe \in Pages
  /\ \A p \in Procs, f \in FileIds : pc[p] \in Allocating /\ Lists(p, f) =>
       /\ file[f].ref = 1
       /\ file[f].type = "FD_PIPE" <=> pc[p] = "fdalloc"
  /\ \A p \in Procs, d \in Fds :
       ofile[p][d] # Nobody => file[ofile[p][d]].type = "FD_PIPE"

Counted ==
  \A f \in FileIds : file[f].ref = Cardinality(Descriptors(f)) + Cardinality(Pending(f))

\* What holds an end of a pipe open: a file, or a fileclose() that has freed the
\* file and not yet called pipeclose().  There is one of them, while it is open.
FileHolds(f, pi, w) == /\ file[f].type = "FD_PIPE" /\ file[f].pipe = pi
                       /\ file[f].writable <=> w
CloserHolds(p, pi, w) == /\ pc[p] = "pipeclose" /\ loc[p].pi = pi
                         /\ loc[p].n = 1 <=> w
Open(pi, w) == IF w THEN pipe[pi].writeopen ELSE pipe[pi].readopen
EndsSound ==
  \A pi \in Pages, w \in BOOLEAN :
    /\ \A f, g \in FileIds : FileHolds(f, pi, w) /\ FileHolds(g, pi, w) => f = g
    /\ \A p, q \in Procs : CloserHolds(p, pi, w) /\ CloserHolds(q, pi, w) => p = q
    /\ \A f \in FileIds, p \in Procs : ~(FileHolds(f, pi, w) /\ CloserHolds(p, pi, w))
    /\ Open(pi, w) <=> \/ \E f \in FileIds : FileHolds(f, pi, w)
                       \/ \E p \in Procs : CloserHolds(p, pi, w)

\* A call that reads or writes has a descriptor for that end.
HasEnd(p, w) ==
  \E d \in Fds : ofile[p][d] # Nobody /\ FileHolds(ofile[p][d], loc[p].pi, w)
CallOK(p) ==
  (pc[p] \in Reading => HasEnd(p, FALSE)) /\ (pc[p] \in Writing => HasEnd(p, TRUE))
CallsHold == \A p \in Procs : CallOK(p)

RefsInv == TypeOK /\ LocalsSound /\ FilesSound /\ Counted /\ EndsSound /\ CallsHold

\* Who holds pi->lock, and what those who sleep, or are about to, wait for.
WriterWaits(pi) == Full(pi) /\ pipe[pi].readopen
ReaderWaits(pi) ==
  \/ Empty(pi) /\ pipe[pi].writeopen
  \/ pipe[pi].quiet
  \/ pipe[pi].lock # Nobody /\ pc[pipe[pi].lock] = "write"
LockOK(pi) ==
  \A q \in Procs : pipe[pi].lock = q =>
    Awake(q) /\ loc[q].pi = pi /\ pc[q] \in {"rsleep", "wsleep", "write"}
SleepAt(p, pi) ==
  /\ pc[p] = "rsleep" => pipe[pi].lock = p /\ Empty(pi) /\ pipe[pi].writeopen
  /\ pc[p] = "wsleep" => pipe[pi].lock = p /\ WriterWaits(pi)
  /\ ~Awake(p) /\ pc[p] = "write" => chan[p] = <<"nwrite", pi>> /\ WriterWaits(pi)
  /\ ~Awake(p) /\ pc[p] = "read" => chan[p] = <<"nread", pi>> /\ ReaderWaits(pi)
SleepOK(p) ==
  /\ ~Awake(p) => pc[p] \in {"read", "write"}
  /\ \A pi \in Pages : loc[p].pi = pi => SleepAt(p, pi)
SleepInv == (\A pi \in Pages : LockOK(pi)) /\ (\A p \in Procs : SleepOK(p))

-----------------------------------------------------------------------------
(* What the steps are built from *)

\* The constants as sets of numbers; the first of a set of numbers is in the set.
LEMMA Sizes ==
  /\ PIPESIZE \in Nat /\ PIPESIZE > 0 /\ CounterMod \in Nat /\ CounterMod > PIPESIZE
  /\ FileIds \subseteq Nat /\ Fds \subseteq Nat /\ Nobody \notin FileIds
BY PipeAssumption, TableAssumption DEF FileIds, Fds

\* The records of a free file, of no pipe and of a call with nothing to do.
LEMMA EmptyRecords ==
  NoLoc \in LocType /\ FreeFile \in FileType /\ NoPipe \in PipeType
<1>1. NoLoc \in LocType
  BY DEF NoLoc, LocType
<1>2. FreeFile \in FileType
  BY DEF FreeFile, FileType
<1>3. NoPipe \in PipeType
  BY Sizes DEF NoPipe, PipeType, Byte
<1> QED
  BY <1>1, <1>2, <1>3

\* A step of p leaves the place, the locals and the descriptors of the others.
OnlyMoves(p) ==
  \A q \in Procs \ {p} : pc'[q] = pc[q] /\ loc'[q] = loc[q] /\ ofile'[q] = ofile[q]
Moved(p) == \A q \in Procs \ {p} : pc'[q] = pc[q] /\ loc'[q] = loc[q]

\* What CloseThen() leaves p with.
LEMMA Closes ==
  ASSUME TypeOK, NEW p \in Procs, NEW fs \in Seq(FileIds), NEW l \in Idle,
         CloseThen(p, fs, l)
  PROVE  /\ loc' \in [Procs -> LocType] /\ pc' \in [Procs -> Labels] /\ Moved(p)
         /\ loc'[p].fs = fs
         /\ \/ fs = <<>> /\ pc'[p] = l /\ loc'[p] = NoLoc
            \/ fs # <<>> /\ pc'[p] = "close" /\ loc'[p].ret = l
<1>1. PICK r \in LocType : /\ r = IF fs = <<>> THEN NoLoc ELSE [NoLoc EXCEPT !.fs = fs, !.ret = l]
                           /\ r.fs = fs /\ (fs # <<>> => r.ret = l)
  <2>1. NoLoc.fs = <<>>
    BY DEF NoLoc
  <2>2. CASE fs = <<>>
    BY <2>1, <2>2, EmptyRecords
  <2>3. CASE fs # <<>>
    <3>1. [NoLoc EXCEPT !.fs = fs, !.ret = l] \in LocType
      BY EmptyRecords DEF LocType, Idle
    <3>2. /\ [NoLoc EXCEPT !.fs = fs, !.ret = l].fs = fs
          /\ [NoLoc EXCEPT !.fs = fs, !.ret = l].ret = l
      BY DEF NoLoc
    <3> QED
      BY <2>3, <3>1, <3>2
  <2> QED
    BY <2>2, <2>3
<1>2. loc' = [loc EXCEPT ![p] = r]
  BY <1>1 DEF CloseThen, Locals
<1>3. pc' = [pc EXCEPT ![p] = IF fs = <<>> THEN l ELSE "close"]
  BY DEF CloseThen, Goto
<1>4. r.fs = fs /\ (fs = <<>> => r = NoLoc) /\ (fs # <<>> => r.ret = l)
  BY <1>1
<1>5. loc' \in [Procs -> LocType] /\ loc'[p] = r /\ \A q \in Procs \ {p} : loc'[q] = loc[q]
  BY <1>2 DEF TypeOK
<1>6. /\ pc' \in [Procs -> Labels] /\ pc'[p] = IF fs = <<>> THEN l ELSE "close"
      /\ \A q \in Procs \ {p} : pc'[q] = pc[q]
  BY <1>3 DEF TypeOK, Labels, Idle
<1> QED
  BY <1>4, <1>5, <1>6 DEF Moved

-----------------------------------------------------------------------------
(* Steps that move no reference *)

SameEnds == \A pi \in Pages, w \in BOOLEAN : Open(pi, w)' <=> Open(pi, w)

\* The conditions of the other processes do not depend on what p does.
LEMMA LocalsKept ==
  ASSUME LocalsSound, NEW p \in Procs, OnlyMoves(p), LocalsOK(p)'
  PROVE  LocalsSound'
<1>1. ASSUME NEW q \in Procs \ {p} PROVE LocalsOK(q)'
  BY SMTT(60) DEF LocalsSound, LocalsOK, HasNone, OnlyMoves
<1> QED
  BY <1>1 DEF LocalsSound

\* A call that ends, or has files left to close.
LEMMA LocalsEnd ==
  ASSUME NEW p \in Procs, pc'[p] \in Idle \cup {"close"}, pc'[p] \in Idle => loc'[p] = NoLoc,
         pc'[p] = "close" => loc'[p].fs # <<>>, IsInjective(loc'[p].fs),
         pc'[p] = "none" \/ loc'[p].ret = "none" => HasNone(p)'
  PROVE  LocalsOK(p)'
BY DEF LocalsOK, Idle, Reading, Writing, Allocating

LEMMA CallsKept ==
  ASSUME CallsHold, NEW p \in Procs, OnlyMoves(p), CallOK(p)',
         \A q \in Procs \ {p}, d \in Fds : ofile[q][d] # Nobody =>
           file'[ofile[q][d]] = file[ofile[q][d]]
  PROVE  CallsHold'
<1>1. ASSUME NEW q \in Procs \ {p}, NEW w \in BOOLEAN, HasEnd(q, w) PROVE HasEnd(q, w)'
  BY <1>1, SMTT(60) DEF HasEnd, FileHolds, OnlyMoves
<1>2. ASSUME NEW q \in Procs \ {p} PROVE CallOK(q)'
  BY <1>1 DEF CallsHold, CallOK, OnlyMoves
<1> QED
  BY <1>2 DEF CallsHold

\* No end changes hands when neither the files nor the closers change.
LEMMA EndsKept ==
  ASSUME EndsSound, SameEnds, NEW p \in Procs,
         \A f \in FileIds, pi \in Pages, w \in BOOLEAN :
           FileHolds(f, pi, w)' <=> FileHolds(f, pi, w),
         \A q \in Procs, pi \in Pages, w \in BOOLEAN :
           CloserHolds(q, pi, w)' <=> CloserHolds(q, pi, w)
  PROVE  EndsSound'
BY SMTT(60) DEF EndsSound, SameEnds

LEMMA Frame ==
  ASSUME RefsInv, NEW p \in Procs, UNCHANGED <<file, ofile>>, Moved(p),
         loc'[p].fs = loc[p].fs, pc[p] # "pipeclose",
         pc'[p] \notin Allocating \cup {"pipeclose"},
         SameEnds, LocalsOK(p)', CallOK(p)'
  PROVE  (LocalsSound /\ FilesSound /\ Counted /\ EndsSound /\ CallsHold)'
<1>1. OnlyMoves(p)
  BY DEF OnlyMoves, Moved
<1>2. LocalsSound'
  BY <1>1, LocalsKept DEF RefsInv
<1>3. \A q \in Procs, f \in FileIds : Lists(q, f)' <=> Lists(q, f)
  BY DEF Lists, Moved
<1>4. FilesSound'
  BY <1>3, SMTT(60) DEF RefsInv, FilesSound, Moved
<1>5. Counted'
  <2>1. ASSUME NEW f \in FileIds PROVE Pending(f)' = Pending(f) /\ Descriptors(f)' = Descriptors(f)
    BY <1>3 DEF Pending, Descriptors, Lists
  <2> QED
    BY <2>1 DEF RefsInv, Counted
<1>6. EndsSound'
  <2>1. \A f \in FileIds, pi \in Pages, w \in BOOLEAN : FileHolds(f, pi, w)' <=> FileHolds(f, pi, w)
    BY DEF FileHolds
  <2>2. \A q \in Procs, pi \in Pages, w \in BOOLEAN : CloserHolds(q, pi, w)' <=> CloserHolds(q, pi, w)
    BY DEF CloserHolds, Moved
  <2> QED
    BY <2>1, <2>2, EndsKept DEF RefsInv
<1>7. CallsHold'
  BY <1>1, CallsKept DEF RefsInv
<1> QED
  BY <1>2, <1>4, <1>5, <1>6, <1>7

-----------------------------------------------------------------------------
(* piperead() and pipewrite() *)

ChanType == [Procs -> {Nobody} \cup ({"nread", "nwrite"} \X Pages)]

LEMMA WakeupType ==
  ASSUME TypeOK, NEW c, Wakeup(c)
  PROVE  chan' \in ChanType
BY DEF TypeOK, ChanType, Wakeup, Woken

LEMMA SleepType ==
  ASSUME TypeOK, NEW p \in Procs, NEW c \in {"nread", "nwrite"}, NEW pi \in Pages,
         Sleep(p, <<c, pi>>)
  PROVE  chan' \in ChanType
BY DEF TypeOK, ChanType, Sleep

\* A pipe whose open ends stay as they are.
LEMMA PipeKept ==
  ASSUME TypeOK, NEW pi \in Pages, NEW r \in PipeType, pipe' = [pipe EXCEPT ![pi] = r],
         r.readopen = pipe[pi].readopen, r.writeopen = pipe[pi].writeopen
  PROVE  pipe' \in [Pages -> PipeType] /\ SameEnds
BY DEF TypeOK, SameEnds, Open

\* A call on a pipe, until it returns.
OnPipe(p) == pc[p] \in Reading \cup Writing \cup {"copied"}
Rest == /\ UNCHANGED <<file, ofile, killed>> /\ SameEnds
        /\ pipe' \in [Pages -> PipeType] /\ chan' \in ChanType

LEMMA ReturnStep ==
  ASSUME RefsInv, NEW p \in Procs, OnPipe(p), Return(p), Rest
  PROVE  RefsInv'
<1>1. pc' = [pc EXCEPT ![p] = "user"] /\ loc' = [loc EXCEPT ![p] = NoLoc]
  BY DEF Return, Goto, Locals
<1>2. TypeOK'
  BY <1>1, EmptyRecords DEF RefsInv, TypeOK, Rest, ChanType, Labels, Idle
<1>3. Moved(p) /\ pc'[p] = "user" /\ loc'[p] = NoLoc
  BY <1>1 DEF RefsInv, TypeOK, Moved
<1>4. loc[p].fs = <<>>
  BY DEF RefsInv, LocalsSound, LocalsOK, OnPipe
<1>5. LocalsOK(p)'
  BY <1>3 DEF LocalsOK, NoLoc, IsInjective, Idle, Reading, Writing, Allocating
<1>6. CallOK(p)'
  BY <1>3 DEF CallOK, Reading, Writing
<1>7. pc[p] # "pipeclose" /\ pc'[p] \notin Allocating \cup {"pipeclose"}
  BY <1>3 DEF OnPipe, Reading, Writing, Allocating
<1>8. loc'[p].fs = loc[p].fs
  BY <1>3, <1>4 DEF NoLoc
<1>9. (LocalsSound /\ FilesSound /\ Counted /\ EndsSound /\ CallsHold)'
  BY <1>3, <1>5, <1>6, <1>7, <1>8, Frame DEF Rest
<1> QED
  BY <1>2, <1>9 DEF RefsInv

\* A call on a pipe that goes on, with the same pipe.
LEMMA StayStep ==
  ASSUME RefsInv, NEW p \in Procs, NEW l, NEW r \in LocType, Goto(p, l),
         loc' = [loc EXCEPT ![p] = r], r.fs = loc[p].fs, r.pi = loc[p].pi, r.ret = loc[p].ret,
         \/ pc[p] \in Reading /\ l \in Reading
         \/ pc[p] \in Writing /\ l \in Writing,
         Rest
  PROVE  RefsInv'
<1>1. pc' = [pc EXCEPT ![p] = l]
  BY DEF Goto
<1>2. TypeOK'
  BY <1>1 DEF RefsInv, TypeOK, Rest, ChanType, Labels
<1>3. Moved(p) /\ pc'[p] = l /\ loc'[p] = r
  BY <1>1 DEF RefsInv, TypeOK, Moved
<1>4. LocalsOK(p)
  BY DEF RefsInv, LocalsSound
<1>5. LocalsOK(p)'
  BY <1>3, <1>4 DEF LocalsOK, HasNone, Rest, Idle, Reading, Writing, Allocating
<1>6. CallOK(p)'
  <2>1. CallOK(p)
    BY DEF RefsInv, CallsHold
  <2>2. \A w \in BOOLEAN : HasEnd(p, w) => HasEnd(p, w)'
    BY <1>3 DEF HasEnd, FileHolds, Rest
  <2> QED
    BY <1>3, <2>1, <2>2 DEF CallOK, Reading, Writing
<1>7. pc[p] # "pipeclose" /\ pc'[p] \notin Allocating \cup {"pipeclose"}
  BY <1>3 DEF Reading, Writing, Allocating
<1>8. (LocalsSound /\ FilesSound /\ Counted /\ EndsSound /\ CallsHold)'
  BY <1>3, <1>5, <1>6, <1>7, Frame DEF Rest
<1> QED
  BY <1>2, <1>8 DEF RefsInv

LEMMA OnPipeHas ==
  ASSUME RefsInv, NEW p \in Procs, pc[p] \in Reading \cup Writing
  PROVE  loc[p].pi \in Pages /\ loc[p] \in LocType /\ pipe[loc[p].pi] \in PipeType
BY DEF RefsInv, LocalsSound, LocalsOK, TypeOK

\* pi->lock is taken or released, and nothing else of the pipe changes.
LEMMA LockStep ==
  ASSUME TypeOK, NEW pi \in Pages, NEW x \in Procs \cup {Nobody}, NEW b \in BOOLEAN,
         \/ pipe' = [pipe EXCEPT ![pi].lock = x]
         \/ pipe' = [pipe EXCEPT ![pi].lock = x, ![pi].quiet = b]
  PROVE  pipe' \in [Pages -> PipeType] /\ SameEnds
<1>0. pipe[pi] \in PipeType
  BY DEF TypeOK
<1>1. CASE pipe' = [pipe EXCEPT ![pi].lock = x]
  <2> DEFINE r == [pipe[pi] EXCEPT !.lock = x]
  <2>1. r \in PipeType /\ r.readopen = pipe[pi].readopen /\ r.writeopen = pipe[pi].writeopen
    BY <1>0 DEF PipeType
  <2>2. pipe' = [pipe EXCEPT ![pi] = r]
    BY <1>1 DEF TypeOK
  <2> HIDE DEF r
  <2> QED
    BY <2>1, <2>2, PipeKept
<1>2. CASE pipe' = [pipe EXCEPT ![pi].lock = x, ![pi].quiet = b]
  <2> DEFINE r == [pipe[pi] EXCEPT !.lock = x, !.quiet = b]
  <2>1. r \in PipeType /\ r.readopen = pipe[pi].readopen /\ r.writeopen = pipe[pi].writeopen
    BY <1>0 DEF PipeType
  <2>2. pipe' = [pipe EXCEPT ![pi] = r]
    BY <1>2 DEF TypeOK
  <2> HIDE DEF r
  <2> QED
    BY <2>1, <2>2, PipeKept
<1> QED
  BY <1>1, <1>2

LEMMA ReadWaitStep ==
  ASSUME RefsInv, NEW p \in Procs, ReadWait(p)
  PROVE  RefsInv'
<1> DEFINE pi == loc[p].pi
<1>1. TypeOK /\ pc[p] \in Reading /\ pi \in Pages /\ loc[p] \in LocType
  BY OnPipeHas DEF ReadWait, At, Reading, RefsInv
<1>2. UNCHANGED <<file, ofile, killed, chan>>
  BY DEF ReadWait
<1>3. chan' \in ChanType
  BY <1>1, <1>2 DEF TypeOK, ChanType
<1>4. CASE killed[p]
  <2>1. Return(p) /\ pipe' = [pipe EXCEPT ![pi].lock = Nobody]
    BY <1>4 DEF ReadWait, Release
  <2>2. pipe' \in [Pages -> PipeType] /\ SameEnds
    BY <1>1, <2>1, LockStep
  <2> QED
    BY <1>1, <1>2, <1>3, <2>1, <2>2, ReturnStep DEF Rest, OnPipe
<1>5. CASE ~killed[p]
  <2>1. Goto(p, "rsleep") /\ loc' = loc /\ pipe' = [pipe EXCEPT ![pi].lock = p]
    BY <1>5 DEF ReadWait
  <2>2. pipe' \in [Pages -> PipeType] /\ SameEnds
    BY <1>1, <2>1, LockStep
  <2>3. loc' = [loc EXCEPT ![p] = loc[p]]
    BY <1>1, <2>1 DEF TypeOK
  <2>4. Rest
    BY <1>2, <1>3, <2>2 DEF Rest
  <2> QED
    BY <1>1, <2>1, <2>3, <2>4, StayStep DEF Reading
<1> QED
  BY <1>4, <1>5

LEMMA SleepSteps ==
  ASSUME RefsInv, NEW p \in Procs, ReadSleep(p) \/ WriteSleep(p)
  PROVE  RefsInv'
<1> DEFINE pi == loc[p].pi
<1>1. TypeOK /\ pc[p] \in {"rsleep", "wsleep"} /\ pi \in Pages /\ loc[p] \in LocType
  BY OnPipeHas DEF ReadSleep, WriteSleep, Reading, Writing, RefsInv
<1>2. UNCHANGED <<file, ofile, killed>> /\ loc' = loc /\ pipe' = [pipe EXCEPT ![pi].lock = Nobody]
  BY DEF ReadSleep, WriteSleep, Release
<1>3. pipe' \in [Pages -> PipeType] /\ SameEnds
  BY <1>1, <1>2, LockStep
<1>4. chan' \in ChanType
  BY <1>1, SleepType DEF ReadSleep, WriteSleep
<1>5. loc' = [loc EXCEPT ![p] = loc[p]]
  BY <1>1, <1>2 DEF TypeOK
<1>6. Rest
  BY <1>2, <1>3, <1>4 DEF Rest
<1>7. \/ pc[p] \in Reading /\ Goto(p, "read")
      \/ pc[p] \in Writing /\ Goto(p, "write")
  BY DEF ReadSleep, WriteSleep, Reading, Writing
<1> QED
  BY <1>1, <1>5, <1>6, <1>7, StayStep DEF Reading, Writing

\* The bytes a read takes, and the pipe without them.
LEMMA CountRange ==
  ASSUME TypeOK, NEW pi \in Pages
  PROVE  Count(pi) \in 0 .. CounterMod - 1
<1>1. pipe[pi].nwrite \in Int /\ pipe[pi].nread \in Int
  BY SMTT(60) DEF TypeOK, PipeType
<1> QED
  BY <1>1, Sizes DEF Count

LEMMA SlotIn ==
  ASSUME NEW x \in Int
  PROVE  x % PIPESIZE \in 0 .. PIPESIZE - 1 /\ x % CounterMod \in 0 .. CounterMod - 1
BY Sizes

LEMMA OldestType ==
  ASSUME TypeOK, NEW pi \in Pages, NEW k \in Nat
  PROVE  Oldest(pi, k) \in Seq(Byte)
<1>1. pipe[pi].nread \in Int /\ pipe[pi].data \in [0 .. PIPESIZE - 1 -> Byte]
  BY SMTT(60) DEF TypeOK, PipeType
<1>2. ASSUME NEW j \in 1 .. k PROVE pipe[pi].data[(pipe[pi].nread + j - 1) % PIPESIZE] \in Byte
  <2>1. PICK x \in Int : x = pipe[pi].nread + j - 1
    BY <1>1
  <2>2. x % PIPESIZE \in 0 .. PIPESIZE - 1
    BY SlotIn
  <2> QED
    BY <1>1, <2>1, <2>2
<1>3. Oldest(pi, k) \in [1 .. k -> Byte]
  BY <1>2 DEF Oldest
<1> QED
  BY <1>3

LEMMA ConsumedType ==
  ASSUME TypeOK, NEW pi \in Pages, NEW k \in Nat
  PROVE  /\ Consumed(pi, k) \in PipeType
         /\ Consumed(pi, k).readopen = pipe[pi].readopen
         /\ Consumed(pi, k).writeopen = pipe[pi].writeopen
         /\ Consumed(pi, k).lock = Nobody /\ Consumed(pi, k).quiet = pipe[pi].quiet
<1>1. pipe[pi] \in PipeType
  BY DEF TypeOK
<1>2. (pipe[pi].nread + k) % CounterMod \in 0 .. CounterMod - 1
  <2>1. PICK x \in Int : x = pipe[pi].nread + k
    BY <1>1, SMTT(60) DEF PipeType
  <2>2. x % CounterMod \in 0 .. CounterMod - 1
    BY SlotIn
  <2> QED
    BY <2>1, <2>2
<1> DEFINE dat == [x \in DOMAIN pipe[pi].data |->
                     IF \E j \in 1 .. k : x = (pipe[pi].nread + j - 1) % PIPESIZE
                     THEN Nobody ELSE pipe[pi].data[x]]
<1>3. dat \in [0 .. PIPESIZE - 1 -> Byte]
  BY <1>1 DEF PipeType, Byte
<1>4. Consumed(pi, k) = [pipe[pi] EXCEPT !.nread = (pipe[pi].nread + k) % CounterMod,
                                         !.lock = Nobody, !.data = dat]
  BY <1>1 DEF Consumed, PipeType
<1> HIDE DEF dat
<1> QED
  BY <1>1, <1>2, <1>3, <1>4 DEF PipeType

\* How much a read takes, and how much of it reaches the caller.
LEMMA ReadCopyTakes ==
  ASSUME RefsInv, NEW p \in Procs, ReadCopy(p)
  PROVE  LET pi == loc[p].pi IN
         \E k \in Nat, m \in Nat :
           /\ k <= Count(pi) /\ m \in {k, k - 1} /\ (k = 0 => Count(pi) = 0 \/ loc[p].n = 0)
           /\ pipe' = [pipe EXCEPT ![pi] = Consumed(pi, k)]
           /\ loc' = [loc EXCEPT ![p] = [NoLoc EXCEPT !.msg = Oldest(pi, m)]]
<1> DEFINE pi == loc[p].pi
           max == Min({loc[p].n, Count(pi)})
<1>1. loc[p].n \in Nat /\ Count(pi) \in Nat
  BY OnPipeHas, CountRange, Sizes, SMTT(60) DEF ReadCopy, At, Reading, RefsInv, LocType
<1>2. max \in Nat /\ max <= Count(pi) /\ max \in {loc[p].n, Count(pi)}
  <2>1. \E x \in {loc[p].n, Count(pi)} : \A y \in {loc[p].n, Count(pi)} : x =< y
    BY <1>1, SMTT(60)
  <2>2. max \in {loc[p].n, Count(pi)} /\ \A y \in {loc[p].n, Count(pi)} : max <= y
    BY <2>1 DEF Min
  <2> QED
    BY <1>1, <2>2
<1>3. PICK k \in 0 .. max, lost \in {0, 1} :
        /\ IF lost = 0 THEN k = max ELSE k > 0
        /\ pipe' = [pipe EXCEPT ![pi] = Consumed(pi, k)]
        /\ loc' = [loc EXCEPT ![p] = [NoLoc EXCEPT !.msg = Oldest(pi, k - lost)]]
  BY DEF ReadCopy, Locals
<1> HIDE DEF max
<1>4. k \in Nat /\ k - lost \in Nat /\ k <= Count(pi) /\ k - lost \in {k, k - 1}
  BY <1>1, <1>2, <1>3
<1>5. k = 0 => Count(pi) = 0 \/ loc[p].n = 0
  BY <1>1, <1>2, <1>3
<1> QED
  BY <1>3, <1>4, <1>5

LEMMA ReadCopyStep ==
  ASSUME RefsInv, NEW p \in Procs, ReadCopy(p)
  PROVE  RefsInv'
<1> DEFINE pi == loc[p].pi
<1>1. TypeOK /\ pc[p] = "read" /\ pi \in Pages /\ loc[p] \in LocType
  BY OnPipeHas DEF ReadCopy, At, Reading, RefsInv
<1>2. PICK k \in Nat, m \in Nat : /\ pipe' = [pipe EXCEPT ![pi] = Consumed(pi, k)]
                                  /\ loc' = [loc EXCEPT ![p] = [NoLoc EXCEPT !.msg = Oldest(pi, m)]]
  BY ReadCopyTakes, SMTT(60)
<1>3. UNCHANGED <<file, ofile, killed>> /\ Wakeup(<<"nwrite", pi>>) /\ Goto(p, "copied")
  BY DEF ReadCopy
<1>4. PICK r \in LocType : r = [NoLoc EXCEPT !.msg = Oldest(pi, m)] /\ r.fs = <<>> /\ r.ret = "user"
  <2>1. PICK x \in Seq(Byte) : x = Oldest(pi, m)
    BY <1>1, OldestType
  <2>2. [NoLoc EXCEPT !.msg = x] \in LocType
    BY EmptyRecords DEF LocType
  <2>3. [NoLoc EXCEPT !.msg = x].fs = <<>> /\ [NoLoc EXCEPT !.msg = x].ret = "user"
    BY DEF NoLoc
  <2> QED
    BY <2>1, <2>2, <2>3
<1>5. pipe' \in [Pages -> PipeType] /\ SameEnds
  BY <1>1, <1>2, ConsumedType, PipeKept
<1>6. chan' \in ChanType
  BY <1>1, <1>3, WakeupType
<1>7. pc' = [pc EXCEPT ![p] = "copied"] /\ loc' = [loc EXCEPT ![p] = r]
  BY <1>2, <1>3, <1>4 DEF Goto
<1>8. TypeOK'
  BY <1>1, <1>3, <1>5, <1>6, <1>7 DEF TypeOK, ChanType, Labels
<1>9. Moved(p) /\ pc'[p] = "copied" /\ loc'[p] = r
  BY <1>1, <1>7 DEF TypeOK, Moved
<1>10. LocalsOK(p)'
  BY <1>4, <1>9, SMTT(60) DEF LocalsOK, IsInjective, Idle, Reading, Writing, Allocating
<1>11. CallOK(p)' /\ pc[p] # "pipeclose" /\ pc'[p] \notin Allocating \cup {"pipeclose"}
  BY <1>1, <1>9 DEF CallOK, Reading, Writing, Allocating
<1>12. loc'[p].fs = loc[p].fs
  BY <1>1, <1>4, <1>9 DEF RefsInv, LocalsSound, LocalsOK, Reading
<1>13. (LocalsSound /\ FilesSound /\ Counted /\ EndsSound /\ CallsHold)'
  BY <1>3, <1>5, <1>9, <1>10, <1>11, <1>12, Frame
<1> QED
  BY <1>8, <1>13 DEF RefsInv

LEMMA ReadReturnStep ==
  ASSUME RefsInv, NEW p \in Procs, ReadReturn(p)
  PROVE  RefsInv'
<1>1. OnPipe(p) /\ Return(p) /\ UNCHANGED <<file, ofile, pipe, killed, chan>>
  BY DEF ReadReturn, OnPipe
<1>2. Rest
  BY <1>1 DEF Rest, SameEnds, Open, RefsInv, TypeOK, ChanType
<1> QED
  BY <1>1, <1>2, ReturnStep

LEMMA WriteReturns ==
  ASSUME RefsInv, NEW p \in Procs, WriteFails(p) \/ WriteDone(p)
  PROVE  RefsInv'
<1> DEFINE pi == loc[p].pi
<1>1. TypeOK /\ pc[p] \in Writing /\ pi \in Pages
  BY OnPipeHas DEF WriteFails, WriteDone, At, Writing, RefsInv
<1>2. Return(p) /\ UNCHANGED <<file, ofile, killed>>
  BY DEF WriteFails, WriteDone
<1>3. PICK b \in BOOLEAN : pipe' = [pipe EXCEPT ![pi].lock = Nobody, ![pi].quiet = b]
  BY DEF WriteFails, WriteDone
<1>4. pipe' \in [Pages -> PipeType] /\ SameEnds
  BY <1>1, <1>3, LockStep
<1>5. chan' \in ChanType
  <2>1. CASE WriteFails(p)
    BY <1>1, <2>1 DEF WriteFails, TypeOK, ChanType
  <2>2. CASE WriteDone(p)
    BY <1>1, <2>2, WakeupType DEF WriteDone
  <2> QED
    BY <2>1, <2>2
<1>6. Rest /\ OnPipe(p)
  BY <1>1, <1>2, <1>4, <1>5 DEF Rest, OnPipe
<1> QED
  BY <1>2, <1>6, ReturnStep

LEMMA WriteWaitStep ==
  ASSUME RefsInv, NEW p \in Procs, WriteWait(p)
  PROVE  RefsInv'
<1> DEFINE pi == loc[p].pi
<1>1. TypeOK /\ pc[p] \in Writing /\ pi \in Pages /\ loc[p] \in LocType
  BY OnPipeHas DEF WriteWait, Writes, At, Writing, RefsInv
<1>2. /\ Goto(p, "wsleep") /\ UNCHANGED <<file, ofile, killed>> /\ loc' = loc
      /\ pipe' = [pipe EXCEPT ![pi].lock = p, ![pi].quiet = FALSE]
  BY DEF WriteWait
<1>3. pipe' \in [Pages -> PipeType] /\ SameEnds
  BY <1>1, <1>2, LockStep
<1>4. chan' \in ChanType
  BY <1>1, WakeupType DEF WriteWait
<1>5. loc' = [loc EXCEPT ![p] = loc[p]]
  BY <1>1, <1>2 DEF TypeOK
<1>6. Rest
  BY <1>2, <1>3, <1>4 DEF Rest
<1> QED
  BY <1>1, <1>2, <1>5, <1>6, StayStep DEF Writing

LEMMA WriteByteStep ==
  ASSUME RefsInv, NEW p \in Procs, WriteByte(p)
  PROVE  RefsInv'
<1> DEFINE pi == loc[p].pi
           i == loc[p].i
           bt == loc[p].msg[i + 1]
<1>1. /\ TypeOK /\ pc[p] = "write" /\ pi \in Pages /\ loc[p] \in LocType /\ pipe[pi] \in PipeType
      /\ i < Len(loc[p].msg)
  BY OnPipeHas DEF WriteByte, Writes, At, Writing, RefsInv
<1>2. bt \in Byte /\ i \in Nat
  BY <1>1, SMTT(60) DEF LocType
<1>3. pipe[pi].nwrite % PIPESIZE \in 0 .. PIPESIZE - 1
  <2>1. PICK x \in Int : x = pipe[pi].nwrite
    BY <1>1, SMTT(60) DEF PipeType
  <2> QED
    BY <2>1, SlotIn
<1>4. (pipe[pi].nwrite + 1) % CounterMod \in 0 .. CounterMod - 1
  <2>1. PICK x \in Int : x = pipe[pi].nwrite + 1
    BY <1>1, SMTT(60) DEF PipeType
  <2> QED
    BY <2>1, SlotIn
<1> DEFINE r == [pipe[pi] EXCEPT !.data = [pipe[pi].data EXCEPT ![pipe[pi].nwrite % PIPESIZE] = bt],
                                 !.nwrite = (pipe[pi].nwrite + 1) % CounterMod, !.lock = p]
<1>5. pipe' = [pipe EXCEPT ![pi] = r]
  BY DEF WriteByte, Produced
<1>6. r \in PipeType /\ r.readopen = pipe[pi].readopen /\ r.writeopen = pipe[pi].writeopen
  <2>1. [pipe[pi].data EXCEPT ![pipe[pi].nwrite % PIPESIZE] = bt] \in [0 .. PIPESIZE - 1 -> Byte]
    BY <1>1, <1>2, <1>3 DEF PipeType
  <2> HIDE DEF bt
  <2> QED
    BY <1>1, <1>4, <2>1 DEF PipeType
<1>7. pipe' \in [Pages -> PipeType] /\ SameEnds
  <2> HIDE DEF r
  <2> QED
    BY <1>1, <1>5, <1>6, PipeKept
<1>8. Rest
  BY <1>1, <1>7 DEF WriteByte, Rest, TypeOK, ChanType
<1>9. pc' = [pc EXCEPT ![p] = "write"]
  BY <1>1 DEF WriteByte, TypeOK
<1> DEFINE s == [loc[p] EXCEPT !.i = i + 1]
<1>10. /\ loc' = [loc EXCEPT ![p] = s] /\ s \in LocType
       /\ s.fs = loc[p].fs /\ s.pi = loc[p].pi /\ s.ret = loc[p].ret
  BY <1>1, <1>2, SMTT(60) DEF WriteByte, Locals, LocType
<1> HIDE DEF s
<1> QED
  BY <1>1, <1>8, <1>9, <1>10, StayStep DEF Writing, Goto

LEMMA KillStep ==
  ASSUME RefsInv, NEW p \in Procs, Kill(p)
  PROVE  RefsInv'
<1>1. UNCHANGED <<file, ofile, pipe, pc, loc>>
  BY DEF Kill
<1>2. TypeOK'
  BY <1>1 DEF RefsInv, TypeOK, Kill, Sleep
<1>3. (LocalsSound /\ FilesSound)'
  BY <1>1, ZenonT(60) DEF RefsInv, LocalsSound, LocalsOK, HasNone, FilesSound, Lists
<1>4. Counted'
  BY <1>1 DEF RefsInv, Counted, Descriptors, Pending
<1>5. EndsSound'
  BY <1>1, SMTT(60) DEF RefsInv, EndsSound, FileHolds, CloserHolds, Open
<1>6. CallsHold'
  BY <1>1 DEF RefsInv, CallsHold, CallOK, HasEnd, FileHolds
<1> QED
  BY <1>2, <1>3, <1>4, <1>5, <1>6 DEF RefsInv

-----------------------------------------------------------------------------
(* Calls that fail, and closing *)

\* A call that gives up closes the files it has, and exit() ends.
LEMMA GiveUp ==
  ASSUME RefsInv, NEW p \in Procs, pc[p] \in Allocating \cup {"user", "exit"}, NEW l \in Idle,
         CloseThen(p, loc[p].fs, l), l = "none" => HasNone(p),
         UNCHANGED <<file, ofile, pipe, killed, chan>>
  PROVE  RefsInv'
<1>0. TypeOK /\ loc[p].fs \in Seq(FileIds) /\ LocalsOK(p)
  BY DEF RefsInv, TypeOK, LocType, LocalsSound
<1>1. /\ loc' \in [Procs -> LocType] /\ pc' \in [Procs -> Labels] /\ Moved(p)
      /\ loc'[p].fs = loc[p].fs
      /\ \/ loc[p].fs = <<>> /\ pc'[p] = l /\ loc'[p] = NoLoc
         \/ loc[p].fs # <<>> /\ pc'[p] = "close" /\ loc'[p].ret = l
  BY <1>0, Closes
<1>2. TypeOK'
  BY <1>0, <1>1 DEF TypeOK
<1>3. LocalsOK(p)'
  BY <1>0, <1>1, SMTT(60) DEF LocalsOK, HasNone, Idle, Reading, Writing, Allocating, NoLoc
<1>4. /\ CallOK(p)' /\ SameEnds /\ pc[p] # "pipeclose"
      /\ pc'[p] \notin Allocating \cup {"pipeclose"}
  BY <1>1 DEF CallOK, SameEnds, Open, Reading, Writing, Allocating, Idle
<1>5. (LocalsSound /\ FilesSound /\ Counted /\ EndsSound /\ CallsHold)'
  BY <1>1, <1>3, <1>4, Frame
<1> QED
  BY <1>2, <1>5 DEF RefsInv

\* The lists of files of a call.
LEMMA ListOps ==
  /\ Range(<<>>) = {} /\ IsInjective(<<>>)
  /\ \A f : Range(<<f>>) = {f} /\ IsInjective(<<f>>)
<1>1. Range(<<>>) = {} /\ IsInjective(<<>>)
  BY DEF Range, IsInjective
<1>2. ASSUME NEW f PROVE Range(<<f>>) = {f} /\ IsInjective(<<f>>)
  BY DEF Range, IsInjective
<1> QED
  BY <1>1, <1>2

LEMMA ListAppend ==
  ASSUME NEW S, NEW s \in Seq(S), NEW f \in S
  PROVE  /\ Append(s, f) \in Seq(S) /\ Range(Append(s, f)) = Range(s) \cup {f}
         /\ IsInjective(s) /\ f \notin Range(s) => IsInjective(Append(s, f))
<1>1. /\ Append(s, f) \in Seq(S) /\ Len(Append(s, f)) = Len(s) + 1 /\ Len(s) \in Nat
      /\ \A k \in 1 .. Len(s) : Append(s, f)[k] = s[k]
      /\ Append(s, f)[Len(s) + 1] = f
      /\ DOMAIN s = 1 .. Len(s) /\ DOMAIN Append(s, f) = 1 .. Len(s) + 1
  OBVIOUS
<1>2. Range(Append(s, f)) = Range(s) \cup {f}
  <2>1. ASSUME NEW x \in Range(Append(s, f)) PROVE x \in Range(s) \cup {f}
    BY <1>1, <2>1, SMTT(60) DEF Range
  <2>2. ASSUME NEW x \in Range(s) \cup {f} PROVE x \in Range(Append(s, f))
    <3>1. CASE x = f
      BY <1>1, <3>1, SMTT(60) DEF Range
    <3>2. CASE x \in Range(s)
      <4>1. PICK k \in 1 .. Len(s) : x = s[k]
        BY <1>1, <3>2 DEF Range
      <4>2. k \in 1 .. Len(s) + 1 /\ Append(s, f)[k] = x
        BY <1>1, <4>1
      <4> QED
        BY <1>1, <4>2 DEF Range
    <3> QED
      BY <3>1, <3>2
  <2> QED
    BY <2>1, <2>2
<1>3. ASSUME IsInjective(s), f \notin Range(s) PROVE IsInjective(Append(s, f))
  <2>1. \A k \in 1 .. Len(s) : s[k] # f
    BY <1>1, <1>3 DEF Range
  <2> QED
    BY <1>1, <1>3, <2>1, SMTT(60) DEF IsInjective
<1> QED
  BY <1>1, <1>2, <1>3

LEMMA ListTail ==
  ASSUME NEW S, NEW s \in Seq(S), s # <<>>, IsInjective(s)
  PROVE  /\ Head(s) \in S /\ Head(s) \in Range(s) /\ Tail(s) \in Seq(S)
         /\ Range(Tail(s)) = Range(s) \ {Head(s)} /\ IsInjective(Tail(s))
<1>1. /\ Head(s) = s[1] /\ Tail(s) \in Seq(S) /\ Len(s) \in Nat /\ Len(s) >= 1
      /\ Len(Tail(s)) = Len(s) - 1
      /\ \A k \in 1 .. Len(s) - 1 : Tail(s)[k] = s[k + 1]
      /\ DOMAIN s = 1 .. Len(s) /\ DOMAIN Tail(s) = 1 .. Len(s) - 1
  OBVIOUS
<1>2. \A k \in 1 .. Len(s) - 1 : k + 1 \in 1 .. Len(s) /\ k + 1 # 1 /\ s[k + 1] # s[1]
  BY <1>1, SMTT(60) DEF IsInjective
<1>3. Range(Tail(s)) = Range(s) \ {Head(s)}
  <2>1. ASSUME NEW x \in Range(Tail(s)) PROVE x \in Range(s) \ {Head(s)}
    BY <1>1, <1>2, <2>1, ZenonT(60) DEF Range
  <2>2. ASSUME NEW x \in Range(s) \ {Head(s)} PROVE x \in Range(Tail(s))
    <3>1. PICK k \in 1 .. Len(s) : x = s[k] /\ k # 1
      BY <1>1, <2>2 DEF Range
    <3>2. k - 1 \in 1 .. Len(s) - 1 /\ Tail(s)[k - 1] = x
      BY <1>1, <3>1, SMTT(60)
    <3> QED
      BY <1>1, <3>2 DEF Range
  <2> QED
    BY <2>1, <2>2
<1>4. IsInjective(Tail(s))
  <2>1. ASSUME NEW a \in 1 .. Len(s) - 1, NEW b \in 1 .. Len(s) - 1, Tail(s)[a] = Tail(s)[b]
        PROVE  a = b
    <3>1. s[a + 1] = s[b + 1] /\ a + 1 \in 1 .. Len(s) /\ b + 1 \in 1 .. Len(s)
      BY <1>1, <2>1
    <3>2. a + 1 = b + 1
      BY <1>1, <3>1 DEF IsInjective
    <3> QED
      BY <3>2
  <2> QED
    BY <1>1, <2>1 DEF IsInjective
<1>5. Head(s) \in S /\ Head(s) \in Range(s)
  BY <1>1 DEF Range
<1> QED
  BY <1>1, <1>3, <1>4, <1>5

LEMMA PipeallocBadStep ==
  ASSUME RefsInv, NEW p \in Procs, PipeallocBad(p)
  PROVE  RefsInv'
<1>1. pc[p] \in Allocating /\ loc[p].ret = "user"
  BY DEF PipeallocBad, RefsInv, LocalsSound, LocalsOK, Allocating
<1>2. CloseThen(p, loc[p].fs, "user") /\ UNCHANGED <<file, ofile, pipe, killed, chan>>
  BY <1>1 DEF PipeallocBad, CloseAll
<1> QED
  BY <1>1, <1>2, GiveUp DEF Idle

-----------------------------------------------------------------------------
(* fileclose() and pipeclose() *)

\* A step that changes nothing of f but the number of its references.
SameFile(f) ==
  /\ file'[f].type = file[f].type /\ file'[f].writable = file[f].writable
  /\ file'[f].pipe = file[f].pipe

\* The calls of the others keep their ends when the files they have stay as they are.
LEMMA CallsStill ==
  ASSUME CallsHold, NEW p \in Procs, OnlyMoves(p), CallOK(p)',
         \A q \in Procs \ {p}, d \in Fds : ofile[q][d] # Nobody => SameFile(ofile[q][d])
  PROVE  CallsHold'
<1>1. ASSUME NEW q \in Procs \ {p}, NEW w \in BOOLEAN, HasEnd(q, w) PROVE HasEnd(q, w)'
  BY <1>1, SMTT(60) DEF HasEnd, FileHolds, OnlyMoves, SameFile
<1>2. ASSUME NEW q \in Procs \ {p} PROVE CallOK(q)'
  BY <1>1 DEF CallsHold, CallOK, OnlyMoves
<1> QED
  BY <1>2 DEF CallsHold

\* A file after fileclose() took one reference from it.
LEMMA DroppedIs ==
  ASSUME NEW f \in FileIds, file[f] \in FileType, file[f].ref >= 1
  PROVE  /\ Dropped(f) \in FileType /\ Dropped(f).ref = file[f].ref - 1
         /\ \/ file[f].ref = 1 /\ Dropped(f) = FreeFile /\ Dropped(f).type = "FD_NONE"
            \/ /\ file[f].ref > 1 /\ Dropped(f).type = file[f].type
               /\ Dropped(f).writable = file[f].writable /\ Dropped(f).pipe = file[f].pipe
<1>1. file[f].ref \in Nat
  BY DEF FileType
<1>2. CASE file[f].ref > 1
  <2> DEFINE r == [file[f] EXCEPT !.ref = file[f].ref - 1]
  <2>1. Dropped(f) = r
    BY <1>2 DEF Dropped, FileType
  <2>2. /\ r \in FileType /\ r.ref = file[f].ref - 1 /\ r.type = file[f].type
        /\ r.writable = file[f].writable /\ r.pipe = file[f].pipe
    BY <1>1, <1>2, SMTT(60) DEF FileType
  <2> HIDE DEF r
  <2> QED
    BY <1>2, <2>1, <2>2
<1>3. CASE file[f].ref = 1
  <2>1. FreeFile.ref = 0 /\ FreeFile.type = "FD_NONE"
    BY DEF FreeFile
  <2> QED
    BY <1>3, <2>1, EmptyRecords, SMTT(60) DEF Dropped
<1> QED
  BY <1>1, <1>2, <1>3

\* A pipe without one of its ends.
LEMMA PipeWithoutIs ==
  ASSUME NEW pi \in Pages, pipe[pi] \in PipeType, NEW w \in BOOLEAN
  PROVE  LET x == PipeWithout(pi, w) IN
         /\ x \in PipeType
         /\ x.writeopen <=> pipe[pi].writeopen /\ ~w
         /\ x.readopen <=> pipe[pi].readopen /\ w
         /\ x.readopen \/ x.writeopen =>
              /\ x.nread = pipe[pi].nread /\ x.nwrite = pipe[pi].nwrite /\ x.data = pipe[pi].data
              /\ x.lock = pipe[pi].lock /\ (x.quiet <=> pipe[pi].quiet /\ ~w)
         /\ ~(x.readopen \/ x.writeopen) => x = NoPipe
<1>1. PICK a \in PipeType :
        /\ a = IF w THEN [pipe[pi] EXCEPT !.writeopen = FALSE] ELSE [pipe[pi] EXCEPT !.readopen = FALSE]
        /\ a.nread = pipe[pi].nread /\ a.nwrite = pipe[pi].nwrite /\ a.data = pipe[pi].data
        /\ a.lock = pipe[pi].lock /\ a.quiet = pipe[pi].quiet
        /\ a.writeopen <=> pipe[pi].writeopen /\ ~w
        /\ a.readopen <=> pipe[pi].readopen /\ w
  <2>1. CASE w
    <3> DEFINE a == [pipe[pi] EXCEPT !.writeopen = FALSE]
    <3>1. /\ a \in PipeType /\ a.nread = pipe[pi].nread /\ a.nwrite = pipe[pi].nwrite
          /\ a.data = pipe[pi].data /\ a.lock = pipe[pi].lock /\ a.quiet = pipe[pi].quiet
          /\ a.writeopen = FALSE /\ a.readopen = pipe[pi].readopen
      BY DEF PipeType
    <3> QED
      BY <2>1, <3>1
  <2>2. CASE ~w
    <3> DEFINE a == [pipe[pi] EXCEPT !.readopen = FALSE]
    <3>1. /\ a \in PipeType /\ a.nread = pipe[pi].nread /\ a.nwrite = pipe[pi].nwrite
          /\ a.data = pipe[pi].data /\ a.lock = pipe[pi].lock /\ a.quiet = pipe[pi].quiet
          /\ a.readopen = FALSE /\ a.writeopen = pipe[pi].writeopen
      BY DEF PipeType
    <3> QED
      BY <2>2, <3>1
  <2> QED
    BY <2>1, <2>2
<1>2. PipeWithout(pi, w) = IF a.readopen \/ a.writeopen THEN [a EXCEPT !.quiet = a.quiet /\ ~w] ELSE NoPipe
  BY <1>1 DEF PipeWithout, PipeType
<1>3. CASE a.readopen \/ a.writeopen
  <2> DEFINE x == [a EXCEPT !.quiet = a.quiet /\ ~w]
  <2>1. /\ x \in PipeType /\ x.nread = a.nread /\ x.nwrite = a.nwrite
        /\ x.data = a.data /\ x.lock = a.lock /\ x.readopen = a.readopen
        /\ x.writeopen = a.writeopen /\ x.quiet = (a.quiet /\ ~w)
    BY DEF PipeType
  <2>2. PipeWithout(pi, w) = x
    BY <1>2, <1>3
  <2> HIDE DEF x
  <2> QED
    BY <1>1, <1>3, <2>1, <2>2
<1>4. CASE ~(a.readopen \/ a.writeopen)
  <2>1. NoPipe.readopen = FALSE /\ NoPipe.writeopen = FALSE
    BY DEF NoPipe
  <2>2. PipeWithout(pi, w) = NoPipe
    BY <1>2, <1>4
  <2> QED
    BY <1>1, <1>4, <2>1, <2>2, EmptyRecords
<1> QED
  BY <1>3, <1>4

LEMMA PipecloseStep ==
  ASSUME RefsInv, NEW p \in Procs, Pipeclose(p)
  PROVE  RefsInv'
<1> DEFINE pj == loc[p].pi
           v == loc[p].n = 1
           x == PipeWithout(pj, v)
<1>0. /\ TypeOK /\ FilesSound /\ Counted /\ EndsSound /\ LocalsOK(p)
      /\ pc[p] = "pipeclose" /\ UNCHANGED <<file, ofile, killed>>
  BY DEF Pipeclose, RefsInv, LocalsSound
<1>1. /\ pj \in Pages /\ v \in BOOLEAN /\ loc[p].fs \in Seq(FileIds) /\ loc[p].ret \in Idle
      /\ IsInjective(loc[p].fs) /\ pipe[pj] \in PipeType
  BY <1>0 DEF LocalsOK, TypeOK, LocType, Idle
<1>2. CloseThen(p, loc[p].fs, loc[p].ret) /\ pipe' = [pipe EXCEPT ![pj] = x]
  BY DEF Pipeclose, CloseAll
<1>3. chan' \in ChanType
  BY <1>0, WakeupType DEF Pipeclose
<1>4. CloserHolds(p, pj, v) /\ \A pi \in Pages, w \in BOOLEAN : CloserHolds(p, pi, w) => pi = pj /\ w = v
  BY <1>0 DEF CloserHolds
<1> HIDE DEF pj, v
<1>5. /\ x \in PipeType
      /\ x.writeopen <=> pipe[pj].writeopen /\ ~v
      /\ x.readopen <=> pipe[pj].readopen /\ v
  BY <1>1, PipeWithoutIs
<1> HIDE DEF x
<1>6. /\ pipe' \in [Pages -> PipeType] /\ pipe'[pj] = x
      /\ \A pi \in Pages \ {pj} : pipe'[pi] = pipe[pi]
  BY <1>0, <1>1, <1>2, <1>5 DEF TypeOK
<1>7. /\ loc' \in [Procs -> LocType] /\ pc' \in [Procs -> Labels] /\ Moved(p)
      /\ loc'[p].fs = loc[p].fs
      /\ \/ loc[p].fs = <<>> /\ pc'[p] = loc[p].ret /\ loc'[p] = NoLoc
         \/ loc[p].fs # <<>> /\ pc'[p] = "close" /\ loc'[p].ret = loc[p].ret
  BY <1>0, <1>1, <1>2, Closes, ZenonT(60)
<1>8. TypeOK'
  BY <1>0, <1>3, <1>6, <1>7 DEF TypeOK, ChanType
<1>9. OnlyMoves(p) /\ pc'[p] \in Idle \cup {"close"}
  BY <1>0, <1>1, <1>7 DEF OnlyMoves, Moved
<1>10. LocalsSound'
  <2>1. pc'[p] = "none" \/ loc'[p].ret = "none" => loc[p].ret = "none"
    BY <1>7 DEF NoLoc
  <2>2. loc[p].ret = "none" => HasNone(p)'
    BY <1>0 DEF LocalsOK, HasNone
  <2>3. pc'[p] \in Idle => loc'[p] = NoLoc
    BY <1>7 DEF Idle
  <2>4. pc'[p] = "close" => loc'[p].fs # <<>>
    BY <1>1, <1>7 DEF Idle
  <2>5. LocalsOK(p)'
    BY <1>1, <1>7, <1>9, <2>1, <2>2, <2>3, <2>4, LocalsEnd
  <2> QED
    BY <1>9, <2>5, LocalsKept DEF RefsInv
<1>11. \A q \in Procs, f \in FileIds : Lists(q, f)' <=> Lists(q, f)
  BY <1>7 DEF Lists, Moved
<1>12. FilesSound'
  BY <1>0, <1>7, <1>9, <1>11, ZenonT(60) DEF FilesSound, Moved, Allocating, Idle
<1>13. Counted'
  <2>1. ASSUME NEW f \in FileIds PROVE Pending(f)' = Pending(f) /\ Descriptors(f)' = Descriptors(f)
    BY <1>0, <1>11 DEF Pending, Descriptors, Lists
  <2> QED
    BY <1>0, <2>1 DEF Counted
<1>14. CallsHold'
  <2>1. CallOK(p)'
    BY <1>9 DEF CallOK, Reading, Writing, Idle
  <2> QED
    BY <1>0, <1>9, <2>1, CallsKept DEF RefsInv
<1>15. EndsSound'
  <2> SUFFICES ASSUME NEW pi \in Pages, NEW w \in BOOLEAN
               PROVE  /\ \A g, h \in FileIds : FileHolds(g, pi, w)' /\ FileHolds(h, pi, w)' => g = h
                      /\ \A q, s \in Procs : CloserHolds(q, pi, w)' /\ CloserHolds(s, pi, w)' => q = s
                      /\ \A g \in FileIds, q \in Procs : ~(FileHolds(g, pi, w)' /\ CloserHolds(q, pi, w)')
                      /\ Open(pi, w)' <=> \/ \E g \in FileIds : FileHolds(g, pi, w)'
                                          \/ \E q \in Procs : CloserHolds(q, pi, w)'
    BY DEF EndsSound
  <2>1. \A g \in FileIds : FileHolds(g, pi, w)' <=> FileHolds(g, pi, w)
    BY <1>0 DEF FileHolds
  <2>2. \A q \in Procs : CloserHolds(q, pi, w)' <=> q # p /\ CloserHolds(q, pi, w)
    BY <1>7, <1>9 DEF CloserHolds, Moved, Idle
  <2>3. Open(pi, w)' <=> Open(pi, w) /\ ~(pi = pj /\ w = v)
    <3>1. CASE pi = pj
      BY <1>1, <1>5, <1>6, <3>1 DEF Open
    <3>2. CASE pi # pj
      BY <1>6, <3>2 DEF Open
    <3> QED
      BY <3>1, <3>2
  <2>4. /\ \A g, h \in FileIds : FileHolds(g, pi, w) /\ FileHolds(h, pi, w) => g = h
        /\ \A q, s \in Procs : CloserHolds(q, pi, w) /\ CloserHolds(s, pi, w) => q = s
        /\ \A g \in FileIds, q \in Procs : ~(FileHolds(g, pi, w) /\ CloserHolds(q, pi, w))
        /\ Open(pi, w) <=> \/ \E g \in FileIds : FileHolds(g, pi, w)
                           \/ \E q \in Procs : CloserHolds(q, pi, w)
    BY <1>0 DEF EndsSound
  <2> QED
    BY <1>4, <2>1, <2>2, <2>3, <2>4
<1> QED
  BY <1>8, <1>10, <1>12, <1>13, <1>14, <1>15 DEF RefsInv

LEMMA RefsImply == RefsInv => RefsMatch
<1> SUFFICES ASSUME RefsInv PROVE RefsMatch
  OBVIOUS
<1>0. TypeOK /\ FilesSound /\ EndsSound
  BY DEF RefsInv
<1>1. RefsCounted
  <2>1. \A p \in Procs : pc[p] # "panic"
    BY <1>0 DEF TypeOK, Labels, Idle, Allocating, Reading, Writing
  <2> QED
    BY <2>1 DEF RefsInv, LocalsSound, LocalsOK, Counted, RefsCounted
<1>2. ASSUME NEW pi \in Pages, NEW w \in BOOLEAN PROVE Open(pi, w) <=> w \in OpenEnds(pi)
  <2>1. \A f \in FileIds : file[f].type = "FD_PIPE" => file[f].ref > 0
    BY <1>0, SMTT(60) DEF FilesSound, FreeFile, TypeOK, FileType
  <2>2. \A f \in FileIds : file[f].writable \in BOOLEAN
    BY <1>0 DEF TypeOK, FileType
  <2>3. ASSUME NEW f \in FileIds, FileHolds(f, pi, w) PROVE w \in OpenEnds(pi)
    <3>1. w = file[f].writable
      BY <2>2, <2>3 DEF FileHolds
    <3> QED
      BY <2>1, <2>3, <3>1 DEF FileHolds, OpenEnds
  <2>4. ASSUME NEW p \in Procs, CloserHolds(p, pi, w) PROVE w \in OpenEnds(pi)
    <3>1. w = (loc[p].n = 1)
      BY <2>4 DEF CloserHolds
    <3> QED
      BY <2>4, <3>1 DEF CloserHolds, OpenEnds
  <2>5. ASSUME w \in OpenEnds(pi)
        PROVE  \/ \E f \in FileIds : FileHolds(f, pi, w)
               \/ \E p \in Procs : CloserHolds(p, pi, w)
    BY <2>5 DEF OpenEnds, FileHolds, CloserHolds
  <2> QED
    BY <1>0, <2>3, <2>4, <2>5 DEF EndsSound
<1>3. ASSUME NEW p \in Procs, NEW w \in BOOLEAN, HasEnd(p, w), loc[p].pi \in Pages
      PROVE  Open(loc[p].pi, w)
  BY <1>0, <1>3, SMTT(60) DEF HasEnd, EndsSound, TypeOK
<1>4. EndsMatch
  <2>1. \A pi \in Pages : /\ pipe[pi].writeopen <=> TRUE \in OpenEnds(pi)
                          /\ pipe[pi].readopen <=> FALSE \in OpenEnds(pi)
    BY <1>2 DEF Open
  <2>2. ASSUME NEW p \in Procs
        PROVE  /\ pc[p] \in Reading => pipe[loc[p].pi].readopen
               /\ pc[p] \in Writing => pipe[loc[p].pi].writeopen
    BY <1>3 DEF RefsInv, CallsHold, CallOK, LocalsSound, LocalsOK, Open
  <2> QED
    BY <2>1, <2>2 DEF EndsMatch, Reading, Writing
<1> QED
  BY <1>1, <1>4 DEF RefsMatch

-----------------------------------------------------------------------------
(* Who sleeps on a pipe, and who holds its lock *)

\* A step of p on pipe pi concerns nobody at another pipe.
Elsewhere(p, pi) ==
  /\ Moved(p) /\ \A pj \in Pages \ {pi} : pipe'[pj] = pipe[pj]
  /\ \A q \in Procs : q # p => chan'[q] \in {chan[q], Nobody}
  /\ pc[p] \in Reading \cup Writing => loc[p].pi = pi

\* A sleeper whose pipe stays as it is, as far as it concerns the sleeper.
LEMMA SleeperStays ==
  ASSUME NEW q \in Procs, NEW pi \in Pages, SleepOK(q), loc[q].pi = pi, loc'[q] = loc[q],
         pc'[q] = pc[q], chan'[q] \in {chan[q], Nobody}, pc[q] \notin {"rsleep", "wsleep"},
         chan'[q] = <<"nwrite", pi>> /\ WriterWaits(pi) => WriterWaits(pi)',
         chan'[q] = <<"nread", pi>> /\ ReaderWaits(pi) => ReaderWaits(pi)'
  PROVE  SleepOK(q)'
<1>1. SleepAt(q, pi) /\ (~Awake(q) => pc[q] \in {"read", "write"})
  BY DEF SleepOK
<1>2. ~Awake(q)' => ~Awake(q) /\ chan'[q] = chan[q]
  BY DEF Awake
<1>3. SleepAt(q, pi)'
  BY <1>1, <1>2 DEF SleepAt
<1> QED
  BY <1>1, <1>2, <1>3 DEF SleepOK

LEMMA SleepFrame ==
  ASSUME RefsInv, SleepInv, NEW p \in Procs, NEW pi \in Pages, Elsewhere(p, pi),
         LockOK(pi)', SleepOK(p)',
         \A q \in Procs : q # p /\ pc[q] \in Reading \cup Writing /\ loc[q].pi = pi => SleepOK(q)'
  PROVE  SleepInv'
<1>1. ASSUME NEW pj \in Pages, pj # pi, NEW q \in Procs, pipe[pj].lock = q
      PROVE  q # p /\ Awake(q) /\ loc[q].pi = pj /\ pc[q] \in {"rsleep", "wsleep", "write"}
  <2>1. Awake(q) /\ loc[q].pi = pj /\ pc[q] \in {"rsleep", "wsleep", "write"}
    BY <1>1 DEF SleepInv, LockOK
  <2> QED
    BY <1>1, <2>1 DEF Elsewhere, Reading, Writing
<1>2. ASSUME NEW pj \in Pages, pj # pi PROVE LockOK(pj)'
  <2>1. ASSUME NEW q \in Procs, pipe'[pj].lock = q
        PROVE  Awake(q)' /\ loc'[q].pi = pj /\ pc'[q] \in {"rsleep", "wsleep", "write"}
    <3>1. pipe[pj].lock = q
      BY <1>2, <2>1 DEF Elsewhere
    <3> QED
      BY <1>1, <1>2, <3>1, SMTT(60) DEF Awake, Elsewhere, Moved
  <2> QED
    BY <2>1 DEF LockOK
<1>3. ASSUME NEW q \in Procs, q # p, pc[q] \notin Reading \cup Writing PROVE SleepOK(q)'
  <2>1. Awake(q) /\ pc'[q] = pc[q] /\ chan'[q] \in {chan[q], Nobody}
    BY <1>3 DEF SleepInv, SleepOK, Elsewhere, Moved, Reading, Writing
  <2> QED
    BY <1>3, <2>1 DEF SleepOK, SleepAt, Awake, Reading, Writing
<1>4. ASSUME NEW q \in Procs, q # p, pc[q] \in Reading \cup Writing, loc[q].pi # pi PROVE SleepOK(q)'
  <2>0. PICK pj \in Pages : pj = loc[q].pi
    BY <1>4, OnPipeHas
  <2>1. SleepOK(q) /\ SleepAt(q, pj) /\ pj # pi
    BY <1>4, <2>0 DEF SleepInv, SleepOK
  <2>2. pipe'[pj] = pipe[pj] /\ loc'[q] = loc[q] /\ pc'[q] = pc[q] /\ chan'[q] \in {chan[q], Nobody}
    BY <1>4, <2>1 DEF Elsewhere, Moved
  <2>3. (Empty(pj)' <=> Empty(pj)) /\ (WriterWaits(pj)' <=> WriterWaits(pj))
    BY <2>2 DEF WriterWaits, Empty, Full
  <2>4. ReaderWaits(pj) => ReaderWaits(pj)'
    <3>1. pipe[pj].lock \in Procs \cup {Nobody}
      BY DEF RefsInv, TypeOK, PipeType
    <3>2. pipe[pj].lock # Nobody => pc'[pipe[pj].lock] = pc[pipe[pj].lock]
      BY <1>1, <2>1, <3>1 DEF Elsewhere, Moved
    <3> QED
      BY <2>2, <2>3, <3>2 DEF ReaderWaits
  <2>5. ~Awake(q)' => ~Awake(q) /\ chan'[q] = chan[q]
    BY <2>2 DEF Awake
  <2>6. SleepAt(q, pj)'
    BY <2>1, <2>2, <2>3, <2>4, <2>5 DEF SleepAt
  <2> QED
    BY <2>0, <2>1, <2>2, <2>5, <2>6 DEF SleepOK
<1> QED
  BY <1>2, <1>3, <1>4 DEF SleepInv

\* A call that is not on a pipe neither sleeps nor holds the lock of a pipe.
LEMMA OutsideStep ==
  ASSUME RefsInv, SleepInv, NEW p \in Procs, pc[p] \notin Reading \cup Writing, Moved(p),
         pc'[p] \notin {"rsleep", "wsleep"}, UNCHANGED <<pipe, chan>>
  PROVE  SleepInv'
<1>1. Awake(p)
  BY DEF SleepInv, SleepOK, Reading, Writing
<1>2. SleepOK(p)'
  BY <1>1 DEF SleepOK, SleepAt, Awake
<1>3. ASSUME NEW pi \in Pages, NEW q \in Procs, pipe[pi].lock = q
      PROVE  q # p /\ Awake(q) /\ loc[q].pi = pi /\ pc[q] \in {"rsleep", "wsleep", "write"}
  BY ZenonT(60), SMTT(60), <1>3 DEF SleepInv, LockOK, Reading, Writing
<1>4. ASSUME NEW pi \in Pages PROVE LockOK(pi)'
  BY ZenonT(60), SMTT(60), <1>3 DEF LockOK, Awake, Moved
<1>5. ASSUME NEW q \in Procs, q # p PROVE SleepOK(q)'
  <2>1. SleepOK(q) /\ loc'[q] = loc[q] /\ pc'[q] = pc[q]
    BY <1>5 DEF SleepInv, Moved
  <2>2. ASSUME NEW pi \in Pages, loc'[q].pi = pi PROVE SleepAt(q, pi)'
    <3>1. SleepAt(q, pi)
      BY <2>1, <2>2 DEF SleepOK
    <3>2. (Empty(pi)' <=> Empty(pi)) /\ (WriterWaits(pi)' <=> WriterWaits(pi))
      BY DEF WriterWaits, Empty, Full
    <3>3. ReaderWaits(pi) => ReaderWaits(pi)'
      <4>1. pipe[pi].lock \in Procs \cup {Nobody}
        BY DEF RefsInv, TypeOK, PipeType
      <4>2. pipe[pi].lock # Nobody => pc'[pipe[pi].lock] = pc[pipe[pi].lock]
        BY <1>3, <4>1 DEF Moved
      <4> QED
        BY <3>2, <4>2 DEF ReaderWaits
    <3> QED
      BY <2>1, <3>1, <3>2, <3>3 DEF SleepAt, Awake
  <2> QED
    BY <2>1, <2>2 DEF SleepOK, Awake
<1> QED
  BY <1>2, <1>4, <1>5 DEF SleepInv

\* pi->lock or quiet changes, and nothing else of the pipes.
Relocked(pi, x, b) ==
  /\ \A pj \in Pages \ {pi} : pipe'[pj] = pipe[pj]
  /\ pipe'[pi].lock = x /\ (pipe'[pi].quiet <=> b)
  /\ Empty(pi)' <=> Empty(pi)
  /\ WriterWaits(pi)' <=> WriterWaits(pi)
  /\ pipe'[pi].writeopen = pipe[pi].writeopen

LEMMA Relock ==
  ASSUME TypeOK, NEW pi \in Pages, NEW x
  PROVE  /\ pipe' = [pipe EXCEPT ![pi].lock = x] => Relocked(pi, x, pipe[pi].quiet)
         /\ \A b \in BOOLEAN :
              pipe' = [pipe EXCEPT ![pi].lock = x, ![pi].quiet = b] => Relocked(pi, x, b)
<1>0. pipe[pi] \in PipeType /\ pipe \in [Pages -> PipeType]
  BY DEF TypeOK
<1>1. ASSUME pipe'[pi].nread = pipe[pi].nread, pipe'[pi].nwrite = pipe[pi].nwrite,
             pipe'[pi].readopen = pipe[pi].readopen
      PROVE  (Empty(pi)' <=> Empty(pi)) /\ (WriterWaits(pi)' <=> WriterWaits(pi))
  BY <1>1 DEF WriterWaits, Empty, Full
<1>2. ASSUME pipe' = [pipe EXCEPT ![pi].lock = x] PROVE Relocked(pi, x, pipe[pi].quiet)
  BY <1>0, <1>1, <1>2 DEF Relocked, PipeType
<1>3. ASSUME NEW b \in BOOLEAN, pipe' = [pipe EXCEPT ![pi].lock = x, ![pi].quiet = b]
      PROVE  Relocked(pi, x, b)
  BY <1>0, <1>1, <1>3 DEF Relocked, PipeType
<1> QED
  BY <1>2, <1>3

\* A call at the top of its loop: nobody else holds the lock, and a reader does not.
LEMMA AtTop ==
  ASSUME RefsInv, SleepInv, NEW p \in Procs, pc[p] \in {"read", "write"}, Locked(p),
         NEW pi \in Pages, loc[p].pi = pi
  PROVE  /\ p # Nobody /\ pipe[pi].lock \in {Nobody, p}
         /\ pc[p] = "read" => pipe[pi].lock = Nobody
         /\ \A q \in Procs : q # p /\ loc[q].pi = pi => pc[q] \notin {"rsleep", "wsleep"}
<1>1. Nobody \notin Procs
  BY TableAssumption
<1>2. pipe[pi].lock \in {Nobody, p}
  BY DEF Locked
<1>3. pipe[pi].lock = p => pc[p] \in {"rsleep", "wsleep", "write"}
  BY DEF SleepInv, LockOK
<1>4. ASSUME NEW q \in Procs, q # p, loc[q].pi = pi PROVE pc[q] \notin {"rsleep", "wsleep"}
  <2>1. SleepAt(q, pi)
    BY <1>4 DEF SleepInv, SleepOK
  <2> QED
    BY <1>1, <1>2, <1>4, <2>1 DEF SleepAt
<1> QED
  BY <1>1, <1>2, <1>3, <1>4

LEMMA ReadWaitSleep ==
  ASSUME RefsInv, SleepInv, NEW p \in Procs, ReadWait(p)
  PROVE  SleepInv'
<1>0. /\ TypeOK /\ pc[p] = "read" /\ Awake(p) /\ Locked(p) /\ chan' = chan
      /\ Empty(loc[p].pi) /\ pipe[loc[p].pi].writeopen
  BY DEF ReadWait, At, RefsInv
<1>p. PICK pi \in Pages : loc[p].pi = pi
  BY <1>0, OnPipeHas DEF Reading
<1>1. /\ p # Nobody /\ pipe[pi].lock = Nobody /\ Empty(pi) /\ pipe[pi].writeopen
      /\ \A q \in Procs : q # p /\ loc[q].pi = pi => pc[q] \notin {"rsleep", "wsleep"}
  BY <1>0, <1>p, AtTop
<1>2. PICK x \in {p, Nobody} :
        /\ pipe' = [pipe EXCEPT ![pi].lock = x]
        /\ \/ /\ x = p /\ pc' = [pc EXCEPT ![p] = "rsleep"] /\ loc' = loc
           \/ /\ x = Nobody /\ pc' = [pc EXCEPT ![p] = "user"] /\ loc' = [loc EXCEPT ![p] = NoLoc]
  BY <1>p DEF ReadWait, Release, Return, Goto, Locals
<1>3. Relocked(pi, x, pipe[pi].quiet)
  BY <1>0, <1>2, Relock
<1>4. /\ Moved(p)
      /\ \/ x = p /\ pc'[p] = "rsleep" /\ loc'[p].pi = pi
         \/ x = Nobody /\ pc'[p] = "user"
  BY <1>0, <1>p, <1>2 DEF Moved, TypeOK
<1>5. Elsewhere(p, pi)
  BY <1>0, <1>p, <1>3, <1>4 DEF Elsewhere, Relocked
<1>6. Awake(p)'
  BY <1>0 DEF Awake
<1>7. LockOK(pi)'
  BY <1>1, <1>3, <1>4, <1>6, TableAssumption DEF Relocked, LockOK
<1>8. SleepOK(p)'
  BY <1>1, <1>3, <1>4, <1>6 DEF Relocked, SleepOK, SleepAt
<1>9. ASSUME NEW q \in Procs, q # p, loc[q].pi = pi PROVE SleepOK(q)'
  <2>1. SleepOK(q) /\ loc'[q] = loc[q] /\ pc'[q] = pc[q] /\ chan'[q] = chan[q] /\ pc[q] \notin {"rsleep", "wsleep"}
    BY <1>0, <1>1, <1>4, <1>9 DEF SleepInv, Moved
  <2>2. WriterWaits(pi)' <=> WriterWaits(pi)
    BY <1>3 DEF Relocked
  <2>3. ReaderWaits(pi)'
    BY <1>1, <1>3 DEF Relocked, ReaderWaits
  <2> QED
    BY <1>9, <2>1, <2>2, <2>3, SleeperStays
<1> QED
  BY <1>5, <1>7, <1>8, <1>9, SleepFrame

\* The holder of the lock falls asleep and releases it.
LEMMA FallAsleep ==
  ASSUME RefsInv, SleepInv, NEW p \in Procs, ReadSleep(p) \/ WriteSleep(p)
  PROVE  SleepInv'
<1>1. pc[p] \in {"rsleep", "wsleep"} /\ TypeOK
  BY DEF ReadSleep, WriteSleep, RefsInv
<1>p. PICK pi \in Pages : loc[p].pi = pi
  BY <1>1, OnPipeHas DEF Reading, Writing
<1>2. SleepAt(p, pi)
  BY <1>p DEF SleepInv, SleepOK
<1>3. /\ loc' = loc /\ pipe' = [pipe EXCEPT ![pi].lock = Nobody]
      /\ \/ /\ pc[p] = "rsleep" /\ pc' = [pc EXCEPT ![p] = "read"]
            /\ chan' = [chan EXCEPT ![p] = <<"nread", pi>>]
         \/ /\ pc[p] = "wsleep" /\ pc' = [pc EXCEPT ![p] = "write"]
            /\ chan' = [chan EXCEPT ![p] = <<"nwrite", pi>>]
  BY <1>p DEF ReadSleep, WriteSleep, Release, Goto, Sleep
<1>4. Relocked(pi, Nobody, pipe[pi].quiet)
  BY <1>1, <1>3, Relock
<1>5. /\ Moved(p) /\ \A q \in Procs : q # p => chan'[q] = chan[q]
      /\ \/ pc[p] = "rsleep" /\ pc'[p] = "read" /\ chan'[p] = <<"nread", pi>>
         \/ pc[p] = "wsleep" /\ pc'[p] = "write" /\ chan'[p] = <<"nwrite", pi>>
  BY <1>1, <1>3 DEF Moved, TypeOK
<1>6. Elsewhere(p, pi)
  BY <1>p, <1>4, <1>5 DEF Elsewhere, Relocked
<1>7. LockOK(pi)'
  BY <1>4, TableAssumption DEF Relocked, LockOK
<1>8. SleepOK(p)'
  <2>1. loc'[p].pi = pi
    BY <1>p, <1>3
  <2>2. SleepAt(p, pi)'
    BY <1>2, <1>4, <1>5 DEF Relocked, SleepAt, ReaderWaits
  <2> QED
    BY <1>5, <2>1, <2>2 DEF SleepOK
<1>9. ASSUME NEW q \in Procs, q # p, loc[q].pi = pi PROVE SleepOK(q)'
  <2>1. SleepOK(q) /\ loc'[q] = loc[q] /\ pc'[q] = pc[q] /\ chan'[q] = chan[q]
    BY <1>5, <1>9 DEF SleepInv, Moved
  <2>2. SleepAt(q, pi) /\ pipe[pi].lock = p
    BY <1>1, <1>2, <1>9, <2>1 DEF SleepAt, SleepOK
  <2>3. pc[q] \notin {"rsleep", "wsleep"}
    BY <1>9, <2>2 DEF SleepAt
  <2>4. WriterWaits(pi)' <=> WriterWaits(pi)
    BY <1>4 DEF Relocked
  <2>5. ReaderWaits(pi) => ReaderWaits(pi)'
    BY <1>1, <1>4, <2>2 DEF Relocked, ReaderWaits
  <2> QED
    BY <1>9, <2>1, <2>3, <2>4, <2>5, SleeperStays
<1> QED
  BY <1>6, <1>7, <1>8, <1>9, SleepFrame

\* wakeup(c) wakes the sleepers on c and leaves the others asleep.
LEMMA Wakes ==
  ASSUME NEW c, Wakeup(c), Nobody # c
  PROVE  \A q \in Procs : chan'[q] \in {chan[q], Nobody} /\ chan'[q] # c
BY DEF Wakeup, Woken

LEMMA ReadCopySleep ==
  ASSUME RefsInv, SleepInv, NEW p \in Procs, ReadCopy(p)
  PROVE  SleepInv'
<1>0. /\ TypeOK /\ pc[p] = "read" /\ Awake(p) /\ Locked(p)
      /\ ~(Empty(loc[p].pi) /\ pipe[loc[p].pi].writeopen)
      /\ Wakeup(<<"nwrite", loc[p].pi>>) /\ pc' = [pc EXCEPT ![p] = "copied"]
  BY DEF ReadCopy, At, RefsInv, Goto
<1>p. PICK pi \in Pages : loc[p].pi = pi
  BY <1>0, OnPipeHas DEF Reading
<1>1. /\ pipe[pi].lock = Nobody
      /\ \A q \in Procs : q # p /\ loc[q].pi = pi => pc[q] \notin {"rsleep", "wsleep"}
  BY <1>0, <1>p, AtTop, SMTT(60)
<1>2. PICK k, m \in Nat : /\ pipe' = [pipe EXCEPT ![pi] = Consumed(pi, k)]
                          /\ loc' = [loc EXCEPT ![p] = [NoLoc EXCEPT !.msg = Oldest(pi, m)]]
  BY <1>p, ReadCopyTakes, SMTT(60)
<1>3. Consumed(pi, k).lock = Nobody /\ Consumed(pi, k).quiet = pipe[pi].quiet
  BY <1>0, ConsumedType
<1>4. /\ pipe'[pi].lock = Nobody /\ pipe'[pi].quiet = pipe[pi].quiet
      /\ \A pj \in Pages \ {pi} : pipe'[pj] = pipe[pj]
  BY <1>0, <1>2, <1>3 DEF TypeOK
<1>5. Moved(p) /\ pc'[p] = "copied"
  BY <1>0, <1>2 DEF Moved, TypeOK
<1>6. \A q \in Procs : chan'[q] \in {chan[q], Nobody} /\ chan'[q] # <<"nwrite", pi>>
  BY <1>0, <1>p, CallAssumption, Wakes
<1>7. Elsewhere(p, pi)
  BY <1>p, <1>4, <1>5, <1>6 DEF Elsewhere
<1>8. LockOK(pi)'
  BY <1>4, TableAssumption DEF LockOK
<1>9. SleepOK(p)'
  BY <1>0, <1>5, <1>6 DEF SleepOK, SleepAt, Awake
<1>10. ASSUME NEW q \in Procs, q # p, loc[q].pi = pi PROVE SleepOK(q)'
  <2>1. /\ SleepOK(q) /\ loc'[q] = loc[q] /\ pc'[q] = pc[q] /\ pc[q] \notin {"rsleep", "wsleep"}
        /\ chan'[q] \in {chan[q], Nobody} /\ chan'[q] # <<"nwrite", pi>>
    BY <1>1, <1>5, <1>6, <1>10 DEF SleepInv, Moved
  <2>2. ReaderWaits(pi) => ReaderWaits(pi)'
    BY <1>0, <1>p, <1>1, <1>4 DEF ReaderWaits
  <2> QED
    BY <1>10, <2>1, <2>2, SleeperStays
<1> QED
  BY <1>7, <1>8, <1>9, <1>10, SleepFrame

\* The steps of pipewrite() that leave the counters alone.
LEMMA WriteSteps ==
  ASSUME RefsInv, SleepInv, NEW p \in Procs, WriteFails(p) \/ WriteWait(p) \/ WriteDone(p)
  PROVE  SleepInv'
<1>0. TypeOK /\ pc[p] = "write" /\ Awake(p) /\ Locked(p)
  BY DEF WriteFails, WriteWait, WriteDone, Writes, At, RefsInv
<1>p. PICK pi \in Pages : loc[p].pi = pi
  BY <1>0, OnPipeHas DEF Writing
<1>1. /\ p # Nobody
      /\ \A q \in Procs : q # p /\ loc[q].pi = pi => pc[q] \notin {"rsleep", "wsleep"}
  BY <1>0, <1>p, AtTop
<1>2. PICK b \in BOOLEAN, x \in {p, Nobody} :
        /\ pipe' = [pipe EXCEPT ![pi].lock = x, ![pi].quiet = b]
        /\ \/ /\ x = p /\ pc' = [pc EXCEPT ![p] = "wsleep"] /\ loc' = loc
              /\ WriterWaits(pi)
           \/ x = Nobody /\ pc' = [pc EXCEPT ![p] = "user"] /\ loc' = [loc EXCEPT ![p] = NoLoc]
        /\ \/ Wakeup(<<"nread", pi>>)
           \/ chan' = chan /\ (b <=> \E q \in Procs : chan[q] = <<"nread", pi>>)
  <2>1. CASE WriteFails(p)
    BY <1>p, <2>1 DEF WriteFails, Return, Goto, Locals
  <2>2. CASE WriteWait(p)
    BY <1>p, <2>2 DEF WriteWait, Writes, Goto, WriterWaits
  <2>3. CASE WriteDone(p)
    BY <1>p, <2>3 DEF WriteDone, Return, Goto, Locals
  <2> QED
    BY <2>1, <2>2, <2>3
<1>3. Relocked(pi, x, b)
  BY <1>0, <1>2, Relock
<1>4. /\ Moved(p)
      /\ \/ x = p /\ pc'[p] = "wsleep" /\ loc'[p].pi = pi /\ WriterWaits(pi)
         \/ x = Nobody /\ pc'[p] = "user"
  BY <1>0, <1>p, <1>2 DEF Moved, TypeOK
<1>5. \A q \in Procs : chan'[q] \in {chan[q], Nobody} /\ (chan'[q] = <<"nread", pi>> => b)
  <2>1. CASE Wakeup(<<"nread", pi>>)
    BY <2>1, Wakes, CallAssumption
  <2>2. CASE chan' = chan /\ (b <=> \E q \in Procs : chan[q] = <<"nread", pi>>)
    BY <2>2
  <2> QED
    BY <1>2, <2>1, <2>2
<1>6. Elsewhere(p, pi)
  BY <1>p, <1>3, <1>4, <1>5 DEF Elsewhere, Relocked
<1>7. Awake(p)'
  BY <1>0, <1>5 DEF Awake
<1>8. LockOK(pi)'
  BY <1>1, <1>3, <1>4, <1>7, TableAssumption DEF Relocked, LockOK
<1>9. SleepOK(p)'
  BY <1>3, <1>4, <1>7 DEF Relocked, SleepOK, SleepAt
<1>10. ASSUME NEW q \in Procs, q # p, loc[q].pi = pi PROVE SleepOK(q)'
  <2>1. /\ SleepOK(q) /\ loc'[q] = loc[q] /\ pc'[q] = pc[q] /\ pc[q] \notin {"rsleep", "wsleep"}
        /\ chan'[q] \in {chan[q], Nobody}
    BY <1>1, <1>4, <1>5, <1>10 DEF SleepInv, Moved
  <2>2. WriterWaits(pi)' <=> WriterWaits(pi)
    BY <1>3 DEF Relocked
  <2>3. chan'[q] = <<"nread", pi>> => ReaderWaits(pi)'
    BY <1>3, <1>5 DEF Relocked, ReaderWaits
  <2> QED
    BY <1>10, <2>1, <2>2, <2>3, SleeperStays
<1> QED
  BY <1>6, <1>8, <1>9, <1>10, SleepFrame

LEMMA WriteByteSleep ==
  ASSUME RefsInv, SleepInv, NEW p \in Procs, WriteByte(p)
  PROVE  SleepInv'
<1>0. /\ TypeOK /\ pc[p] = "write" /\ Awake(p) /\ Locked(p) /\ ~Full(loc[p].pi)
      /\ UNCHANGED <<pc, chan>>
  BY DEF WriteByte, Writes, At, RefsInv
<1>p. PICK pi \in Pages : loc[p].pi = pi
  BY <1>0, OnPipeHas DEF Writing
<1>1. /\ p # Nobody /\ ~WriterWaits(pi)
      /\ \A q \in Procs : q # p /\ loc[q].pi = pi => pc[q] \notin {"rsleep", "wsleep"}
  BY <1>0, <1>p, AtTop DEF WriterWaits
<1>2. PICK r, s : pipe' = [pipe EXCEPT ![pi] = r] /\ r.lock = p /\ loc' = [loc EXCEPT ![p] = s] /\ s.pi = pi
  <2> DEFINE x == loc[p].msg[loc[p].i + 1]
             r == Produced(pi, x, p)
             s == [loc[p] EXCEPT !.i = loc[p].i + 1]
  <2>1. pipe' = [pipe EXCEPT ![pi] = r] /\ loc' = [loc EXCEPT ![p] = s]
    BY <1>p DEF WriteByte, Locals
  <2>2. r.lock = p
    BY <1>0, ZenonT(60) DEF Produced, TypeOK, PipeType
  <2>3. s.pi = pi
    BY ZenonT(60), SMTT(60), <1>0, <1>p DEF TypeOK, LocType
  <2> QED
    BY <2>1, <2>2, <2>3
<1>3. /\ pipe'[pi].lock = p /\ \A pj \in Pages \ {pi} : pipe'[pj] = pipe[pj]
      /\ loc'[p].pi = pi /\ Moved(p) /\ pc'[p] = "write"
  BY <1>0, <1>2 DEF TypeOK, Moved
<1>4. Elsewhere(p, pi)
  BY <1>0, <1>p, <1>3 DEF Elsewhere
<1>5. LockOK(pi)'
  BY <1>0, <1>3 DEF LockOK, Awake
<1>6. SleepOK(p)'
  BY <1>0, <1>3 DEF SleepOK, SleepAt, Awake
<1>7. ASSUME NEW q \in Procs, q # p, loc[q].pi = pi PROVE SleepOK(q)'
  <2>1. /\ SleepOK(q) /\ loc'[q] = loc[q] /\ pc'[q] = pc[q] /\ pc[q] \notin {"rsleep", "wsleep"}
        /\ chan'[q] = chan[q]
    BY <1>0, <1>1, <1>3, <1>7 DEF SleepInv, Moved
  <2>2. ReaderWaits(pi)'
    BY <1>1, <1>3 DEF ReaderWaits
  <2> QED
    BY <1>1, <1>7, <2>1, <2>2, SleeperStays
<1> QED
  BY <1>4, <1>5, <1>6, <1>7, SleepFrame

LEMMA KillSleep ==
  ASSUME RefsInv, SleepInv, NEW p \in Procs, Kill(p)
  PROVE  SleepInv'
<1>1. UNCHANGED <<pipe, pc, loc>> /\ \A q \in Procs : chan'[q] \in {chan[q], Nobody}
  BY DEF Kill, Sleep, RefsInv, TypeOK
<1>2. ASSUME NEW pi \in Pages
      PROVE  /\ LockOK(pi)' /\ (Empty(pi)' <=> Empty(pi))
             /\ (WriterWaits(pi)' <=> WriterWaits(pi)) /\ (ReaderWaits(pi)' <=> ReaderWaits(pi))
  <2>1. LockOK(pi)'
    BY <1>1 DEF SleepInv, LockOK, Awake
  <2>2. Empty(pi)' <=> Empty(pi)
    BY <1>1 DEF Empty
  <2>3. WriterWaits(pi)' <=> WriterWaits(pi)
    BY <1>1 DEF WriterWaits, Full
  <2>4. ReaderWaits(pi)' <=> ReaderWaits(pi)
    BY <1>1, <2>2 DEF ReaderWaits
  <2> QED
    BY <2>1, <2>2, <2>3, <2>4
<1>3. ASSUME NEW q \in Procs PROVE SleepOK(q)'
  <2>1. SleepOK(q) /\ (~Awake(q)' => ~Awake(q) /\ chan'[q] = chan[q])
    BY <1>1 DEF SleepInv, Awake
  <2>2. ASSUME NEW pi \in Pages, loc'[q].pi = pi PROVE SleepAt(q, pi)'
    <3>1. SleepAt(q, pi)
      BY <1>1, <2>1, <2>2 DEF SleepOK
    <3> QED
      BY <1>1, <1>2, <2>1, <3>1 DEF SleepAt
  <2> QED
    BY <1>1, <2>1, <2>2 DEF SleepOK
<1> QED
  BY <1>2, <1>3 DEF SleepInv

\* A reader has the read end open, a writer the write end.
LEMMA CallersOpen ==
  ASSUME RefsInv, NEW p \in Procs
  PROVE  /\ pc[p] \in Reading => pipe[loc[p].pi].readopen
         /\ pc[p] \in Writing => pipe[loc[p].pi].writeopen
BY RefsImply DEF RefsMatch, EndsMatch, Reading, Writing

LEMMA RefsImplyNext == RefsInv' => RefsMatch'
BY RefsImply, PTL

\* Nobody is left asleep on a pipe that loses an end: those on the other side are
\* woken, and on this side nobody can be.
LEMMA PipecloseSleep ==
  ASSUME RefsInv, RefsInv', SleepInv, NEW p \in Procs, Pipeclose(p)
  PROVE  SleepInv'
<1>0. TypeOK /\ LocalsOK(p) /\ pc[p] = "pipeclose"
  BY DEF Pipeclose, RefsInv, LocalsSound
<1>p. PICK pi \in Pages : loc[p].pi = pi
  BY <1>0 DEF LocalsOK
<1>w. PICK w \in BOOLEAN : w <=> loc[p].n = 1
  OBVIOUS
<1>1. /\ pipe[pi].lock = Nobody /\ Wakeup(IF w THEN <<"nread", pi>> ELSE <<"nwrite", pi>>)
      /\ pipe' = [pipe EXCEPT ![pi] = PipeWithout(pi, w)]
      /\ CloseThen(p, loc[p].fs, loc[p].ret) /\ loc[p].fs \in Seq(FileIds) /\ loc[p].ret \in Idle
  BY <1>0, <1>p, <1>w DEF Pipeclose, CloseAll, TypeOK, LocType, Idle
<1>2. LET x == PipeWithout(pi, w) IN
      /\ x.writeopen <=> pipe[pi].writeopen /\ ~w
      /\ x.readopen <=> pipe[pi].readopen /\ w
      /\ x.lock = Nobody
  <2>1. pipe[pi] \in PipeType /\ NoPipe.lock = Nobody
    BY <1>0 DEF TypeOK, NoPipe
  <2> QED
    BY <1>1, <2>1, PipeWithoutIs
<1>3. /\ pipe'[pi].writeopen => ~w
      /\ pipe'[pi].readopen => w
      /\ pipe'[pi].lock = Nobody /\ \A pj \in Pages \ {pi} : pipe'[pj] = pipe[pj]
  BY <1>0, <1>1, <1>2 DEF TypeOK
<1>4. Moved(p) /\ pc'[p] \in Idle \cup {"close"}
  <2>1. /\ loc' \in [Procs -> LocType] /\ pc' \in [Procs -> Labels] /\ Moved(p)
        /\ loc'[p].fs = loc[p].fs
        /\ \/ loc[p].fs = <<>> /\ pc'[p] = loc[p].ret /\ loc'[p] = NoLoc
           \/ loc[p].fs # <<>> /\ pc'[p] = "close" /\ loc'[p].ret = loc[p].ret
    BY <1>0, <1>1, Closes, SMTT(60)
  <2> QED
    BY <1>1, <2>1
<1>5. \A q \in Procs : /\ chan'[q] \in {chan[q], Nobody}
                       /\ chan'[q] # IF w THEN <<"nread", pi>> ELSE <<"nwrite", pi>>
  BY <1>1, CallAssumption, Wakes
<1>6. Elsewhere(p, pi)
  BY <1>0, <1>3, <1>4, <1>5 DEF Elsewhere, Reading, Writing
<1>7. LockOK(pi)'
  BY <1>3, TableAssumption DEF LockOK
<1>8. SleepOK(p)'
  <2>1. Awake(p)
    BY <1>0 DEF SleepInv, SleepOK
  <2> QED
    BY <1>4, <1>5, <2>1 DEF SleepOK, SleepAt, Awake, Idle
<1>9. ASSUME NEW q \in Procs, q # p, pc[q] \in Reading \cup Writing, loc[q].pi = pi PROVE SleepOK(q)'
  <2>1. SleepOK(q) /\ SleepAt(q, pi) /\ loc'[q] = loc[q] /\ pc'[q] = pc[q]
    BY <1>4, <1>9 DEF SleepInv, SleepOK, Moved
  <2>2. pc[q] \in {"read", "write"}
    BY <1>1, <1>9, <2>1, TableAssumption DEF SleepAt, Reading, Writing
  <2>3. (pc'[q] \in Reading => pipe'[pi].readopen) /\ (pc'[q] \in Writing => pipe'[pi].writeopen)
    BY <1>9, <2>1, RefsImplyNext DEF RefsMatch, EndsMatch, Reading, Writing
  <2>4. Awake(q)'
    BY <1>3, <1>5, <2>1, <2>2, <2>3 DEF SleepAt, Awake, Reading, Writing
  <2> QED
    BY <2>1, <2>2, <2>4 DEF SleepOK, SleepAt
<1> QED
  BY <1>6, <1>7, <1>8, <1>9, SleepFrame

\* A page for a new pipe has nobody on it.
LEMMA PipeallocPageSleep ==
  ASSUME RefsInv, SleepInv, NEW p \in Procs, PipeallocPage(p)
  PROVE  SleepInv'
<1>0. TypeOK /\ pc[p] = "kalloc" /\ UNCHANGED <<loc, chan>> /\ pc' = [pc EXCEPT ![p] = "fdalloc"]
  BY DEF PipeallocPage, Goto, RefsInv
<1>1. PICK pi \in FreePages :
        pipe' = [pipe EXCEPT ![pi] = [NoPipe EXCEPT !.readopen = TRUE, !.writeopen = TRUE]]
  BY DEF PipeallocPage
<1>2. pi \in Pages /\ ~pipe[pi].readopen /\ ~pipe[pi].writeopen
  BY DEF FreePages
<1>3. pipe'[pi].lock = Nobody /\ \A pj \in Pages \ {pi} : pipe'[pj] = pipe[pj]
  BY <1>0, <1>1, <1>2 DEF TypeOK, NoPipe
<1>4. Moved(p) /\ pc'[p] = "fdalloc"
  BY <1>0 DEF Moved, TypeOK
<1>5. Elsewhere(p, pi)
  BY <1>0, <1>3, <1>4 DEF Elsewhere, Reading, Writing
<1>6. LockOK(pi)'
  BY <1>3, TableAssumption DEF LockOK
<1>7. SleepOK(p)'
  BY <1>0, <1>4 DEF SleepInv, SleepOK, SleepAt, Awake
<1>8. ASSUME NEW q \in Procs, q # p PROVE ~(pc[q] \in Reading \cup Writing /\ loc[q].pi = pi)
  BY <1>2, CallersOpen
<1> QED
  BY <1>2, <1>5, <1>6, <1>7, <1>8, SleepFrame

LEMMA SleepStart == Init => SleepInv
<1> SUFFICES ASSUME Init PROVE SleepInv
  OBVIOUS
<1>1. ASSUME NEW p \in Procs PROVE SleepOK(p)
  BY DEF Init, SleepInit, SleepOK, SleepAt, Awake
<1>2. ASSUME NEW pi \in Pages PROVE LockOK(pi)
  BY TableAssumption DEF Init, LockOK, NoPipe
<1> QED
  BY <1>1, <1>2 DEF SleepInv

LEMMA SleepNext == RefsInv /\ RefsInv' /\ SleepInv /\ [Next]_vars => SleepInv'
<1> SUFFICES ASSUME RefsInv, RefsInv', SleepInv, [Next]_vars PROVE SleepInv'
  OBVIOUS
<1>0. TypeOK /\ TypeOK'
  BY DEF RefsInv
<1>1. ASSUME NEW p \in Procs, Process(p) PROVE SleepInv'
  <2>1. CASE Fileclose(p) \/ SysPipe(p) \/ PipeallocSecond(p) \/ PipeallocBad(p) \/ PipeFds(p)
    <3>1. pc[p] \in Allocating \cup {"close", "user"} /\ UNCHANGED <<pipe, chan>>
      BY <2>1 DEF Fileclose, SysPipe, PipeallocSecond, PipeallocBad, PipeFds, InUser, Allocating
    <3>2. \E l, r : pc' = [pc EXCEPT ![p] = l] /\ (loc' = [loc EXCEPT ![p] = r] \/ loc' = loc)
      BY ZenonT(60), SMTT(60), <2>1 DEF Fileclose, SysPipe, PipeallocSecond, PipeallocBad, PipeFds, Goto, Locals, CloseAll,
                  CloseThen
    <3>3. pc'[p] \notin {"rsleep", "wsleep"}
      <4>1. loc[p].ret \in Idle
        BY <1>0 DEF TypeOK, LocType, Idle
      <4> QED
        BY <1>0, <2>1, <4>1 DEF Fileclose, SysPipe, PipeallocSecond, PipeallocBad, PipeFds, Goto,
                                CloseAll, CloseThen, TypeOK, Idle
    <3>4. Moved(p)
      BY <1>0, <3>2 DEF Moved, TypeOK
    <3> QED
      BY <3>1, <3>3, <3>4, OutsideStep DEF Allocating, Reading, Writing
  <2>2. CASE \E d \in Fds : SysDup(p, d) \/ SysClose(p, d) \/ SysRead(p, d) \/ SysWrite(p, d)
    <3>1. pc[p] = "user" /\ UNCHANGED <<pipe, chan>> /\ loc[p] = NoLoc
      BY <2>2 DEF SysDup, SysClose, SysRead, SysWrite, InUser, RefsInv, LocalsSound, LocalsOK, Idle
    <3>2. \E l \in {"user", "close", "read", "write", "panic"} : \E r :
            /\ pc' = [pc EXCEPT ![p] = l] \/ pc' = pc
            /\ loc' = [loc EXCEPT ![p] = r] \/ loc' = loc
      BY <2>2, <3>1 DEF SysDup, SysClose, SysRead, SysWrite, Goto, Locals, CloseAll, CloseThen, NoLoc
    <3>3. Moved(p) /\ pc'[p] \notin {"rsleep", "wsleep"}
      BY <1>0, <3>1, <3>2 DEF Moved, TypeOK
    <3> QED
      BY <3>1, <3>3, OutsideStep DEF Reading, Writing
  <2>3. CASE Exit(p) \/ ReadReturn(p)
    <3>1. pc[p] \in {"user", "exit", "copied"} /\ UNCHANGED <<pipe, chan>>
      BY <2>3 DEF Exit, ReadReturn
    <3>2. \E l \in {"user", "close", "exit", "none"} : \E r :
            pc' = [pc EXCEPT ![p] = l] /\ loc' = [loc EXCEPT ![p] = r]
      BY <2>3 DEF Exit, ReadReturn, Return, Goto, Locals, CloseThen
    <3>3. Moved(p) /\ pc'[p] \notin {"rsleep", "wsleep"}
      BY <1>0, <3>2 DEF Moved, TypeOK
    <3> QED
      BY <3>1, <3>3, OutsideStep DEF Reading, Writing
  <2>4. ASSUME NEW q \in Procs, Fork(p, q) PROVE SleepInv'
    <3>1. pc[q] = "none" /\ UNCHANGED <<pipe, loc, chan>> /\ pc' = [pc EXCEPT ![q] = "user"]
      BY <2>4 DEF Fork, Goto
    <3>2. Moved(q) /\ pc'[q] \notin {"rsleep", "wsleep"}
      BY <1>0, <3>1 DEF Moved, TypeOK
    <3> QED
      BY <3>1, <3>2, OutsideStep DEF Reading, Writing
  <2>5. CASE Pipeclose(p) \/ PipeallocPage(p) \/ Kill(p)
    BY <2>5, PipecloseSleep, PipeallocPageSleep, KillSleep
  <2>6. CASE ReadWait(p) \/ ReadSleep(p) \/ ReadCopy(p)
    BY <2>6, ReadWaitSleep, FallAsleep, ReadCopySleep
  <2>7. CASE WriteFails(p) \/ WriteWait(p) \/ WriteSleep(p) \/ WriteByte(p) \/ WriteDone(p)
    BY <2>7, WriteSteps, FallAsleep, WriteByteSleep
  <2> QED
    BY <1>1, <2>1, <2>2, <2>3, <2>4, <2>5, <2>6, <2>7 DEF Process
<1>2. CASE UNCHANGED vars
  <2>1. UNCHANGED <<pipe, pc, loc, chan>>
    BY <1>2 DEF vars
  <2>2. ASSUME NEW p \in Procs PROVE SleepOK(p)'
    <3>1. SleepOK(p)
      BY DEF SleepInv
    <3> QED
      BY <2>1, <3>1 DEF SleepOK, SleepAt, WriterWaits, ReaderWaits, Awake, Empty, Full
  <2>3. ASSUME NEW pi \in Pages PROVE LockOK(pi)'
    BY <2>1 DEF SleepInv, LockOK, Awake
  <2> QED
    BY <2>2, <2>3 DEF SleepInv
<1> QED
  BY <1>1, <1>2 DEF Next

LEMMA SleepImply == RefsInv /\ SleepInv => NoStrandedSleeper
<1> SUFFICES ASSUME RefsInv, SleepInv, NEW p \in Procs, ~Awake(p), pipe[loc[p].pi].lock = Nobody
             PROVE  IF pc[p] = "write" THEN Full(loc[p].pi) /\ pipe[loc[p].pi].readopen
                    ELSE \/ Empty(loc[p].pi) /\ pipe[loc[p].pi].writeopen
                         \/ pipe[loc[p].pi].quiet
  BY DEF NoStrandedSleeper
<1>1. pc[p] \in {"read", "write"}
  BY DEF SleepInv, SleepOK
<1>2. PICK pi \in Pages : loc[p].pi = pi
  BY <1>1, OnPipeHas DEF Reading, Writing
<1>3. SleepAt(p, pi)
  BY <1>2 DEF SleepInv, SleepOK
<1> QED
  BY <1>1, <1>2, <1>3 DEF SleepAt, WriterWaits, ReaderWaits
=============================================================================
