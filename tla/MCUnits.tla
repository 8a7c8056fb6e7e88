------------------------------ MODULE MCUnits -------------------------------
(***************************************************************************)
(* User memory, file contents, the image mkfs makes, the user heap, the    *)
(* shell and interrupts on small instances.  They do not share state: a    *)
(* behaviour is one of one of them, the area, and the others have no       *)
(* state.                                                                  *)
(***************************************************************************)
EXTENDS Integers, Sequences

CONSTANTS
  NPAGES, PGSIZE, NPROC, Pools, Increments, Programs, Writes, Reads, MaxSize, MaxCalls,
  ALIGN, MAXARG, ADDRMOD,
  Users, Inums, Opens, NBLOCKS, BSIZE, NDIRECT, BPB, MAXOPBLOCKS, Texts, ReadSizes,
  MaxFaults, MaxChanges,
  HeaderSize, MinCore, Limit, Requests, MaxHoles,
  NCPU, NTHREAD, MaxTraps,
  FSSIZE, NMETA, Argvs,
  NOFILE, MAXARGS, Rooms, Commands, Malformed

VARIABLES
  free, data, proc, tab, k, panic, calls,
  inode, bitmap, block, opened, off, job, logged, seen, changes, fault,
  hdr, freep, brk, live, holes, m,
  cpu, code, spin, tstate, traps, died,
  sector, dinode, freeblock, used, files, argi, mkpc,
  line, room, sh, started, ended, noFork,
  area

Memory == INSTANCE UserMemory
File == INSTANCE FileData
UHeap == INSTANCE Heap
Trap == INSTANCE Interrupts
Image == INSTANCE Mkfs
Cmd == INSTANCE ShellParser
Sh == INSTANCE Shell

\* An area that is not chosen has no state.
Off == 0
NoMemory ==
  /\ free = Off /\ data = Off /\ proc = Off /\ tab = Off /\ k = Off
  /\ panic = Off /\ calls = Off
NoFile ==
  /\ inode = Off /\ bitmap = Off /\ block = Off /\ opened = Off /\ off = Off
  /\ job = Off /\ logged = Off /\ seen = Off /\ changes = Off /\ fault = Off
NoHeap ==
  /\ hdr = Off /\ freep = Off /\ brk = Off /\ live = Off /\ holes = Off
  /\ m = Off
NoTrap ==
  /\ cpu = Off /\ code = Off /\ spin = Off /\ tstate = Off /\ traps = Off
  /\ died = Off
NoImage ==
  /\ sector = Off /\ dinode = Off /\ freeblock = Off /\ used = Off /\ files = Off
  /\ argi = Off /\ mkpc = Off
NoShell ==
  /\ line = Off /\ room = Off /\ sh = Off /\ started = Off /\ ended = Off
  /\ noFork = Off

Init ==
  \/ area = "memory" /\ Memory!Init /\ NoFile /\ NoHeap /\ NoTrap /\ NoImage /\ NoShell
  \/ area = "file" /\ NoMemory /\ File!Init /\ NoHeap /\ NoTrap /\ NoImage /\ NoShell
  \/ area = "heap" /\ NoMemory /\ NoFile /\ UHeap!Init /\ NoTrap /\ NoImage /\ NoShell
  \/ area = "trap" /\ NoMemory /\ NoFile /\ NoHeap /\ Trap!Init /\ NoImage /\ NoShell
  \/ area = "image" /\ NoMemory /\ NoFile /\ NoHeap /\ NoTrap /\ Image!Init /\ NoShell
  \/ area = "shell" /\ NoMemory /\ NoFile /\ NoHeap /\ NoTrap /\ NoImage /\ Sh!Init

memoryVars == <<free, data, proc, tab, k, panic, calls>>
fileVars == <<inode, bitmap, block, opened, off, job, logged, seen, changes, fault>>
heapVars == <<hdr, freep, brk, live, holes, m>>
trapVars == <<cpu, code, spin, tstate, traps, died>>
imageVars == <<sector, dinode, freeblock, used, files, argi, mkpc>>
shellVars == <<line, room, sh, started, ended, noFork>>
vars == <<memoryVars, fileVars, heapVars, trapVars, imageVars, shellVars, area>>

InMemory == area = "memory" /\ UNCHANGED <<fileVars, heapVars, trapVars, imageVars, shellVars, area>>
InFile == area = "file" /\ UNCHANGED <<memoryVars, heapVars, trapVars, imageVars, shellVars, area>>
InHeap == area = "heap" /\ UNCHANGED <<memoryVars, fileVars, trapVars, imageVars, shellVars, area>>
InTrap == area = "trap" /\ UNCHANGED <<memoryVars, fileVars, heapVars, imageVars, shellVars, area>>
InImage == area = "image" /\ UNCHANGED <<memoryVars, fileVars, heapVars, trapVars, shellVars, area>>
InShell == area = "shell" /\ UNCHANGED <<memoryVars, fileVars, heapVars, trapVars, imageVars, area>>

Next ==
  \/ \E p \in 1 .. NPROC :
       \/ \E n \in Increments : InMemory /\ Memory!SbrkGrow(p, n)
       \/ \E n \in Increments : InMemory /\ Memory!SbrkShrink(p, n)
       \/ InMemory /\ Memory!AllocRound(p)
       \/ InMemory /\ Memory!SbrkDone(p)
       \/ InMemory /\ Memory!SbrkFail(p)
       \/ InMemory /\ Memory!Pagetable(p)
       \/ InMemory /\ Memory!Fork(p)
       \/ InMemory /\ Memory!CopyRound(p)
       \/ InMemory /\ Memory!ForkDone(p)
       \/ InMemory /\ Memory!ForkFail(p)
       \/ InMemory /\ Memory!Exit(p)
       \/ InMemory /\ Memory!Reap(p)
       \/ \E w \in Writes : InMemory /\ Memory!Store(p, w)
       \/ \E x \in Programs : InMemory /\ Memory!Exec(p, x)
       \/ InMemory /\ Memory!Segment(p)
       \/ InMemory /\ Memory!Loadseg(p)
       \/ InMemory /\ Memory!Stack(p)
       \/ InMemory /\ Memory!Arguments(p)
       \/ InMemory /\ Memory!ExecFail(p)
  \/ \E u \in Users :
       \/ \E t \in Texts : \E r \in 0 .. Len(t) : InFile /\ File!Write(u, t, r)
       \/ InFile /\ File!WriteChunk(u)
       \/ \E n \in ReadSizes : InFile /\ File!Read(u, n)
  \/ \E f \in Inums : InFile /\ File!Itrunc(f)
  \/ \E n \in Requests : InHeap /\ UHeap!Malloc(n)
  \/ \E a \in 2 .. Limit : InHeap /\ UHeap!Free(a)
  \/ InHeap /\ UHeap!Take
  \/ InHeap /\ UHeap!Scan
  \/ InHeap /\ UHeap!Morecore
  \/ InHeap /\ UHeap!FindPlace
  \/ InHeap /\ UHeap!Insert
  \/ InHeap /\ UHeap!Sbrk
  \/ \E c \in 1 .. NCPU :
       \/ InTrap /\ Trap!Get(c)
       \/ InTrap /\ Trap!PushOff(c)
       \/ InTrap /\ Trap!Swap(c)
       \/ InTrap /\ Trap!Unlock(c)
       \/ InTrap /\ Trap!SetState(c)
       \/ InTrap /\ Trap!Wake(c)
       \/ InTrap /\ Trap!Sched(c)
       \/ InTrap /\ Trap!Resume(c)
       \/ InTrap /\ Trap!Pass(c)
       \/ InTrap /\ Trap!Dispatch(c)
       \/ InTrap /\ Trap!Ecall(c)
       \/ InTrap /\ Trap!IntrOn(c)
       \/ InTrap /\ Trap!UserTimer(c)
       \/ InTrap /\ Trap!KernelTimer(c)
       \/ InTrap /\ Trap!Tick(c)
       \/ InTrap /\ Trap!KernelRet(c)
       \/ InTrap /\ Trap!Usertrapreturn(c)
       \/ InTrap /\ Trap!UserRet(c)
  \/ InImage /\ Image!MakeRoot
  \/ InImage /\ Image!AddFile
  \/ InImage /\ Image!CopyFile
  \/ InImage /\ Image!Finish
  \/ \E p \in UNION {1 .. r : r \in Rooms} :
       \/ InShell /\ p <= room /\ Sh!CloseFd(p)
       \/ InShell /\ p <= room /\ Sh!DupFd(p)
       \/ InShell /\ p <= room /\ Sh!OpenFile(p)
       \/ InShell /\ p <= room /\ Sh!MakePipe(p)
       \/ InShell /\ p <= room /\ Sh!Fork1(p)
       \/ InShell /\ p <= room /\ Sh!Wait(p)
       \/ InShell /\ p <= room /\ Sh!Exec(p)
       \/ InShell /\ p <= room /\ Sh!Exit(p)
       \/ InShell /\ p <= room /\ Sh!Program(p)
       \/ InShell /\ p <= room /\ Sh!InitReaps(p)

Spec == Init /\ [][Next]_vars

-----------------------------------------------------------------------------

Seg(vaddr, filesz, memsz, perm, byte) ==
  [load |-> TRUE, vaddr |-> vaddr, filesz |-> filesz, memsz |-> memsz,
   perm |-> perm, byte |-> byte, short |-> FALSE]
Prog(segs, argv) == [elf |-> TRUE, segs |-> segs, argv |-> argv]
Text == Seg(0, 3, 4, {"X"}, 3)

SmallPrograms == {
  Prog(<<Text>>, <<<<6>>>>),
  Prog(<<[Text EXCEPT !.load = FALSE], Seg(4, 1, 6, {"W"}, 4), [Text EXCEPT !.filesz = 4]>>, <<>>),
  Prog(<<[Text EXCEPT !.short = TRUE]>>, <<>>),
  Prog(<<Text, Seg(8, 0, ADDRMOD - 4, {}, 4)>>, <<>>),
  Prog(<<Text>>, <<<<6, 6, 6, 6>>>>),
  [Prog(<<>>, <<>>) EXCEPT !.elf = FALSE]}

SmallWrites == {[at |-> 2, bytes |-> <<8, 8, 8>>]}
SmallReads == {[at |-> a, n |-> 6] : a \in {0, 3, 5, 8}}
SmallIncrements == {-20, -3, 6}
SmallPools == {7, 9, 13, 16, 19}

\* The two processes share a file, or have one each.
SmallOpens == {[u \in Users |-> 1], [u \in Users |-> IF u = 1 THEN 1 ELSE 2]}
SmallTexts == {<<1>>, <<2, 3, 4>>}

\* Files up to one word longer than a file can be, and up to three of them.
Input(n) == [i \in 1 .. n |-> 10 * n + i]
SmallArgvs ==
  {<<>>} \cup {<<Input(n)>> : n \in 0 .. 7}
  \cup {<<Input(n), Input(i)>> : n \in {1, 3, 6}, i \in {0, 4, 5}}
  \cup {<<Input(3), Input(2), Input(6)>>}

Run(a) == Cmd!Execcmd(<<a>>)
SmallCommands == {
  Cmd!Pipecmd(Run("a"), Cmd!Pipecmd(Run("b"), Run("c"))),
  Cmd!Listcmd(Cmd!Backcmd(Run("a")), Cmd!Pipecmd(Run("b"), Run("c"))),
  Cmd!Pipecmd(Cmd!Listcmd(Run("a"), Cmd!Redircmd(Run("b"), "f", 1)), Run("c")),
  Cmd!Redircmd(Cmd!Redircmd(Cmd!Execcmd(<<"a", "x">>), "f", 0), "g", 1),
  Cmd!Listcmd(Cmd!Redircmd(Cmd!Pipecmd(Run("a"), Run("b")), "f", 1), Run("c")),
  Cmd!Pipecmd(Run("bad"), Run("b")),
  Cmd!Listcmd(Cmd!Pipecmd(Cmd!Redircmd(Run("a"), "none", 0), Run("b")), Cmd!Execcmd(<<>>)),
  Cmd!Pipecmd(Cmd!Backcmd(Run("a")), Cmd!Listcmd(Run("b"), Run("c"))),
  Cmd!Backcmd(Cmd!Backcmd(Cmd!Pipecmd(Run("a"), Run("b"))))}
SmallMalformed ==
  {<<"a", "&", "b">>, <<"(", "a">>, <<"a", "<">>, <<"a", "x", "y">>, <<"a", "(">>}

-----------------------------------------------------------------------------

\* Every page is in exactly one place (UserMemory).
PagesOwnedOnce == area = "memory" => Memory!PagesOwnedOnce

\* A page table maps what p->sz says, no unmapping panics, and copyin() and
\* copyinstr() return the bytes at an address (UserMemory).
MapMatchesSize == area = "memory" => Memory!MapMatchesSize /\ Memory!CopiesAgree

\* Processes have separate memories with the contents they expect, through
\* growproc(), fork(), exec(), copyout() and wait() (UserMemory, AddressSpace).
ImplementsSpaces ==
  (area = "memory" => Memory!A!Init) /\ [][area = "memory" => Memory!A!Next \/ UNCHANGED Memory!SpaceOf]_vars

\* The bitmap marks the blocks of inodes, and each is in one of them (FileData).
BlocksOwnedOnce == area = "file" => File!BlocksOwnedOnce

\* A transaction of filewrite() logs at most MAXOPBLOCKS blocks (FileData).
ChunkFits == area = "file" => File!ChunkFits

\* Files behave as sequences of bytes with positions (FileData, FileBytes).
ImplementsBytes ==
  (area = "file" => File!B!Init) /\ [][area = "file" => File!B!Next \/ UNCHANGED File!B!vars]_vars

\* Free blocks and blocks in use tile the heap (Heap).
HeapTiles == area = "heap" => UHeap!HeapTiles

\* A CPU takes no interrupt while it holds or waits for a spinlock, and CPUs do
\* not wait for each other in a circle (Interrupts).
LocksShutOut == area = "trap" => Trap!LocksShutOut

\* No check of the spinlocks, sched() or the trap handlers fails, a trap returns
\* to the code it interrupted, and whether interrupts are on is a matter of the
\* thread, on whatever CPU it runs (Interrupts).
Undisturbed == area = "trap" => Trap!Undisturbed

\* The kernel finds in a new image the files mkfs was given, and every block in
\* one place (Mkfs, FileData).
ImageIsSound == area = "image" => Image!ImageIsSound

\* Programs start in the order and with the files and pipes a line says (Shell).
RunsAsWritten == area = "shell" => Sh!RunsAsWritten

\* The prompt returns, with no process of the line left behind (Shell).
PromptReturns == area = "shell" => Sh!PromptReturns
=============================================================================
