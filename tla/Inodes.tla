------------------------------- MODULE Inodes -------------------------------
(***************************************************************************)
(* Inodes, directories and path names: the inode table of kernel/fs.c and  *)
(* the calls of kernel/sysfile.c that use it.                              *)
(*                                                                         *)
(* What happens under itable.lock is one step, and so is what a thread     *)
(* does between two operations on inode locks, reads and writes of the     *)
(* locked inodes' blocks included (modules Bcache and Log show that these  *)
(* are the latest, and that an operation reaches the disk whole).  A       *)
(* directory is a function from names to inode numbers; "." and ".." are   *)
(* not looked up, and ".." is kept because it counts as a link.            *)
(***************************************************************************)
EXTENDS Integers, FiniteSets, FiniteSetsExt, SequencesExt, SleepLock

CONSTANTS
  NINODE,   \* entries of the inode table, which are the Locks
  Inums,    \* inodes on the disk; ROOTINO is 1
  Names,
  Mixes     \* sets of calls for the processes to make: op, path, new for link()

ASSUME InodeAssumption ==
  /\ NINODE \in Nat /\ Locks = 1 .. NINODE
  /\ 1 \in Inums /\ Inums \subseteq Nat /\ Cardinality(Inums) <= NINODE

VARIABLES
  itable,   \* in-memory inodes: inum, ref, valid, type, nlink
  disk,     \* dinodes and directory contents: type, nlink, ents, up (for "..")
  calls,    \* one of Mixes
  fd,       \* an open file of each process
  cwd,
  pc,
  loc       \* locals of a call

vars == <<calls, itable, disk, fd, cwd, pc, loc, chan, holder>>

ROOTINO == 1
None == 0
NoEntries == [n \in Names |-> None]
FreeInode == [type |-> "free", nlink |-> 0, ents |-> NoEntries, up |-> None]
FreeEntry == [inum |-> None, ref |-> 0, valid |-> FALSE, type |-> "free", nlink |-> 0]

\* puts are references to drop, lock the inode to lock after that, and next
\* where to go then; ret is where namex() leads.
NoLoc == [op |-> "none", path |-> <<>>, abs |-> TRUE, parent |-> FALSE, new |-> <<>>,
          ip |-> Nobody, dp |-> Nobody, old |-> Nobody,
          puts |-> <<>>, lock |-> Nobody, next |-> "user", ret |-> "user"]

\* After boot: an empty root, which is every process's current directory.
Init ==
  /\ SleepLockInit
  /\ disk = [i \in Inums |-> IF i = ROOTINO
               THEN [type |-> "dir", nlink |-> 1, ents |-> NoEntries, up |-> ROOTINO]
               ELSE FreeInode]
  /\ itable = [s \in Locks |-> IF s = 1
               THEN [FreeEntry EXCEPT !.inum = ROOTINO, !.ref = Cardinality(Procs)]
               ELSE FreeEntry]
  /\ calls \in Mixes
  /\ fd = [p \in Procs |-> Nobody]
  /\ cwd = [p \in Procs |-> 1]
  /\ pc = [p \in Procs |-> "user"]
  /\ loc = [p \in Procs |-> NoLoc]

At(p, l) == pc[p] = l /\ Awake(p)
Goto(p, l) == pc' = [pc EXCEPT ![p] = l]
Locals(p, r) == loc' = [loc EXCEPT ![p] = r]

\* Drop the references of r, take its lock and go to its next.
Do(p, r) ==
  LET l == IF r.puts # <<>> THEN "iput" ELSE IF r.lock # Nobody THEN "ilock" ELSE r.next IN
  Goto(p, l) /\ Locals(p, IF l = "user" THEN NoLoc ELSE r)
LockThen(r, s, l) == [r EXCEPT !.lock = s, !.next = l]
PutThen(r, ss, l) == [r EXCEPT !.puts = ss, !.next = l]

-----------------------------------------------------------------------------
(* iget(), idup(), ilock(), iput() *)

InTable(i) == {s \in Locks : itable[s].ref > 0 /\ itable[s].inum = i}
IgetSlot(i) ==
  IF InTable(i) # {} THEN Min(InTable(i)) ELSE Min({s \in Locks : itable[s].ref = 0})

\* Seeded fault: an inode already in the table is not counted again.
IgotUncounted(i) ==
  IF InTable(i) # {} THEN itable
  ELSE [itable EXCEPT ![IgetSlot(i)] = [FreeEntry EXCEPT !.inum = i, !.ref = 1]]

\* The table after iget(i).
Igot(i) ==
  IF InTable(i) # {} THEN [itable EXCEPT ![IgetSlot(i)].ref = @ + 1]
  ELSE [itable EXCEPT ![IgetSlot(i)] = [FreeEntry EXCEPT !.inum = i, !.ref = 1]]

\* ilock(loc.lock), which loads the inode the first time.
Ilock(p) ==
  LET s == loc[p].lock  d == disk[itable[s].inum] IN
  /\ At(p, "ilock")
  /\ \/ /\ Acquiresleep(p, s)
        /\ itable' = IF itable[s].valid THEN itable
                     ELSE [itable EXCEPT ![s] = [@ EXCEPT !.valid = TRUE, !.type = d.type,
                                                          !.nlink = d.nlink]]
        /\ IF itable'[s].type = "free" THEN Goto(p, "panic") /\ UNCHANGED loc
           ELSE Goto(p, loc[p].next) /\ Locals(p, [loc[p] EXCEPT !.lock = Nobody])
     \/ Blocksleep(p, s) /\ UNCHANGED <<itable, pc, loc>>
  /\ UNCHANGED <<calls, disk, fd, cwd>>

Put(p) == Head(loc[p].puts)
PutDone(p) == [loc[p] EXCEPT !.puts = Tail(@)]
Unref(s) == [itable EXCEPT ![s] = IF @.ref = 1 THEN FreeEntry ELSE [@ EXCEPT !.ref = @ - 1]]

LastUse(s) == itable[s].ref = 1 /\ itable[s].valid /\ itable[s].nlink = 0

\* iput() under itable.lock.  Its acquiresleep() comes with the spinlock held,
\* and sched() panics if it has to wait.  The fields of an entry with ref 0
\* are never read again, so they are cleared.
Iput(p) ==
  LET s == Put(p) IN
  /\ At(p, "iput")
  /\ IF LastUse(s)
     THEN IF holder[s] # Nobody
          THEN Goto(p, "panic") /\ UNCHANGED <<itable, loc, holder>>
          ELSE /\ holder' = [holder EXCEPT ![s] = p]
               /\ Goto(p, "ifree") /\ UNCHANGED <<itable, loc>>
     ELSE itable' = Unref(s) /\ Do(p, PutDone(p)) /\ UNCHANGED holder
  /\ UNCHANGED <<calls, disk, fd, cwd, chan>>

\* Seeded fault: the entry stays valid after its inode is freed.
ForgottenNot(s) == [itable EXCEPT ![s].type = "free"]

Forgotten(s) == [itable EXCEPT ![s] = [@ EXCEPT !.type = "free", !.valid = FALSE]]

\* itrunc() and the free dinode, with neither spinlock held.
IputFree(p) ==
  LET s == Put(p) IN
  /\ At(p, "ifree")
  /\ disk' = [disk EXCEPT ![itable[s].inum] = FreeInode]
  /\ itable' = Forgotten(s)
  /\ Releasesleep(s)
  /\ Goto(p, "idec")
  /\ UNCHANGED <<calls, fd, cwd, loc>>

IputDec(p) ==
  /\ At(p, "idec")
  /\ itable' = Unref(Put(p))
  /\ Do(p, PutDone(p))
  /\ UNCHANGED <<calls, disk, fd, cwd, chan, holder>>

-----------------------------------------------------------------------------
(* namex() *)

\* A call begins: open() and creat(), mkdir(), link(), unlink(), chdir().
Call(p, c) ==
  /\ At(p, "user")
  /\ c.op \in {"open", "creat"} => fd[p] = Nobody
  /\ Goto(p, "namex")
  /\ Locals(p, [NoLoc EXCEPT !.op = c.op, !.path = c.path, !.abs = c.abs, !.new = c.new,
                  !.parent = c.op \in {"creat", "mkdir", "unlink"},
                  !.ret = IF c.op \in {"creat", "mkdir"} THEN "create" ELSE c.op])
  /\ UNCHANGED <<calls, itable, disk, fd, cwd, chan, holder>>

\* namex() drops ss and returns 0: the call returns, but link() first takes its
\* inode's new link back.
Failing(r, ss) ==
  IF r.old = Nobody THEN PutThen(NoLoc, ss, "user")
  ELSE LockThen([NoLoc EXCEPT !.old = r.old, !.puts = ss], r.old, "undo")

\* The test of namex()'s loop; every caller locks what namei() returns.
Walk(r) ==
  IF r.path # <<>> THEN LockThen(r, r.ip, "look")
  ELSE IF r.parent THEN Failing(r, <<r.ip>>)
  ELSE LockThen(r, r.ip, r.ret)

\* From the root, or from a duplicate of cwd.
NamexStart(p) ==
  LET s == IF loc[p].abs THEN IgetSlot(ROOTINO) ELSE cwd[p] IN
  /\ At(p, "namex")
  /\ itable' = IF loc[p].abs THEN Igot(ROOTINO) ELSE [itable EXCEPT ![s].ref = @ + 1]
  /\ Do(p, Walk([loc[p] EXCEPT !.ip = s]))
  /\ UNCHANGED <<calls, disk, fd, cwd, chan, holder>>

Content(s) == disk[itable[s].inum]
IsDir(s) == itable[s].type = "dir"

\* One path element, with ip locked.
Look(p) ==
  LET r == loc[p]  n == Head(r.path)  e == Content(r.ip).ents[n] IN
  /\ At(p, "look")
  /\ Releasesleep(r.ip)
  /\ IF ~IsDir(r.ip) THEN Do(p, Failing(r, <<r.ip>>)) /\ UNCHANGED itable
     ELSE IF r.parent /\ Len(r.path) = 1
     THEN Do(p, LockThen([r EXCEPT !.dp = r.ip, !.ip = Nobody], r.ip, r.ret)) /\ UNCHANGED itable
     ELSE IF e = None THEN Do(p, Failing(r, <<r.ip>>)) /\ UNCHANGED itable
     ELSE /\ itable' = Igot(e)
          /\ Do(p, [Walk([r EXCEPT !.ip = IgetSlot(e), !.path = Tail(@)]) EXCEPT !.puts = <<r.ip>>])
  /\ UNCHANGED <<calls, disk, fd, cwd>>
=============================================================================
