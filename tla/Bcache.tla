------------------------------ MODULE Bcache ------------------------------
(***************************************************************************)
(* The buffer cache, kernel/bio.c, on a disk that does what BlockDevice    *)
(* says: threads of the file system read blocks into locked buffers,       *)
(* change them, write them back or pin them, and release them.             *)
(*                                                                         *)
(* A step runs from one lock operation to the next; what happens under     *)
(* bcache.lock is one step.  The callers keep the discipline of log.c: a   *)
(* changed buffer is written or pinned before it is released, and unpinned *)
(* only after it was written.                                              *)
(*                                                                         *)
(* The contents of a copy of a block are abstracted to one bit, whether    *)
(* they are the latest: Contents is BOOLEAN.                               *)
(***************************************************************************)
EXTENDS Integers, FiniteSets, SequencesExt, SleepLock

CONSTANTS
  Bufs, Blocks, Contents,
  Uses,      \* Uses[p]: the blocks thread p works on
  Writers,   \* the threads that change blocks
  MaxPins    \* blocks log_write() may have pinned

ASSUME UseAssumption == Uses \in [Procs -> SUBSET Blocks] /\ MaxPins \in Nat /\ Writers \subseteq Procs

ASSUME CacheAssumption ==
  /\ IsFiniteSet(Procs) /\ IsFiniteSet(Bufs)
  /\ Locks = Bufs /\ Contents = BOOLEAN
  /\ Nobody \notin Procs \cup Bufs \cup Blocks

VARIABLES
  buf,     \* the buffers: blockno, valid, refcnt
  lru,     \* the list bcache.head, most recently used first
  pinned,  \* buffers pinned by the log
  pc,      \* where each thread is
  b,       \* the buffer each thread works on
  req, disk, data  \* the disk, as in BlockDevice

INSTANCE BlockDevice

cacheVars == <<buf, lru, pinned>>
diskVars == <<req, disk, data>>
vars == <<buf, lru, pinned, pc, b, chan, holder, req, disk, data>>

Init ==
  /\ SleepLockInit
  /\ req = [p \in Procs |-> NoReq]
  /\ disk = [n \in Blocks |-> TRUE]
  /\ data = [x \in Bufs |-> FALSE]
  /\ buf = [x \in Bufs |-> [blockno |-> Nobody, valid |-> FALSE, refcnt |-> 0]]
  /\ lru = SetToSeq(Bufs)
  /\ pinned = {}
  /\ pc = [p \in Procs |-> "idle"]
  /\ b = [p \in Procs |-> Nobody]

At(p, l) == pc[p] = l /\ Awake(p)
Goto(p, l) == pc' = [pc EXCEPT ![p] = l]

-----------------------------------------------------------------------------
(* bget() *)

Cached(n) == {x \in Bufs : buf[x].blockno = n}

Unused == {x \in Bufs : buf[x].refcnt = 0}

\* x is the unused buffer nearest the end of the list.
Victim(x) ==
  /\ x \in Unused
  /\ \E i \in DOMAIN lru : lru[i] = x /\ \A j \in DOMAIN lru : j > i => lru[j] \notin Unused

\* Seeded fault: a recycled buffer keeps the valid flag of its old block.
RecycledValid(x, n) == [buf EXCEPT ![x].blockno = n, ![x].refcnt = 1]

\* Seeded fault: the caller's reference is not counted.
RecycledUnref(x, n) == [buf EXCEPT ![x] = [blockno |-> n, valid |-> FALSE, refcnt |-> 0]]

Recycled(x, n) == [buf EXCEPT ![x] = [blockno |-> n, valid |-> FALSE, refcnt |-> 1]]

\* bget(n) under bcache.lock; acquiresleep() comes after the release.
BgetHit(p, n) ==
  /\ At(p, "idle")
  /\ \E x \in Cached(n) :
       /\ buf' = [buf EXCEPT ![x].refcnt = @ + 1]
       /\ b' = [b EXCEPT ![p] = x]
  /\ Goto(p, "lock")
  /\ UNCHANGED <<lru, pinned, chan, holder, diskVars>>

BgetMiss(p, n) ==
  /\ At(p, "idle") /\ Cached(n) = {}
  /\ IF Unused = {}
     THEN Goto(p, "panic") /\ UNCHANGED <<buf, data, b>>
     ELSE /\ \E x \in Bufs :
               /\ Victim(x)
               /\ buf' = Recycled(x, n)
               /\ data' = [data EXCEPT ![x] = FALSE]
               /\ b' = [b EXCEPT ![p] = x]
          /\ Goto(p, "lock")
  /\ UNCHANGED <<lru, pinned, chan, holder, req, disk>>

\* acquiresleep(), and the test of b->valid in bread().
Lock(p) ==
  /\ At(p, "lock")
  /\ \/ Acquiresleep(p, b[p]) /\ Goto(p, IF buf[b[p]].valid THEN "use" ELSE "read")
     \/ Blocksleep(p, b[p]) /\ UNCHANGED pc
  /\ UNCHANGED <<cacheVars, b, diskVars>>

-----------------------------------------------------------------------------
(* bread(), bwrite() *)

\* The disk has older contents than the buffer.
Dirty(p) == ~disk[buf[b[p]].blockno]

\* virtio_disk_rw(b, 0), after which bread() marks the buffer valid.
StartRead(p) ==
  /\ At(p, "read")
  /\ Request(p, b[p], buf[b[p]].blockno, FALSE)
  /\ Goto(p, "reading")
  /\ UNCHANGED <<cacheVars, b, chan, holder>>

EndRead(p) ==
  /\ At(p, "reading")
  /\ Return(p)
  /\ buf' = [buf EXCEPT ![b[p]].valid = TRUE]
  /\ Goto(p, "use")
  /\ UNCHANGED <<lru, pinned, b, chan, holder>>

\* bwrite(), whose caller holds the lock.
StartWrite(p) ==
  /\ At(p, "use") /\ Dirty(p)
  /\ IF Holdingsleep(p, b[p])
     THEN Request(p, b[p], buf[b[p]].blockno, TRUE) /\ Goto(p, "writing")
     ELSE Goto(p, "panic") /\ UNCHANGED diskVars
  /\ UNCHANGED <<cacheVars, b, chan, holder>>

EndWrite(p) ==
  /\ At(p, "writing")
  /\ Return(p)
  /\ Goto(p, "use")
  /\ UNCHANGED <<cacheVars, b, chan, holder>>

-----------------------------------------------------------------------------
(* The callers *)

\* The caller stores into the locked buffer: the copy on the disk is out of date.
Modify(p) ==
  /\ At(p, "use") /\ p \in Writers
  /\ data' = [data EXCEPT ![b[p]] = TRUE]
  /\ disk' = [disk EXCEPT ![buf[b[p]].blockno] = FALSE]
  /\ UNCHANGED <<cacheVars, pc, b, chan, holder, req>>

Bpin(p) ==
  /\ At(p, "use") /\ b[p] \notin pinned /\ Cardinality(pinned) < MaxPins
  /\ Dirty(p)
  /\ buf' = [buf EXCEPT ![b[p]].refcnt = @ + 1]
  /\ pinned' = pinned \cup {b[p]}
  /\ UNCHANGED <<lru, pc, b, chan, holder, diskVars>>

Bunpin(p) ==
  /\ At(p, "use") /\ b[p] \in pinned /\ ~Dirty(p)
  /\ buf' = [buf EXCEPT ![b[p]].refcnt = @ - 1]
  /\ pinned' = pinned \ {b[p]}
  /\ UNCHANGED <<lru, pc, b, chan, holder, diskVars>>

\* brelse(): the sleep lock first, the reference afterwards.
Brelse(p) ==
  /\ At(p, "use") /\ (Dirty(p) => b[p] \in pinned)
  /\ IF Holdingsleep(p, b[p])
     THEN Releasesleep(b[p]) /\ Goto(p, "unref")
     ELSE Goto(p, "panic") /\ UNCHANGED <<chan, holder>>
  /\ UNCHANGED <<cacheVars, b, diskVars>>

BrelseRef(p) ==
  /\ At(p, "unref")
  /\ buf' = [buf EXCEPT ![b[p]].refcnt = @ - 1]
  /\ lru' = IF buf[b[p]].refcnt = 1 THEN Cons(b[p], Remove(lru, b[p])) ELSE lru
  /\ b' = [b EXCEPT ![p] = Nobody]
  /\ Goto(p, "idle")
  /\ UNCHANGED <<pinned, chan, holder, diskVars>>

-----------------------------------------------------------------------------
Thread(p) ==
  \/ \E n \in Uses[p] : BgetHit(p, n) \/ BgetMiss(p, n)
  \/ Lock(p) \/ StartRead(p) \/ EndRead(p) \/ StartWrite(p) \/ EndWrite(p)
  \/ Modify(p) \/ Bpin(p) \/ Bunpin(p) \/ Brelse(p) \/ BrelseRef(p)

DiskStep(p) == Perform(p) /\ UNCHANGED <<cacheVars, pc, b, chan, holder>>

Next ==
  \/ \E p \in Procs : Thread(p) \/ DiskStep(p)
  \/ \E p \in Procs : Kicked(p) /\ UNCHANGED <<cacheVars, pc, b, holder, diskVars>>

Spec == Init /\ [][Next]_vars

-----------------------------------------------------------------------------
\* bread() returns the latest contents of the block, in the only buffer of the
\* block, whatever other threads, evictions and transfers came in between.
ReadsLatest ==
  /\ \A p \in Procs : pc[p] = "use" =>
       data[b[p]] /\ buf[b[p]].valid /\ holder[b[p]] = p
  /\ \A n \in Blocks : Cardinality(Cached(n)) <= 1

Users(x) == {p \in Procs : b[p] = x}

\* A buffer's refcnt is the number of threads that use or wait for it, and one
\* more if it is pinned: no buffer in use is recycled, none is lost for ever, and
\* with a buffer for every pinned block and for every thread no panic of bio.c is
\* reached, "bget: no buffers" included.
RefsCounted ==
  /\ \A x \in Bufs : buf[x].refcnt = Cardinality(Users(x)) + IF x \in pinned THEN 1 ELSE 0
  /\ \A p \in Procs : pc[p] # "panic"

\* A thread that sleeps in acquiresleep() has a holder that will wake it.
NoLostWakeup == \A p \in Procs : ~Awake(p) => holder[chan[p]] # Nobody
=============================================================================
