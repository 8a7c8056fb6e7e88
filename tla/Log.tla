-------------------------------- MODULE Log --------------------------------
(***************************************************************************)
(* The write-ahead log: kernel/log.c, with the parts of kernel/bio.c it    *)
(* rests on (bpin, bunpin, and the eviction of a buffer that is not        *)
(* pinned).  Several operations run between begin_op() and end_op(); the   *)
(* last one to end commits.  The disk writes one block at a time and the   *)
(* machine may crash between any two writes, also during recovery.         *)
(***************************************************************************)
EXTENDS Integers, Sequences, FiniteSets, Functions

CONSTANTS
  Blocks,       \* the home blocks of the file system
  Values,       \* contents of a block
  Ops,          \* processes in file-system calls
  MAXOPBLOCKS,  \* the blocks begin_op() reserves for an operation
  OpBlocks,     \* the most blocks an operation writes
  LOGSIZE,      \* entries of the header
  nlog,         \* blocks of the log on disk, header included
  Zero          \* what mkfs leaves in a block

ASSUME LogAssumption ==
  /\ MAXOPBLOCKS \in Nat /\ OpBlocks \in 0 .. MAXOPBLOCKS
  /\ LOGSIZE \in Nat /\ nlog \in Nat \ {0}
  /\ Zero \in Values

\* What the log must hold so that log_write() never finds it full.  In the kernel
\* MAXOPBLOCKS = 10 and LOGSIZE = nlog = 30, so OpBlocks may be up to 9.
ASSUME RoomAssumption ==
  /\ IsFiniteSet(Ops)
  /\ OpBlocks < MAXOPBLOCKS /\ OpBlocks < LOGSIZE /\ OpBlocks < nlog - 1
  /\ LOGSIZE - 2 * (MAXOPBLOCKS - OpBlocks) < nlog - 1

VARIABLES
  disk,         \* the home blocks
  logblock,     \* the data blocks of the log on disk
  head,         \* the header on disk: the block numbers, or <<>>
  cache,        \* the buffer cache, seen as the content bread() returns
  pinned,       \* the buffers log_write() has pinned
  lh,           \* the header in memory
  outstanding,
  committing,
  step,         \* where commit() or recover_from_log() is
  tail,         \* its loop variable
  op,           \* each operation: "out", "asleep" in begin_op(), or "in"
  wrote,        \* the blocks each operation wrote
  panicked

ondisk == <<disk, logblock, head>>
vars == <<disk, logblock, head, cache, pinned, lh, outstanding, committing, step, tail,
          op, wrote, panicked>>

Running == panicked = "no"
Booted == Running /\ step \notin {"read_head", "recover", "recover_erase"}

\* mkfs has made the disk; the kernel boots and recovers first.
Init ==
  /\ disk = [b \in Blocks |-> Zero] /\ cache = disk
  /\ logblock = [i \in 1 .. nlog - 1 |-> Zero]
  /\ head = <<>>
  /\ pinned = {} /\ lh = <<>> /\ outstanding = 0 /\ committing = FALSE
  /\ step = "read_head" /\ tail = 1
  /\ op = [o \in Ops |-> "out"] /\ wrote = [o \in Ops |-> {}]
  /\ panicked = "no"

-----------------------------------------------------------------------------
(* begin_op(), log_write(), end_op() *)

\* begin_op(): one turn of its loop, under log.lock.
BeginOp(o) ==
  /\ Booted /\ op[o] = "out"
  /\ IF committing \/ Len(lh) + (outstanding + 1) * MAXOPBLOCKS > LOGSIZE
     THEN op' = [op EXCEPT ![o] = "asleep"] /\ UNCHANGED outstanding
     ELSE op' = [op EXCEPT ![o] = "in"] /\ outstanding' = outstanding + 1
  /\ UNCHANGED <<ondisk, cache, pinned, lh, committing, step, tail, wrote, panicked>>

\* The operations keep to OpBlocks, as filewrite() does when it splits a write.
MayWrite(o, b) == b \in wrote[o] \/ Cardinality(wrote[o]) < OpBlocks

\* An operation modifies a block under its buffer lock and calls log_write().
\* The log's size is tested before an earlier entry for the block is looked for.
LogWrite(o, b, v) ==
  /\ Booted /\ op[o] = "in" /\ MayWrite(o, b)
  /\ cache' = [cache EXCEPT ![b] = v]
  /\ wrote' = [wrote EXCEPT ![o] = @ \cup {b}]
  /\ IF Len(lh) >= LOGSIZE \/ Len(lh) >= nlog - 1
     THEN panicked' = "too big a transaction" /\ UNCHANGED <<lh, pinned>>
     ELSE IF outstanding < 1
     THEN panicked' = "log_write outside of trans" /\ UNCHANGED <<lh, pinned>>
     ELSE /\ lh' = IF b \in Range(lh) THEN lh ELSE Append(lh, b)
          /\ pinned' = pinned \cup {b}
          /\ UNCHANGED panicked
  /\ UNCHANGED <<ondisk, outstanding, committing, step, tail, op>>

\* wakeup(&log): the sleepers test the conditions of begin_op() again.
Wakeup(ops) == [o \in Ops |-> IF ops[o] = "asleep" THEN "out" ELSE ops[o]]

\* Seeded faults: commit() wants more than one block to do anything; commit()
\* writes the header before the log blocks.
EndOpSkipsCommit(o) ==
  /\ Booted /\ op[o] = "in"
  /\ outstanding' = outstanding - 1
  /\ wrote' = [wrote EXCEPT ![o] = {}]
  /\ op' = Wakeup([op EXCEPT ![o] = "out"])
  /\ committing' = (outstanding = 1)
  /\ step' = IF outstanding > 1 THEN step ELSE IF Len(lh) <= 1 THEN "done" ELSE "write_log"
  /\ tail' = 1
  /\ UNCHANGED <<ondisk, cache, pinned, lh, panicked>>

EndOpHeadFirst(o) ==
  /\ Booted /\ op[o] = "in"
  /\ outstanding' = outstanding - 1
  /\ wrote' = [wrote EXCEPT ![o] = {}]
  /\ op' = Wakeup([op EXCEPT ![o] = "out"])
  /\ committing' = (outstanding = 1)
  /\ step' = IF outstanding > 1 THEN step ELSE IF lh = <<>> THEN "done" ELSE "write_head"
  /\ UNCHANGED <<ondisk, cache, pinned, lh, tail, panicked>>

\* end_op(): the last one out commits, any other makes room for a sleeper.
\* commit() of an empty transaction does nothing.
EndOp(o) ==
  /\ Booted /\ op[o] = "in"
  /\ outstanding' = outstanding - 1
  /\ wrote' = [wrote EXCEPT ![o] = {}]
  /\ IF committing
     THEN panicked' = "log.committing" /\ UNCHANGED <<op, committing, step, tail>>
     ELSE /\ IF outstanding = 1
             THEN /\ op' = [op EXCEPT ![o] = "out"]
                  /\ committing' = TRUE
                  /\ step' = (IF lh = <<>> THEN "done" ELSE "write_log")
                  /\ tail' = 1
             ELSE /\ op' = Wakeup([op EXCEPT ![o] = "out"])
                  /\ UNCHANGED <<committing, step, tail>>
          /\ UNCHANGED panicked
  /\ UNCHANGED <<ondisk, cache, pinned, lh>>

-----------------------------------------------------------------------------
(* commit() *)

WriteLog ==
  /\ Running /\ step = "write_log"
  /\ IF tail > Len(lh) THEN step' = "write_head" /\ UNCHANGED <<logblock, tail>>
     ELSE /\ logblock' = [logblock EXCEPT ![tail] = cache[lh[tail]]]
          /\ tail' = tail + 1
          /\ UNCHANGED step
  /\ UNCHANGED <<disk, head, cache, pinned, lh, outstanding, committing, op, wrote, panicked>>

WriteHead ==
  /\ Running /\ step = "write_head"
  /\ head' = lh /\ step' = "install" /\ tail' = 1
  /\ UNCHANGED <<disk, logblock, cache, pinned, lh, outstanding, committing, op, wrote, panicked>>

\* One iteration of install_trans(), in commit() and in recover_from_log().
InstallTrans ==
  /\ Running /\ step \in {"install", "recover"}
  /\ IF tail > Len(lh)
     THEN /\ step' = (IF step = "install" THEN "erase" ELSE "recover_erase")
          /\ UNCHANGED <<disk, cache, pinned, tail>>
     ELSE /\ disk' = [disk EXCEPT ![lh[tail]] = logblock[tail]]
          /\ cache' = [cache EXCEPT ![lh[tail]] = logblock[tail]]
          /\ pinned' = IF step = "install" THEN pinned \ {lh[tail]} ELSE pinned
          /\ tail' = tail + 1
          /\ UNCHANGED step
  /\ UNCHANGED <<logblock, head, lh, outstanding, committing, op, wrote, panicked>>

\* log.lh.n = 0 and the write_head() that erases the transaction.
Erase ==
  /\ Running /\ step \in {"erase", "recover_erase"}
  /\ lh' = <<>> /\ head' = <<>>
  /\ step' = IF step = "erase" THEN "done" ELSE "none"
  /\ UNCHANGED <<disk, logblock, cache, pinned, outstanding, committing, tail, op, wrote, panicked>>

\* Seeded fault: end_op() does not wake the sleepers.
CommitDoneSilent ==
  /\ Running /\ step = "done"
  /\ committing' = FALSE /\ step' = "none"
  /\ UNCHANGED <<ondisk, cache, pinned, lh, outstanding, tail, op, wrote, panicked>>

\* end_op() after commit().
CommitDone ==
  /\ Running /\ step = "done"
  /\ committing' = FALSE /\ step' = "none"
  /\ op' = Wakeup(op)
  /\ UNCHANGED <<ondisk, cache, pinned, lh, outstanding, tail, wrote, panicked>>

-----------------------------------------------------------------------------
\* bget() recycles a buffer nobody holds; the next bread() reads the disk.
Evict(b) ==
  /\ Running /\ b \notin pinned
  /\ cache' = [cache EXCEPT ![b] = disk[b]]
  /\ UNCHANGED <<ondisk, pinned, lh, outstanding, committing, step, tail, op, wrote, panicked>>

\* Power fails, or the kernel panics, and the machine boots again.
Crash ==
  /\ cache' = disk
  /\ pinned' = {} /\ lh' = <<>> /\ outstanding' = 0 /\ committing' = FALSE
  /\ step' = "read_head" /\ tail' = 1
  /\ op' = [o \in Ops |-> "out"] /\ wrote' = [o \in Ops |-> {}]
  /\ panicked' = "no"
  /\ UNCHANGED ondisk

\* read_head() in recover_from_log().
ReadHead ==
  /\ Running /\ step = "read_head"
  /\ lh' = head /\ step' = "recover" /\ tail' = 1
  /\ UNCHANGED <<ondisk, cache, pinned, outstanding, committing, op, wrote, panicked>>

Commit == WriteLog \/ WriteHead \/ InstallTrans \/ Erase \/ CommitDone \/ ReadHead

Next ==
  \/ \E o \in Ops : BeginOp(o) \/ EndOp(o) \/ \E b \in Blocks, v \in Values : LogWrite(o, b, v)
  \/ Commit
  \/ \E b \in Blocks : Evict(b)
  \/ Crash

Spec == Init /\ [][Next]_vars

\* Operations end and the committing process goes on.
FairSpec == Spec /\ WF_vars(Commit) /\ \A o \in Ops : WF_vars(EndOp(o))

-----------------------------------------------------------------------------
\* What a reboot would restore: the home blocks, with the log over them when
\* the header on disk says that it is complete.
Restored ==
  [b \in Blocks |->
     IF b \in Range(head) THEN logblock[CHOOSE i \in 1 .. Len(head) : head[i] = b] ELSE disk[b]]

\* The log implements a disk on which operations are atomic, whatever crashes.
Atomic ==
  INSTANCE AtomicDisk WITH
    mem <- IF step \in {"read_head", "recover", "recover_erase"} THEN Restored ELSE cache,
    durable <- Restored,
    active <- {o \in Ops : op[o] = "in"}
ImplementsAtomicDisk == Atomic!Spec

\* When no operation is in progress and no commit runs, everything that was
\* written survives a crash; and the reservation of begin_op() has kept
\* log_write() and end_op() from panicking.
DurableWhenIdle ==
  /\ panicked = "no"
  /\ (Booted /\ outstanding = 0 /\ ~committing) => Restored = cache /\ lh = <<>> /\ pinned = {}

\* A process that sleeps in begin_op() is woken.
SleeperIsWoken == \A o \in Ops : (op[o] = "asleep") ~> (op[o] # "asleep")
=============================================================================
