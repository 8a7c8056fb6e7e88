----------------------------- MODULE LogProofs -----------------------------
(***************************************************************************)
(* Theorems about Log: for any number of operations and any size of the    *)
(* log, the log never panics, what was written is durable when the system  *)
(* is idle, and the log implements AtomicDisk whatever crashes.            *)
(*                                                                         *)
(* The inductive invariant has two halves.  Reserved counts: what is in    *)
(* the header and what the operations in progress may still add fit into   *)
(* the log.  Images relates, for each step of commit() and of              *)
(* recover_from_log(), the four copies of a block: in the cache, in the    *)
(* log, at home and in what a reboot would restore.                        *)
(***************************************************************************)
EXTENDS Log, TLAPS, FiniteSetTheorems, SequenceTheorems

USE ZenonT(10), SMTT(60)

Recovering == step \in {"read_head", "recover", "recover_erase"}
Committing == step \in {"write_log", "write_head", "install", "erase", "done"}
Active == {o \in Ops : op[o] = "in"}

TypeOK ==
  /\ disk \in [Blocks -> Values] /\ cache \in [Blocks -> Values]
  /\ logblock \in [1 .. nlog - 1 -> Values]
  /\ head \in Seq(Blocks) /\ lh \in Seq(Blocks)
  /\ pinned \subseteq Blocks
  /\ outstanding \in Nat /\ tail \in Nat \ {0}
  /\ Recovering \/ Committing \/ step = "none"
  /\ op \in [Ops -> {"out", "asleep", "in"}]
  /\ wrote \in [Ops -> SUBSET Blocks]

\* The blocks that the operations in progress may still add to the header.
Slack == {x \in Active \X (1 .. OpBlocks) : x[2] > Cardinality(wrote[x[1]])}

\* The most that the reservations let into one header.
Fits(n) == n <= OpBlocks \/ n <= LOGSIZE - 2 * (MAXOPBLOCKS - OpBlocks)

\* The book-keeping of begin_op(), log_write() and end_op().
Reserved ==
  /\ panicked = "no"
  /\ outstanding = Cardinality(Active)
  /\ committing = Committing
  /\ step # "none" => Active = {}
  /\ \A o \in Ops : /\ op[o] # "in" => wrote[o] = {}
                    /\ IsFiniteSet(wrote[o]) /\ Cardinality(wrote[o]) <= OpBlocks
                    /\ wrote[o] \subseteq Range(lh)
  /\ ~Recovering => Fits(Len(lh) + Cardinality(Slack))

Distinct(s) == \A i, j \in 1 .. Len(s) : s[i] = s[j] => i = j

\* The first n blocks of the header are in the log; they are at home.
Logged(n) == \A i \in 1 .. Len(lh) : i <= n => logblock[i] = cache[lh[i]]
Installed(n) == \A i \in 1 .. Len(lh) : i <= n => disk[lh[i]] = logblock[i]

\* The copies of a block at each step.
Images ==
  /\ Distinct(lh) /\ Distinct(head)
  /\ Len(lh) <= nlog - 1 /\ Len(head) <= nlog - 1
  /\ \A n \in Blocks : n \notin pinned => cache[n] = disk[n]
  /\ pinned = IF Recovering THEN {}
              ELSE IF step = "install" THEN {lh[i] : i \in {j \in 1 .. Len(lh) : j >= tail}}
              ELSE IF step = "erase" THEN {} ELSE Range(lh)
  /\ head = IF step \in {"install", "erase", "recover", "recover_erase"} THEN lh
            ELSE IF step = "read_head" THEN head ELSE <<>>
  /\ step = "none" /\ outstanding = 0 => lh = <<>>
  /\ step \in {"read_head", "done"} => lh = <<>>
  /\ step = "write_log" => Logged(tail - 1)
  /\ step \in {"write_head", "install", "erase"} => Logged(Len(lh))
  /\ step \in {"install", "recover"} => Installed(tail - 1)
  /\ step \in {"erase", "recover_erase"} => Installed(Len(lh))

Inv == TypeOK /\ Reserved /\ Images

-----------------------------------------------------------------------------
(* Sets, sequences and counting *)

\* The elements of a sequence, by position.
LEMMA HeaderRange ==
  ASSUME NEW s \in Seq(Blocks)
  PROVE  Range(s) = {s[i] : i \in 1 .. Len(s)} /\ Range(s) \subseteq Blocks
BY DEF Range

\* What log_write() does to the header: one more element, the last.
LEMMA AppendBlock ==
  ASSUME NEW s \in Seq(Blocks), NEW b \in Blocks
  PROVE  /\ Append(s, b) \in Seq(Blocks) /\ Len(Append(s, b)) = Len(s) + 1
         /\ \A i \in 1 .. Len(s) : Append(s, b)[i] = s[i]
         /\ Append(s, b)[Len(s) + 1] = b
         /\ Range(Append(s, b)) = Range(s) \cup {b}
         /\ Distinct(s) /\ b \notin Range(s) => Distinct(Append(s, b))
<1>1. /\ Append(s, b) \in Seq(Blocks) /\ Len(Append(s, b)) = Len(s) + 1
      /\ \A i \in 1 .. Len(s) : Append(s, b)[i] = s[i]
      /\ Append(s, b)[Len(s) + 1] = b
      /\ Len(s) \in Nat
  BY AppendProperties, LenProperties, SMTT(60)
<1> DEFINE t == Append(s, b)
<1> HIDE DEF t
<1>2. /\ t \in Seq(Blocks) /\ Len(t) = Len(s) + 1 /\ Len(s) \in Nat
      /\ \A i \in 1 .. Len(s) : t[i] = s[i]
      /\ t[Len(s) + 1] = b
  BY <1>1 DEF t
<1>3. Range(t) = Range(s) \cup {b}
  <2>1. \A i \in 1 .. Len(t) : i \in 1 .. Len(s) \/ i = Len(s) + 1
    BY <1>2
  <2>2. \A i \in 1 .. Len(s) : i \in 1 .. Len(t)
    BY <1>2
  <2>3. Len(s) + 1 \in 1 .. Len(t)
    BY <1>2
  <2> QED
    BY <1>2, <2>1, <2>2, <2>3, HeaderRange
<1>4. Distinct(s) /\ b \notin Range(s) => Distinct(t)
  <2> SUFFICES ASSUME Distinct(s), b \notin Range(s),
                      NEW i \in 1 .. Len(t), NEW j \in 1 .. Len(t), t[i] = t[j]
               PROVE  i = j
    BY DEF Distinct
  <2>1. \A k \in 1 .. Len(s) : t[k] # b
    BY <1>2, HeaderRange
  <2>2. \A k \in 1 .. Len(t) : k \in 1 .. Len(s) \/ k = Len(s) + 1
    BY <1>2
  <2> QED
    BY <1>2, <2>1, <2>2 DEF Distinct
<1> QED
  BY <1>2, <1>3, <1>4 DEF t

\* The empty header.
LEMMA EmptyHeader ==
  <<>> \in Seq(Blocks) /\ Len(<<>>) = 0 /\ Range(<<>>) = {} /\ Distinct(<<>>)
<1>1. <<>> \in Seq(Blocks) /\ Len(<<>>) = 0
  BY EmptySeq
<1>2. Range(<<>>) = {}
  BY <1>1 DEF Range
<1> QED
  BY <1>1, <1>2 DEF Distinct

\* Operations in progress, and blocks they may still write, can be counted.
LEMMA CountSlack ==
  ASSUME NEW A \in SUBSET Ops, NEW S \in SUBSET (A \X (1 .. OpBlocks))
  PROVE  /\ IsFiniteSet(A) /\ Cardinality(A) \in Nat
         /\ IsFiniteSet(S) /\ Cardinality(S) \in Nat
         /\ Cardinality(S) <= Cardinality(A) * OpBlocks
         /\ A = {} => Cardinality(A) = 0 /\ Cardinality(S) = 0
<1>1. IsFiniteSet(A)
  BY FS_Subset, RoomAssumption
<1>2. IsFiniteSet(1 .. OpBlocks) /\ Cardinality(1 .. OpBlocks) = OpBlocks
  <2>1. OpBlocks \in Nat
    BY LogAssumption, SMTT(60)
  <2> QED
    BY <2>1, FS_Interval
<1>3. /\ IsFiniteSet(A \X (1 .. OpBlocks))
      /\ Cardinality(A \X (1 .. OpBlocks)) = Cardinality(A) * OpBlocks
  BY <1>1, <1>2, FS_Product, ZenonT(60)
<1>4. IsFiniteSet(S) /\ Cardinality(S) <= Cardinality(A) * OpBlocks
  BY <1>3, FS_Subset
<1>5. A = {} => S = {}
  OBVIOUS
<1> QED
  BY <1>1, <1>4, <1>5, FS_CardinalityType, FS_EmptySet

\* The two sets as they are now and after a step.
LEMMA Countable ==
  /\ Active \in SUBSET Ops /\ Slack \in SUBSET (Active \X (1 .. OpBlocks))
  /\ Active' \in SUBSET Ops /\ Slack' \in SUBSET (Active' \X (1 .. OpBlocks))
BY DEF Active, Slack

\* What fits, fits with less.
LEMMA FitsLess ==
  ASSUME NEW n \in Int, NEW m \in Int, m <= n, Fits(n)
  PROVE  Fits(m)
BY LogAssumption DEF Fits

\* A header that fits leaves log_write() one entry more.
LEMMA FitsBelow ==
  ASSUME NEW n \in Int, Fits(n)
  PROVE  n < LOGSIZE /\ n < nlog - 1
BY LogAssumption, RoomAssumption DEF Fits

\* The test of begin_op(): with k operations in progress and n blocks in the
\* header, it admits one more only when all they may write fits.
LEMMA Admitted ==
  ASSUME NEW n \in Nat, NEW k \in Nat, NEW m \in Nat,
         ~(n + (k + 1) * MAXOPBLOCKS > LOGSIZE), m <= (k + 1) * OpBlocks, k = 0 => n = 0
  PROVE  Fits(n + m)
<1>1. PICK d \in Nat : MAXOPBLOCKS = OpBlocks + d
  <2>1. OpBlocks \in Nat /\ MAXOPBLOCKS \in Nat /\ OpBlocks < MAXOPBLOCKS
    BY LogAssumption, RoomAssumption
  <2>2. MAXOPBLOCKS - OpBlocks \in Nat /\ MAXOPBLOCKS = OpBlocks + (MAXOPBLOCKS - OpBlocks)
    BY <2>1
  <2> QED
    BY <2>2
<1>2. OpBlocks \in Nat /\ LOGSIZE \in Nat /\ MAXOPBLOCKS - OpBlocks = d
  BY <1>1, LogAssumption
<1>3. CASE k = 0
  BY <1>2, <1>3 DEF Fits
<1>4. CASE k >= 1
  <2>1. (k + 1) * (OpBlocks + d) = (k + 1) * OpBlocks + (k + 1) * d
    BY <1>2
  <2>2. (k + 1) * d = 2 * d + (k - 1) * d /\ (k - 1) * d >= 0
    BY <1>2, <1>4
  <2>3. PICK x \in Int : x = (k + 1) * OpBlocks
    BY <1>2
  <2>4. PICK y \in Int : y = (k + 1) * d
    BY <1>2
  <2>5. y >= 2 * d
    BY <1>2, <2>2, <2>4
  <2>6. n + x + y <= LOGSIZE
    BY <1>1, <1>2, <2>1, <2>3, <2>4
  <2>7. n + m <= LOGSIZE - 2 * d
    BY <1>2, <2>3, <2>5, <2>6
  <2> QED
    BY <1>2, <2>7 DEF Fits
<1> QED
  BY <1>3, <1>4

\* An operation in progress is counted, so end_op() never counts below zero.
LEMMA CountedOp ==
  ASSUME TypeOK, Reserved, NEW o \in Active
  PROVE  outstanding >= 1 /\ (outstanding = 1 => Active = {o})
<1>1. IsFiniteSet(Active) /\ outstanding = Cardinality(Active) /\ outstanding \in Nat
  BY Countable, CountSlack DEF Reserved
<1>2. outstanding # 0
  BY <1>1, FS_EmptySet
<1>3. outstanding = 1 => Active = {o}
  <2> SUFFICES ASSUME Cardinality(Active) = 1 PROVE Active = {o}
    BY <1>1
  <2>1. \E x : Active = {x}
    BY <1>1, FS_Singleton
  <2> QED
    BY <2>1
<1> QED
  BY <1>1, <1>2, <1>3

-----------------------------------------------------------------------------
(* Types *)

\* Every action keeps the types; the block install_trans() and write_log() handle
\* is one of the header's.
LEMMA TypeStep ==
  ASSUME TypeOK, Reserved, Images, Next
  PROVE  TypeOK'
<1> USE DEF Recovering, Committing
<1>1. ASSUME NEW o \in Ops, BeginOp(o) PROVE TypeOK'
  BY <1>1, SMTT(60) DEF TypeOK, BeginOp, ondisk
<1>2. ASSUME NEW o \in Ops, EndOp(o) PROVE TypeOK'
  <2>1. outstanding >= 1 /\ outstanding \in Nat
    BY <1>2, CountedOp DEF EndOp, Active, TypeOK
  <2>2. outstanding' \in Nat
    BY <1>2, <2>1 DEF EndOp
  <2>3. op' \in [Ops -> {"out", "asleep", "in"}] /\ wrote' \in [Ops -> SUBSET Blocks]
    BY <1>2 DEF EndOp, TypeOK, Wakeup
  <2>4. tail' \in Nat \ {0} /\ (Recovering \/ Committing \/ step = "none")'
    BY <1>2, SMTT(60) DEF EndOp, TypeOK
  <2> QED
    BY <1>2, <2>2, <2>3, <2>4 DEF EndOp, TypeOK, ondisk
<1>3. ASSUME NEW o \in Ops, NEW n \in Blocks, NEW v \in Values, LogWrite(o, n, v)
      PROVE  TypeOK'
  <2>1. lh' \in Seq(Blocks) /\ pinned' \subseteq Blocks
    <3>1. (lh' = lh \/ lh' = Append(lh, n)) /\ (pinned' = pinned \/ pinned' = pinned \cup {n})
      BY <1>3, ZenonT(60) DEF LogWrite
    <3>2. lh \in Seq(Blocks) /\ pinned \subseteq Blocks
      BY DEF TypeOK
    <3>3. Append(lh, n) \in Seq(Blocks)
      BY <3>2, AppendBlock
    <3> QED
      BY <3>1, <3>2, <3>3
  <2>2. cache' \in [Blocks -> Values] /\ wrote' \in [Ops -> SUBSET Blocks]
    BY <1>3, ZenonT(60) DEF LogWrite, TypeOK
  <2> QED
    BY <1>3, <2>1, <2>2, ZenonT(60) DEF LogWrite, TypeOK, ondisk
<1>4. CASE WriteLog
  <2>1. tail <= Len(lh) => lh[tail] \in Blocks
    BY ElementOfSeq, LenProperties, SMTT(60) DEF TypeOK
  <2>2. logblock' \in [1 .. nlog - 1 -> Values]
    BY <1>4, <2>1, SMTT(60) DEF TypeOK, WriteLog
  <2> QED
    BY <1>4, <2>2, SMTT(60) DEF TypeOK, WriteLog
<1>5. CASE WriteHead
  BY <1>5, SMTT(60) DEF TypeOK, WriteHead
<1>6. CASE InstallTrans
  <2>1. tail <= Len(lh) => lh[tail] \in Blocks /\ logblock[tail] \in Values
    <3>1. Len(lh) \in Nat /\ Len(lh) <= nlog - 1 /\ nlog \in Nat
      BY LenProperties, LogAssumption DEF TypeOK, Images
    <3> QED
      BY <3>1, ElementOfSeq, SMTT(60) DEF TypeOK
  <2>2. disk' \in [Blocks -> Values] /\ cache' \in [Blocks -> Values] /\ pinned' \subseteq Blocks
    BY <1>6, <2>1, SMTT(60) DEF TypeOK, InstallTrans
  <2> QED
    BY <1>6, <2>2, SMTT(60) DEF TypeOK, InstallTrans
<1>7. CASE Erase
  BY <1>7, EmptyHeader DEF TypeOK, Erase
<1>8. CASE CommitDone
  BY <1>8 DEF TypeOK, CommitDone, Wakeup, ondisk
<1>9. ASSUME NEW n \in Blocks, Evict(n) PROVE TypeOK'
  BY <1>9 DEF TypeOK, Evict, ondisk
<1>10. CASE Crash
  BY <1>10, EmptyHeader, SMTT(60) DEF TypeOK, Crash, ondisk
<1>11. CASE ReadHead
  BY <1>11, SMTT(60) DEF TypeOK, ReadHead, ondisk
<1> QED
  BY ZenonT(60), SMTT(60), <1>1, <1>2, <1>3, <1>4, <1>5, <1>6, <1>7, <1>8, <1>9, <1>10, <1>11 DEF Next, Commit

-----------------------------------------------------------------------------
(* The reservations *)

\* begin_op() that finds the log busy or full changes nothing that is counted; an
\* operation that it admits has room for all it may write.
LEMMA BeginReserved ==
  ASSUME TypeOK, Reserved, Images, NEW o \in Ops, BeginOp(o)
  PROVE  Reserved'
<1>1. /\ panicked' = panicked /\ wrote' = wrote /\ lh' = lh /\ step' = step
      /\ committing' = committing
  BY DEF BeginOp
<1>2. CASE committing \/ Len(lh) + (outstanding + 1) * MAXOPBLOCKS > LOGSIZE
  <2>1. op' = [op EXCEPT ![o] = "asleep"] /\ outstanding' = outstanding /\ op[o] = "out"
    BY <1>2 DEF BeginOp
  <2>2. Active' = Active /\ \A q \in Ops : op'[q] # "in" => op[q] # "in"
    BY <2>1 DEF Active, TypeOK
  <2>3. Slack' = Slack
    BY <1>1, <2>2 DEF Slack
  <2> QED
    BY <1>1, <2>1, <2>2, <2>3 DEF Reserved, Committing, Recovering
<1>3. CASE ~(committing \/ Len(lh) + (outstanding + 1) * MAXOPBLOCKS > LOGSIZE)
  <2>1. /\ op' = [op EXCEPT ![o] = "in"] /\ outstanding' = outstanding + 1
        /\ op[o] = "out" /\ step = "none"
    BY <1>3, ZenonT(60) DEF BeginOp, Booted, TypeOK, Reserved, Recovering, Committing
  <2>2. /\ Active' = Active \cup {o} /\ o \notin Active
        /\ \A q \in Ops : op'[q] # "in" => op[q] # "in"
    BY <2>1 DEF Active, TypeOK
  <2>3. outstanding \in Nat /\ outstanding' = Cardinality(Active')
    BY <2>1, <2>2, Countable, CountSlack, FS_AddElement DEF Reserved
  <2>4. /\ Cardinality(Slack') \in Nat
        /\ Cardinality(Slack') <= (outstanding + 1) * OpBlocks
    BY <2>1, <2>3, Countable, CountSlack
  <2>5. Len(lh) \in Nat /\ (outstanding = 0 => Len(lh) = 0)
    BY <2>1, EmptyHeader, LenProperties DEF TypeOK, Images
  <2>6. Fits(Len(lh) + Cardinality(Slack'))
    BY <1>3, <2>3, <2>4, <2>5, Admitted
  <2> QED
    BY <1>1, <2>1, <2>2, <2>3, <2>6 DEF Reserved, Committing, Recovering
<1> QED
  BY <1>2, <1>3

\* log_write() never finds the log full, nor itself outside of a transaction.
LEMMA WriteAccepted ==
  ASSUME TypeOK, Reserved, NEW o \in Ops, NEW n \in Blocks, NEW v \in Values, LogWrite(o, n, v)
  PROVE  /\ o \in Active /\ step = "none"
         /\ lh' = (IF n \in Range(lh) THEN lh ELSE Append(lh, n))
         /\ pinned' = pinned \cup {n} /\ panicked' = panicked
         /\ Len(lh) < nlog - 1
<1>1. o \in Active /\ step = "none"
  BY ZenonT(60) DEF LogWrite, Active, Reserved
<1>2. Len(lh) \in Nat /\ Cardinality(Slack) \in Nat
  BY LenProperties, Countable, CountSlack, ZenonT(60) DEF TypeOK
<1>3. Fits(Len(lh) + Cardinality(Slack))
  BY <1>1 DEF Reserved, Recovering
<1>4. Fits(Len(lh))
  BY <1>2, <1>3, FitsLess, SMTT(60)
<1>5. Len(lh) < LOGSIZE /\ Len(lh) < nlog - 1
  BY <1>2, <1>4, FitsBelow
<1>6. ~(Len(lh) >= LOGSIZE \/ Len(lh) >= nlog - 1)
  BY <1>2, <1>5, LogAssumption
<1>7. ~(outstanding < 1)
  BY <1>1, CountedOp, SMTT(60) DEF TypeOK
<1> QED
  BY <1>1, <1>5, <1>6, <1>7 DEF LogWrite

\* A block that an operation writes for the first time uses up one of those it
\* may write; one that it wrote before is in the header already.
LEMMA WriteReserved ==
  ASSUME TypeOK, Reserved, NEW o \in Ops, NEW n \in Blocks, NEW v \in Values, LogWrite(o, n, v)
  PROVE  Reserved'
<1>1. /\ o \in Active /\ step = "none"
      /\ lh' = (IF n \in Range(lh) THEN lh ELSE Append(lh, n))
      /\ panicked' = panicked
  BY WriteAccepted
<1>2. /\ op' = op /\ step' = step /\ committing' = committing /\ outstanding' = outstanding
      /\ wrote' = [wrote EXCEPT ![o] = @ \cup {n}] /\ MayWrite(o, n)
  BY ZenonT(60) DEF LogWrite
<1>3. Active' = Active
  BY <1>2 DEF Active
<1>4. /\ lh \in Seq(Blocks) /\ Len(lh) \in Nat /\ wrote \in [Ops -> SUBSET Blocks]
      /\ Cardinality(Slack) \in Nat /\ IsFiniteSet(Slack)
  BY LenProperties, Countable, CountSlack, ZenonT(60) DEF TypeOK
<1>5. Range(lh') = Range(lh) \cup {n} /\ Len(lh') \in Nat /\ Len(lh') <= Len(lh) + 1
  BY <1>1, <1>4, AppendBlock, SMTT(60)
<1>6. Fits(Len(lh) + Cardinality(Slack))
  BY <1>1 DEF Reserved, Recovering
<1>7. IsFiniteSet(wrote[o]) /\ Cardinality(wrote[o]) \in Nat /\ Cardinality(wrote[o]) <= OpBlocks
  BY FS_CardinalityType DEF Reserved
<1>8. CASE n \in wrote[o]
  <2>1. wrote' = wrote
    BY <1>2, <1>4, <1>8
  <2>2. lh' = lh
    BY <1>1, <1>8 DEF Reserved
  <2>3. Slack' = Slack
    BY <1>3, <2>1 DEF Slack
  <2> QED
    BY <1>1, <1>2, <1>3, <2>1, <2>2, <2>3, ZenonT(60) DEF Reserved, Committing, Recovering
<1>9. CASE n \notin wrote[o]
  <2>1. Cardinality(wrote[o]) < OpBlocks
    BY <1>2, <1>9 DEF MayWrite
  <2>2. /\ wrote'[o] = wrote[o] \cup {n}
        /\ \A q \in Ops : q # o => wrote'[q] = wrote[q]
    BY <1>2, <1>4
  <2>3. IsFiniteSet(wrote'[o]) /\ Cardinality(wrote'[o]) = Cardinality(wrote[o]) + 1
    BY <1>7, <1>9, <2>2, FS_AddElement, SMTT(60)
  <2> DEFINE e == <<o, Cardinality(wrote[o]) + 1>>
  <2>4. e \in Slack
    BY <1>1, <1>7, <2>1, LogAssumption DEF Slack
  <2>5. Slack' = Slack \ {e}
    <3> SUFFICES ASSUME NEW q \in Active, NEW i \in 1 .. OpBlocks
                 PROVE  i > Cardinality(wrote'[q]) <=>
                          i > Cardinality(wrote[q]) /\ <<q, i>> # e
      BY <1>3, SMTT(60) DEF Slack
    <3>1. CASE q = o
      BY <1>7, <2>3, <3>1
    <3>2. CASE q # o
      BY <2>2, <3>2 DEF Active
    <3> QED
      BY <3>1, <3>2
  <2> HIDE DEF e
  <2>6. Cardinality(Slack') = Cardinality(Slack) - 1
    BY <1>4, <2>4, <2>5, FS_RemoveElement, ZenonT(60)
  <2>7. Fits(Len(lh') + Cardinality(Slack'))
    BY <1>4, <1>5, <1>6, <2>6, FitsLess, SMTT(60)
  <2>8. \A q \in Ops : /\ op'[q] # "in" => wrote'[q] = {}
                       /\ IsFiniteSet(wrote'[q]) /\ Cardinality(wrote'[q]) <= OpBlocks
                       /\ wrote'[q] \subseteq Range(lh')
    <3> SUFFICES ASSUME NEW q \in Ops
                 PROVE  /\ op'[q] # "in" => wrote'[q] = {}
                        /\ IsFiniteSet(wrote'[q]) /\ Cardinality(wrote'[q]) <= OpBlocks
                        /\ wrote'[q] \subseteq Range(lh')
      OBVIOUS
    <3>1. /\ op[q] # "in" => wrote[q] = {}
          /\ IsFiniteSet(wrote[q]) /\ Cardinality(wrote[q]) <= OpBlocks
          /\ wrote[q] \subseteq Range(lh)
      BY DEF Reserved
    <3>2. CASE q = o
      BY <1>1, <1>2, <1>5, <1>7, <2>1, <2>2, <2>3, <3>1, <3>2, LogAssumption, SMTT(60) DEF Active
    <3>3. CASE q # o
      BY <1>2, <1>5, <2>2, <3>1, <3>3
    <3> QED
      BY <3>2, <3>3
  <2> QED
    BY <1>1, <1>2, <1>3, <2>7, <2>8, ZenonT(60) DEF Reserved, Committing, Recovering
<1> QED
  BY <1>8, <1>9

\* end_op() of the last operation leaves none in progress when it starts to
\* commit; an operation that ends gives up what it has not written.
LEMMA EndReserved ==
  ASSUME TypeOK, Reserved, NEW o \in Ops, EndOp(o)
  PROVE  Reserved'
<1>1. o \in Active /\ step = "none" /\ committing = FALSE
  <2>1. o \in Active /\ step = "none"
    BY DEF EndOp, Active, Reserved
  <2>2. Committing = FALSE
    BY <2>1 DEF Committing
  <2> QED
    BY <2>1, <2>2 DEF Reserved
<1>2. outstanding >= 1 /\ outstanding \in Nat /\ (outstanding = 1 => Active = {o})
  BY <1>1, CountedOp DEF TypeOK
<1>3. /\ panicked' = panicked /\ lh' = lh /\ outstanding' = outstanding - 1
      /\ wrote' = [wrote EXCEPT ![o] = {}]
      /\ op' = [op EXCEPT ![o] = "out"] \/ op' = Wakeup([op EXCEPT ![o] = "out"])
      /\ IF outstanding = 1 THEN committing' = TRUE /\ step' \in {"done", "write_log"}
                            ELSE committing' = committing /\ step' = step
  BY <1>1 DEF EndOp
<1>4. \A q \in Ops : op'[q] = "in" <=> op[q] = "in" /\ q # o
  BY <1>3 DEF TypeOK, Wakeup
<1>5. Active' = Active \ {o}
  BY <1>4 DEF Active
<1>6. outstanding' = Cardinality(Active')
  BY <1>1, <1>3, <1>5, Countable, CountSlack, FS_RemoveElement DEF Reserved
<1>7. /\ wrote'[o] = {}
      /\ \A q \in Ops : q # o => wrote'[q] = wrote[q]
  BY <1>3 DEF TypeOK
<1>8. Slack' \in SUBSET Slack
  BY <1>5, <1>7 DEF Slack, Active
<1>9. /\ Cardinality(Slack) \in Nat /\ Cardinality(Slack') \in Nat
      /\ Cardinality(Slack') <= Cardinality(Slack)
  BY <1>8, Countable, CountSlack, FS_Subset, ZenonT(60)
<1>10. Fits(Len(lh) + Cardinality(Slack))
  BY <1>1 DEF Reserved, Recovering
<1>11. Fits(Len(lh') + Cardinality(Slack'))
  <2>1. Len(lh) \in Nat
    BY LenProperties DEF TypeOK
  <2> QED
    BY <1>3, <1>9, <1>10, <2>1, FitsLess, SMTT(60)
<1>12. \A q \in Ops : /\ op'[q] # "in" => wrote'[q] = {}
                      /\ IsFiniteSet(wrote'[q]) /\ Cardinality(wrote'[q]) <= OpBlocks
                      /\ wrote'[q] \subseteq Range(lh')
  <2>1. OpBlocks \in Nat
    BY LogAssumption
  <2> QED
    BY <1>3, <1>4, <1>7, <2>1, FS_EmptySet, SMTT(60) DEF Reserved
<1>13. committing' = Committing' /\ (step' # "none" => Active' = {})
  <2>1. CASE outstanding = 1
    <3>1. step' \in {"done", "write_log"} /\ committing' = TRUE /\ Active' = {}
      BY <1>2, <1>3, <1>5, <2>1
    <3>2. Committing' = TRUE
      BY <3>1 DEF Committing
    <3> QED
      BY <3>1, <3>2, ZenonT(60)
  <2>2. CASE outstanding # 1
    <3>1. step' = "none" /\ committing' = FALSE
      BY <1>1, <1>3, <2>2
    <3>2. Committing' = FALSE
      BY <3>1 DEF Committing
    <3>3. committing' = Committing'
      BY <3>1, <3>2, ZenonT(60)
    <3> QED
      BY <3>1, <3>3, ZenonT(60)
  <2> QED
    BY <2>1, <2>2
<1> QED
  BY <1>3, <1>6, <1>11, <1>12, <1>13 DEF Reserved

\* The steps of commit() and of the recovery, a crash, and the eviction of a
\* buffer: no operation is in progress, or nothing that is counted changes.
LEMMA CommitReserved ==
  ASSUME TypeOK, Reserved, Images, Commit \/ Crash \/ \E n \in Blocks : Evict(n)
  PROVE  Reserved'
<1>1. ASSUME wrote' = wrote, Active' = Active,
             panicked' = panicked, outstanding' = outstanding
      PROVE  /\ panicked' = "no" /\ outstanding' = Cardinality(Active')
             /\ Slack' = Slack /\ (Active = {} => Cardinality(Slack') = 0)
             /\ \A o \in Ops : /\ op'[o] # "in" => wrote'[o] = {}
                               /\ IsFiniteSet(wrote'[o]) /\ Cardinality(wrote'[o]) <= OpBlocks
             /\ \A o \in Ops : Active = {} => wrote'[o] = {}
  <2>1. Slack' = Slack
    BY <1>1 DEF Slack
  <2>2. \A o \in Ops : op'[o] # "in" <=> op[o] # "in"
    BY <1>1 DEF Active
  <2>3. Active = {} => Cardinality(Slack) = 0
    BY Countable, CountSlack
  <2>4. /\ panicked' = "no" /\ outstanding' = Cardinality(Active')
        /\ \A o \in Ops : /\ op[o] # "in" => wrote'[o] = {}
                          /\ IsFiniteSet(wrote'[o]) /\ Cardinality(wrote'[o]) <= OpBlocks
    BY <1>1, ZenonT(60) DEF Reserved
  <2>5. \A o \in Ops : Active = {} => wrote'[o] = {}
    BY <2>4 DEF Active
  <2> QED
    BY <2>1, <2>2, <2>3, <2>4, <2>5, ZenonT(60)
<1>2. Fits(0)
  BY LogAssumption DEF Fits
<1>3. CASE WriteLog \/ WriteHead \/ InstallTrans
  <2>1. /\ wrote' = wrote /\ op' = op /\ panicked' = panicked /\ outstanding' = outstanding
        /\ lh' = lh /\ committing' = committing /\ step # "none" /\ step' # "none"
        /\ (Committing' <=> Committing) /\ (Recovering' <=> Recovering)
    BY <1>3 DEF WriteLog, WriteHead, InstallTrans, Committing, Recovering
  <2>2. Active' = Active
    BY <2>1 DEF Active
  <2>3. committing' = Committing'
    BY <2>1 DEF Reserved, Committing
  <2> QED
    BY <1>1, <2>1, <2>2, <2>3 DEF Reserved
<1>4. CASE Erase
  <2>1. /\ wrote' = wrote /\ op' = op /\ panicked' = panicked /\ outstanding' = outstanding
        /\ lh' = <<>> /\ committing' = committing /\ Active = {} /\ step \in {"erase", "recover_erase"}
        /\ step' = (IF step = "erase" THEN "done" ELSE "none")
    BY <1>4 DEF Erase, Reserved
  <2>2. Active' = Active
    BY <2>1 DEF Active
  <2>3. committing' = Committing'
    BY <2>1 DEF Reserved, Committing
  <2>4. Len(lh') = 0 /\ Range(lh') = {}
    BY <2>1, EmptyHeader
  <2>5. Fits(Len(lh') + Cardinality(Slack'))
    BY <1>1, <1>2, <2>1, <2>2, <2>4
  <2> QED
    BY <1>1, <2>1, <2>2, <2>3, <2>4, <2>5 DEF Reserved
<1>5. CASE CommitDone
  <2>1. /\ wrote' = wrote /\ panicked' = panicked /\ outstanding' = outstanding
        /\ lh' = lh /\ committing' = FALSE /\ step = "done" /\ step' = "none"
        /\ op' = Wakeup(op)
    BY <1>5 DEF CommitDone
  <2>2. Active' = Active
    BY <2>1 DEF Active, Wakeup, TypeOK
  <2> QED
    <3>1. Committing' = FALSE /\ ~Recovering
      BY <2>1 DEF Committing, Recovering
    <3>2. Fits(Len(lh') + Cardinality(Slack'))
      BY <1>1, <2>1, <2>2, <3>1 DEF Reserved
    <3> QED
      BY <1>1, <2>1, <2>2, <3>1, <3>2, ZenonT(60) DEF Reserved
<1>6. CASE ReadHead
  <2>1. /\ wrote' = wrote /\ op' = op /\ panicked' = panicked /\ outstanding' = outstanding
        /\ committing' = committing /\ step = "read_head" /\ step' = "recover"
    BY <1>6 DEF ReadHead
  <2>2. Active' = Active /\ Active = {}
    BY <2>1 DEF Active, Reserved
  <2>3. committing' = Committing'
    BY <2>1 DEF Reserved, Committing
  <2> QED
    BY <1>1, <2>1, <2>2, <2>3 DEF Reserved, Recovering
<1>7. CASE Crash
  <2>1. Active' = {} /\ \A o \in Ops : wrote'[o] = {}
    BY <1>7 DEF Crash, Active
  <2>2. OpBlocks \in Nat
    BY LogAssumption
  <2> QED
    <3>1. Committing' = FALSE /\ Recovering'
      BY <1>7 DEF Crash, Committing, Recovering
    <3>2. committing' = FALSE /\ panicked' = "no" /\ outstanding' = 0
      BY <1>7 DEF Crash
    <3>3. Cardinality(Active') = 0 /\ IsFiniteSet({}) /\ Cardinality({}) = 0
      BY <2>1, FS_EmptySet
    <3>4. \A o \in Ops : /\ op'[o] # "in" => wrote'[o] = {}
                         /\ IsFiniteSet(wrote'[o]) /\ Cardinality(wrote'[o]) <= OpBlocks
                         /\ wrote'[o] \subseteq Range(lh')
      BY <2>1, <2>2, <3>3
    <3> QED
      BY <2>1, <3>1, <3>2, <3>3, <3>4, ZenonT(60) DEF Reserved
<1>8. ASSUME NEW n \in Blocks, Evict(n) PROVE Reserved'
  <2>1. /\ wrote' = wrote /\ op' = op /\ panicked' = panicked /\ outstanding' = outstanding
        /\ lh' = lh /\ committing' = committing /\ step' = step
    BY <1>8 DEF Evict
  <2>2. Active' = Active
    BY <2>1 DEF Active
  <2> QED
    BY <1>1, <2>1, <2>2 DEF Reserved, Committing, Recovering
<1> QED
  BY <1>3, <1>4, <1>5, <1>6, <1>7, <1>8 DEF Commit

-----------------------------------------------------------------------------
(* The copies of a block *)

\* begin_op() and the eviction of a clean buffer touch no copy.
LEMMA SameImages ==
  ASSUME Images, UNCHANGED <<disk, logblock, head, cache, pinned, lh, step, tail>>,
         step = "none" /\ outstanding' = 0 => lh = <<>>
  PROVE  Images'
<1>1. Logged(tail - 1)' = Logged(tail - 1) /\ Logged(Len(lh))' = Logged(Len(lh))
  BY DEF Logged
<1>2. Installed(tail - 1)' = Installed(tail - 1) /\ Installed(Len(lh))' = Installed(Len(lh))
  BY DEF Installed
<1> QED
  BY <1>1, <1>2, SMTT(60) DEF Images, Recovering, Distinct

\* log_write() pins what it makes differ from the disk.
LEMMA WriteImages ==
  ASSUME TypeOK, Reserved, Images,
         NEW o \in Ops, NEW n \in Blocks, NEW v \in Values, LogWrite(o, n, v)
  PROVE  Images'
<1>1. /\ o \in Active /\ step = "none"
      /\ lh' = (IF n \in Range(lh) THEN lh ELSE Append(lh, n))
      /\ pinned' = pinned \cup {n} /\ Len(lh) < nlog - 1
  BY WriteAccepted
<1>2. /\ step' = step /\ outstanding' = outstanding /\ head' = head /\ disk' = disk
      /\ cache' = [cache EXCEPT ![n] = v]
  BY ZenonT(60) DEF LogWrite, ondisk
<1>3. lh \in Seq(Blocks) /\ Len(lh) \in Nat /\ nlog \in Nat /\ outstanding >= 1 /\ outstanding \in Nat
  BY <1>1, LenProperties, LogAssumption, CountedOp DEF TypeOK
<1>4. pinned = Range(lh) /\ head = <<>> /\ Distinct(lh)
  BY <1>1 DEF Images, Recovering
<1>5. Range(lh') = Range(lh) \cup {n} /\ Len(lh') <= nlog - 1 /\ Distinct(lh')
  BY <1>1, <1>3, <1>4, AppendBlock, SMTT(60)
<1>6. \A m \in Blocks : m \notin pinned' => cache'[m] = disk'[m]
  BY <1>1, <1>2 DEF TypeOK, Images
<1>7. pinned' = Range(lh')
  BY <1>1, <1>4, <1>5
<1>8. Distinct(head') /\ Len(head') <= nlog - 1
  BY <1>2 DEF Images
<1> QED
  BY <1>1, <1>2, <1>3, <1>4, <1>5, <1>6, <1>7, <1>8, SMTT(60) DEF Images, Recovering

\* end_op() starts commit() with nothing logged yet.
LEMMA EndImages ==
  ASSUME TypeOK, Reserved, Images, NEW o \in Ops, EndOp(o)
  PROVE  Images'
<1>1. o \in Active /\ step = "none" /\ committing = FALSE
  <2>1. o \in Active /\ step = "none"
    BY DEF EndOp, Active, Reserved
  <2>2. Committing = FALSE
    BY <2>1 DEF Committing
  <2> QED
    BY <2>1, <2>2 DEF Reserved
<1>2. UNCHANGED <<disk, logblock, head, cache, pinned, lh>> /\ outstanding' = outstanding - 1
  BY DEF EndOp, ondisk
<1>3. outstanding >= 1 /\ outstanding \in Nat
  BY <1>1, CountedOp DEF TypeOK
<1>4. CASE outstanding # 1
  <2>1. step' = step /\ tail' = tail
    BY <1>1, <1>4 DEF EndOp
  <2>2. outstanding' # 0
    BY <1>2, <1>3, <1>4
  <2> QED
    BY <1>2, <2>1, <2>2, SameImages
<1>5. CASE outstanding = 1
  <2>1. step' = (IF lh = <<>> THEN "done" ELSE "write_log") /\ tail' = 1
    BY <1>1, <1>5 DEF EndOp
  <2>2. Logged(tail - 1)'
    BY <2>1 DEF Logged
  <2>3. pinned = Range(lh) /\ head = <<>>
    BY <1>1 DEF Images, Recovering
  <2> QED
    BY <1>1, <1>2, <2>1, <2>2, <2>3, SMTT(60) DEF Images, Recovering, Distinct
<1> QED
  BY <1>4, <1>5

\* write_log() copies the cache into the log; write_head() commits a complete log.
LEMMA LogImages ==
  ASSUME TypeOK, Images, WriteLog \/ WriteHead
  PROVE  Images'
<1>1. lh \in Seq(Blocks) /\ Len(lh) \in Nat /\ tail \in Nat \ {0}
  BY LenProperties DEF TypeOK
<1>2. step \in {"write_log", "write_head"} /\ UNCHANGED <<disk, cache, pinned, lh, outstanding>>
  BY DEF WriteLog, WriteHead
<1>3. pinned = Range(lh) /\ head = <<>>
  BY <1>2 DEF Images, Recovering
<1>4. CASE WriteLog /\ tail > Len(lh)
  <2>1. step' = "write_head" /\ logblock' = logblock /\ tail' = tail /\ head' = head /\ step = "write_log"
    BY <1>4 DEF WriteLog
  <2>2. Logged(Len(lh))'
    BY <1>1, <1>2, <1>4, <2>1, SMTT(60) DEF Images, Logged
  <2> QED
    BY <1>2, <1>3, <2>1, <2>2, SMTT(60) DEF Images, Recovering, Distinct
<1>5. CASE WriteLog /\ ~(tail > Len(lh))
  <2>1. /\ step' = step /\ tail' = tail + 1 /\ head' = head /\ step = "write_log"
        /\ logblock' = [logblock EXCEPT ![tail] = cache[lh[tail]]]
    BY <1>5 DEF WriteLog
  <2>2. tail \in 1 .. nlog - 1
    BY <1>1, <1>5, LogAssumption DEF Images
  <2>3. logblock'[tail] = cache[lh[tail]] /\ \A i \in 1 .. nlog - 1 : i # tail => logblock'[i] = logblock[i]
    BY <2>1, <2>2 DEF TypeOK
  <2>4. Logged(tail - 1)'
    <3> SUFFICES ASSUME NEW i \in 1 .. Len(lh), i <= tail PROVE logblock'[i] = cache[lh[i]]
      BY <1>1, <1>2, <2>1, SMTT(60) DEF Logged
    <3>1. CASE i = tail
      BY <2>3, <3>1
    <3>2. CASE i # tail
      <4>1. i <= tail - 1 /\ i \in 1 .. nlog - 1
        BY <1>1, <3>2, LogAssumption DEF Images
      <4> QED
        BY <2>1, <2>3, <3>2, <4>1 DEF Images, Logged
    <3> QED
      BY <3>1, <3>2
  <2> QED
    BY <1>2, <1>3, <2>1, <2>4, SMTT(60) DEF Images, Recovering, Distinct
<1>6. CASE WriteHead
  <2>1. head' = lh /\ step' = "install" /\ tail' = 1 /\ logblock' = logblock /\ step = "write_head"
    BY <1>6 DEF WriteHead
  <2>2. Logged(Len(lh))' /\ Installed(tail - 1)'
    BY <1>1, <1>2, <2>1, SMTT(60) DEF Images, Logged, Installed
  <2>3. pinned' = {lh'[i] : i \in {j \in 1 .. Len(lh') : j >= tail'}}
    BY <1>1, <1>2, <1>3, <2>1, HeaderRange, SMTT(60)
  <2> QED
    BY <1>2, <2>1, <2>2, <2>3, SMTT(60) DEF Images, Recovering, Distinct
<1> QED
  BY <1>4, <1>5, <1>6

\* install_trans() brings one block home.  In commit() the cache holds it already,
\* so only the disk changes, and the buffer may be unpinned.
LEMMA InstallImages ==
  ASSUME TypeOK, Images, InstallTrans
  PROVE  Images'
<1>1. lh \in Seq(Blocks) /\ Len(lh) \in Nat /\ tail \in Nat \ {0} /\ step \in {"install", "recover"}
  BY LenProperties DEF TypeOK, InstallTrans
<1>2. UNCHANGED <<logblock, head, lh, outstanding>> /\ head = lh /\ Installed(tail - 1)
  BY <1>1 DEF InstallTrans, Images
<1>3. CASE tail > Len(lh)
  <2>1. /\ step' = (IF step = "install" THEN "erase" ELSE "recover_erase")
        /\ UNCHANGED <<disk, cache, pinned, tail>>
    BY <1>3 DEF InstallTrans
  <2>2. Installed(Len(lh))'
    BY <1>1, <1>2, <1>3, <2>1, SMTT(60) DEF Installed
  <2>3. pinned = {}
    BY <1>1, <1>3, SMTT(60) DEF Images, Recovering
  <2>4. step = "install" => Logged(Len(lh))'
    BY <1>2, <2>1 DEF Images, Logged
  <2> QED
    BY <1>1, <1>2, <2>1, <2>2, <2>3, <2>4, SMTT(60) DEF Images, Recovering, Distinct
<1>4. CASE ~(tail > Len(lh))
  <2>1. /\ disk' = [disk EXCEPT ![lh[tail]] = logblock[tail]]
        /\ cache' = [cache EXCEPT ![lh[tail]] = logblock[tail]]
        /\ pinned' = (IF step = "install" THEN pinned \ {lh[tail]} ELSE pinned)
        /\ tail' = tail + 1 /\ step' = step
    BY <1>4 DEF InstallTrans
  <2>2. tail \in 1 .. Len(lh) /\ lh[tail] \in Blocks /\ Distinct(lh)
    BY <1>1, <1>4, ElementOfSeq, SMTT(60) DEF Images
  <2>3. /\ disk'[lh[tail]] = logblock[tail] /\ cache'[lh[tail]] = logblock[tail]
        /\ \A n \in Blocks : n # lh[tail] => disk'[n] = disk[n] /\ cache'[n] = cache[n]
    BY <2>1, <2>2 DEF TypeOK
  <2>4. \A j \in 1 .. Len(lh) : lh[j] \in Blocks /\ (j # tail => lh[j] # lh[tail])
    BY <1>1, <2>2, ElementOfSeq DEF Distinct
  <2>5. Installed(tail - 1)'
    <3> SUFFICES ASSUME NEW j \in 1 .. Len(lh), j <= tail PROVE disk'[lh[j]] = logblock[j]
      BY <1>1, <1>2, <2>1, SMTT(60) DEF Installed
    <3>1. CASE j = tail
      BY <2>3, <3>1
    <3>2. CASE j # tail
      <4>1. j <= tail - 1
        BY <1>1, <3>2
      <4> QED
        BY <1>2, <2>3, <2>4, <3>2, <4>1 DEF Installed
    <3> QED
      BY <3>1, <3>2
  <2>6. \A n \in Blocks : n \notin pinned' => cache'[n] = disk'[n]
    BY <2>1, <2>3 DEF Images
  <2>7. CASE step = "install"
    <3>1. Logged(Len(lh)) /\ pinned = {lh[j] : j \in {k \in 1 .. Len(lh) : k >= tail}}
      BY <2>7 DEF Images, Recovering
    <3>2. Logged(Len(lh))'
      BY <1>1, <1>2, <2>3, <2>4, <3>1 DEF Logged
    <3>3. \A j \in 1 .. Len(lh) : j >= tail /\ j # tail <=> j >= tail + 1
      BY <1>1
    <3>4. pinned' = {lh[j] : j \in {k \in 1 .. Len(lh) : k >= tail + 1}}
      BY <2>1, <2>2, <2>4, <2>7, <3>1, <3>3
    <3> QED
      BY <1>2, <2>1, <2>5, <2>6, <2>7, <3>2, <3>4, SMTT(60) DEF Images, Recovering, Distinct
  <2>8. CASE step = "recover"
    <3>1. pinned' = {}
      BY <2>1, <2>8 DEF Images, Recovering
    <3> QED
      BY <1>2, <2>1, <2>5, <2>6, <2>8, <3>1, SMTT(60) DEF Images, Recovering, Distinct
  <2> QED
    BY <1>1, <2>7, <2>8
<1> QED
  BY <1>3, <1>4

\* The header is erased when every block is home; a crash loses what was only in
\* memory; the recovery starts from the header on disk.
LEMMA EraseImages ==
  ASSUME TypeOK, Reserved, Images,
         Erase \/ CommitDone \/ Crash \/ ReadHead \/ \E n \in Blocks : Evict(n)
  PROVE  Images'
<1>1. CASE Erase
  <2>1. /\ UNCHANGED <<disk, logblock, cache, pinned>> /\ lh' = <<>> /\ head' = <<>>
        /\ step \in {"erase", "recover_erase"} /\ step' = (IF step = "erase" THEN "done" ELSE "none")
    BY <1>1 DEF Erase
  <2>2. pinned = {}
    BY <2>1 DEF Images, Recovering
  <2>3. Len(<<>>) <= nlog - 1
    BY EmptyHeader, LogAssumption
  <2> QED
    BY <2>1, <2>2, <2>3, EmptyHeader DEF Images, Recovering
<1>2. CASE CommitDone
  <2>1. /\ UNCHANGED <<disk, logblock, head, cache, pinned, lh>>
        /\ step = "done" /\ step' = "none"
    BY <1>2 DEF CommitDone, ondisk
  <2> QED
    BY <2>1, SMTT(60) DEF Images, Recovering, Distinct
<1>3. CASE Crash
  <2>1. /\ UNCHANGED <<disk, logblock, head>> /\ cache' = disk /\ pinned' = {} /\ lh' = <<>>
        /\ step' = "read_head"
    BY <1>3 DEF Crash, ondisk
  <2>2. Len(<<>>) <= nlog - 1 /\ Distinct(<<>>)
    BY EmptyHeader, LogAssumption
  <2>3. Distinct(lh') /\ Distinct(head')
    BY <2>1, <2>2 DEF Images
  <2> QED
    BY <2>1, <2>2, <2>3 DEF Images, Recovering
<1>4. CASE ReadHead
  <2>1. /\ UNCHANGED <<disk, logblock, head, cache, pinned>> /\ lh' = head
        /\ step = "read_head" /\ step' = "recover" /\ tail' = 1
    BY <1>4 DEF ReadHead, ondisk
  <2>2. Installed(tail - 1)'
    BY <2>1 DEF Installed
  <2> QED
    BY <2>1, <2>2 DEF Images, Recovering, Distinct
<1>5. ASSUME NEW n \in Blocks, Evict(n) PROVE Images'
  <2>1. cache' = cache
    BY <1>5 DEF Evict, TypeOK, Images
  <2> QED
    BY <1>5, <2>1, SameImages DEF Evict, ondisk, Images
<1> QED
  BY <1>1, <1>2, <1>3, <1>4, <1>5

-----------------------------------------------------------------------------
(* The invariant *)

\* mkfs leaves an empty log, and the kernel boots with empty tables.
LEMMA InitInv == Init => Inv
<1> SUFFICES ASSUME Init PROVE Inv
  OBVIOUS
<1>1. TypeOK
  BY EmptyHeader, LogAssumption, SMTT(60) DEF Init, TypeOK, Recovering
<1>2. Reserved
  <2>1. Active = {} /\ \A o \in Ops : wrote[o] = {}
    BY DEF Init, Active
  <2>2. OpBlocks \in Nat
    BY LogAssumption
  <2>3. Committing = FALSE /\ Recovering
    BY DEF Init, Committing, Recovering
  <2>4. committing = FALSE /\ panicked = "no" /\ outstanding = 0
    BY DEF Init
  <2>5. Cardinality(Active) = 0 /\ IsFiniteSet({}) /\ Cardinality({}) = 0
    BY <2>1, FS_EmptySet
  <2>6. \A o \in Ops : /\ op[o] # "in" => wrote[o] = {}
                       /\ IsFiniteSet(wrote[o]) /\ Cardinality(wrote[o]) <= OpBlocks
                       /\ wrote[o] \subseteq Range(lh)
    BY <2>1, <2>2, <2>5
  <2>7. committing = Committing
    BY <2>3, <2>4, ZenonT(60)
  <2> QED
    BY <2>1, <2>3, <2>4, <2>5, <2>6, <2>7, ZenonT(60) DEF Reserved
<1>3. Images
  <2>1. Len(<<>>) <= nlog - 1 /\ Distinct(<<>>)
    BY EmptyHeader, LogAssumption
  <2> QED
    BY <2>1 DEF Init, Images, Recovering
<1> QED
  BY <1>1, <1>2, <1>3 DEF Inv

\* Every action of the log preserves the invariant.
LEMMA NextInv == Inv /\ [Next]_vars => Inv'
<1> SUFFICES ASSUME TypeOK, Reserved, Images, [Next]_vars PROVE TypeOK' /\ Reserved' /\ Images'
  BY DEF Inv
<1>1. CASE Next
  <2>1. TypeOK'
    BY <1>1, TypeStep
  <2>2. ASSUME NEW o \in Ops, BeginOp(o) PROVE Reserved' /\ Images'
    <3>1. Reserved'
      BY <2>2, BeginReserved
    <3>2. step = "none" /\ outstanding' = 0 => lh = <<>>
      <4>1. outstanding \in Nat /\ (outstanding' = outstanding \/ outstanding' = outstanding + 1)
        BY <2>2 DEF BeginOp, TypeOK
      <4>2. step = "none" /\ outstanding = 0 => lh = <<>>
        BY DEF Images
      <4> QED
        BY <4>1, <4>2
    <3>3. Images'
      <4>1. UNCHANGED <<disk, logblock, head, cache, pinned, lh, step, tail>>
        BY <2>2 DEF BeginOp, ondisk
      <4> QED
        BY <3>2, <4>1, SameImages
    <3> QED
      BY <3>1, <3>3
  <2>3. ASSUME NEW o \in Ops, EndOp(o) PROVE Reserved' /\ Images'
    BY <2>3, EndReserved, EndImages
  <2>4. ASSUME NEW o \in Ops, NEW n \in Blocks, NEW v \in Values, LogWrite(o, n, v)
        PROVE  Reserved' /\ Images'
    BY <2>4, WriteReserved, WriteImages
  <2>5. CASE Commit \/ Crash \/ \E n \in Blocks : Evict(n)
    <3>1. Reserved'
      BY <2>5, CommitReserved
    <3>2. Images'
      <4>1. CASE WriteLog \/ WriteHead
        BY <4>1, LogImages
      <4>2. CASE InstallTrans
        BY <4>2, InstallImages
      <4>3. CASE Erase \/ CommitDone \/ Crash \/ ReadHead \/ \E n \in Blocks : Evict(n)
        BY <4>3, EraseImages
      <4> QED
        BY <2>5, <4>1, <4>2, <4>3 DEF Commit
    <3> QED
      BY <2>1, <3>1, <3>2
  <2> QED
    BY <1>1, <2>1, <2>2, <2>3, <2>4, <2>5 DEF Next
<1>2. CASE UNCHANGED vars
  <2>1. TypeOK'
    BY <1>2 DEF TypeOK, vars, Recovering, Committing
  <2>2. Active' = Active /\ Slack' = Slack
    BY <1>2 DEF vars, Active, Slack
  <2>3. Reserved'
    BY <1>2, <2>2, ZenonT(60) DEF Reserved, vars, Recovering, Committing
  <2>4. Images'
    BY <1>2, SameImages, ZenonT(60) DEF vars, Images
  <2> QED
    BY <2>1, <2>3, <2>4
<1> QED
  BY <1>1, <1>2

\* The invariant holds in every behaviour of the log.
THEOREM LogInvariant == Spec => []Inv
BY InitInv, NextInv, PTL DEF Spec

\* What a reboot would restore: the disk when the header is empty; the cache when
\* the log on disk is complete.
LEMMA RestoredFrom ==
  ASSUME TypeOK, Images
  PROVE  /\ head = <<>> => Restored = disk
         /\ step \in {"install", "erase"} => Restored = cache
         /\ step \in {"erase", "recover_erase"} => Restored = disk
<1>1. ASSUME NEW n \in Range(head)
      PROVE  \E i \in 1 .. Len(head) : head[i] = n /\ Restored[n] = logblock[i]
  <2>1. \E i \in 1 .. Len(head) : head[i] = n
    BY HeaderRange, SMTT(60) DEF TypeOK
  <2> DEFINE j == CHOOSE i \in 1 .. Len(head) : head[i] = n
  <2>2. j \in 1 .. Len(head) /\ head[j] = n
    BY <2>1
  <2>3. n \in Blocks
    BY HeaderRange DEF TypeOK
  <2>4. Restored[n] = logblock[j]
    BY <2>3 DEF Restored
  <2> HIDE DEF j
  <2> QED
    BY <2>2, <2>4, ZenonT(60)
<1>2. \A n \in Blocks : n \notin Range(head) => Restored[n] = disk[n]
  BY DEF Restored
<1>3. DOMAIN Restored = Blocks /\ Restored = [n \in Blocks |-> Restored[n]]
  BY DEF Restored
<1>4. disk = [n \in Blocks |-> disk[n]] /\ cache = [n \in Blocks |-> cache[n]]
  BY DEF TypeOK
<1>5. head = <<>> => Restored = disk
  BY <1>2, <1>3, <1>4, EmptyHeader
<1>6. ASSUME step \in {"install", "erase"} PROVE Restored = cache
  <2>1. head = lh /\ Logged(Len(lh)) /\ lh \in Seq(Blocks) /\ Len(lh) \in Nat
    BY <1>6, LenProperties DEF Images, TypeOK
  <2>2. ASSUME NEW n \in Blocks PROVE Restored[n] = cache[n]
    <3>1. CASE n \in Range(head)
      <4>1. PICK i \in 1 .. Len(head) : head[i] = n /\ Restored[n] = logblock[i]
        BY <1>1, <3>1, ZenonT(60)
      <4>2. i \in 1 .. Len(lh) /\ i <= Len(lh) /\ lh[i] = n
        BY <2>1, <4>1
      <4>3. logblock[i] = cache[lh[i]]
        BY <2>1, <4>2 DEF Logged
      <4> QED
        BY <4>1, <4>2, <4>3, ZenonT(60)
    <3>2. CASE n \notin Range(head)
      <4>1. n \notin pinned
        BY <1>6, <2>1, <3>2, HeaderRange DEF Images, Recovering
      <4> QED
        BY <1>2, <3>2, <4>1 DEF Images
    <3> QED
      BY <3>1, <3>2, ZenonT(60)
  <2> QED
    BY <1>3, <1>4, <2>2
<1>7. ASSUME step \in {"erase", "recover_erase"} PROVE Restored = disk
  <2>1. head = lh /\ Installed(Len(lh)) /\ lh \in Seq(Blocks) /\ Len(lh) \in Nat
    BY <1>7, LenProperties DEF Images, TypeOK
  <2>2. ASSUME NEW n \in Blocks PROVE Restored[n] = disk[n]
    BY <1>1, <1>2, <2>1, SMTT(60) DEF Installed
  <2> QED
    BY <1>3, <1>4, <2>2
<1> QED
  BY <1>5, <1>6, <1>7

\* What was written is durable when no operation is in progress and no commit
\* runs, and the log has never panicked.
THEOREM DurableWhenIdleHolds == Spec => []DurableWhenIdle
<1>1. Inv => DurableWhenIdle
  <2> SUFFICES ASSUME TypeOK, Reserved, Images, Booted, outstanding = 0, ~committing
               PROVE  Restored = cache /\ lh = <<>> /\ pinned = {}
    BY DEF Inv, DurableWhenIdle, Reserved
  <2>1. step = "none"
    <3>1. ~Committing
      BY DEF Reserved
    <3> QED
      BY <3>1 DEF TypeOK, Booted, Recovering
  <2>2. lh = <<>> /\ head = <<>> /\ pinned = {}
    BY <2>1, EmptyHeader DEF Images, Recovering
  <2>3. cache = disk
    BY <2>2, SMTT(60) DEF Images, TypeOK
  <2> QED
    BY <2>2, <2>3, RestoredFrom
<1> QED
  BY <1>1, LogInvariant, PTL

-----------------------------------------------------------------------------
(* The refinement *)

\* What the operations read, as AtomicDisk sees it.
Mem == IF Recovering THEN Restored ELSE cache

\* A step that moves neither what is read, nor what survives, nor who is active.
LEMMA AtomicStutter ==
  ASSUME Mem' = Mem, Restored' = Restored, Active' = Active
  PROVE  UNCHANGED Atomic!vars
BY DEF Atomic!vars, Mem, Active, Recovering

\* What a reboot restores depends on the disk alone.
LEMMA SameRestored ==
  ASSUME UNCHANGED <<disk, logblock, head>>
  PROVE  Restored' = Restored
BY DEF Restored

\* Before the header is written, what is in the log on disk does not count.
LEMMA UncommittedLog ==
  ASSUME TypeOK, TypeOK', head = <<>>, head' = <<>>, disk' = disk
  PROVE  Restored' = Restored
<1>1. head' = <<>> /\ \A n \in Blocks : n \notin Range(<<>>)
  BY EmptyHeader
<1> QED
  BY <1>1 DEF Restored

\* The steps of operations are the steps of AtomicDisk of the same name.
LEMMA OperationsRefine ==
  ASSUME TypeOK, Reserved, NEW o \in Ops,
         BeginOp(o) \/ EndOp(o) \/ \E n \in Blocks, v \in Values : LogWrite(o, n, v)
  PROVE  Atomic!Next \/ UNCHANGED Atomic!vars
<1>1. Booted /\ ~Recovering
  BY ZenonT(60) DEF BeginOp, EndOp, LogWrite, Booted, Recovering
<1>2. Restored' = Restored
  BY SameRestored, ZenonT(60) DEF BeginOp, EndOp, LogWrite, ondisk
<1>3. CASE BeginOp(o)
  <2>1. op[o] = "out" /\ UNCHANGED <<cache, step>>
    BY <1>3 DEF BeginOp
  <2>2. Mem' = Mem
    BY <1>2, <2>1 DEF Mem, Recovering
  <2>3. CASE op' = [op EXCEPT ![o] = "asleep"]
    <3>1. Active' = Active
      BY <2>1, <2>3 DEF Active, TypeOK
    <3> QED
      BY <1>2, <2>2, <3>1, AtomicStutter
  <2>4. CASE op' = [op EXCEPT ![o] = "in"]
    <3>1. o \notin Active /\ Active' = Active \cup {o}
      BY <2>1, <2>4 DEF Active, TypeOK
    <3>2. Atomic!Begin(o)
      BY <1>2, <2>2, <3>1 DEF Atomic!Begin, Mem, Active, Recovering
    <3> QED
      BY <3>2 DEF Atomic!Next
  <2> QED
    BY <1>3, <2>3, <2>4 DEF BeginOp
<1>4. CASE EndOp(o)
  <2>1. o \in Active /\ ~committing
    <3>1. o \in Active /\ step = "none"
      BY <1>4, ZenonT(60) DEF EndOp, Active, Reserved
    <3> QED
      BY <3>1, ZenonT(60) DEF Reserved, Committing
  <2>2. /\ cache' = cache
        /\ step' = step \/ step' \in {"done", "write_log"}
        /\ op' = [op EXCEPT ![o] = "out"] \/ op' = Wakeup([op EXCEPT ![o] = "out"])
    BY <1>4, <2>1 DEF EndOp
  <2>3. ~Recovering'
    BY <1>1, <2>2 DEF Recovering
  <2>4. Active' = Active \ {o}
    BY <2>2 DEF Active, TypeOK, Wakeup
  <2>5. Atomic!End(o)
    BY <1>1, <1>2, <2>1, <2>2, <2>3, <2>4 DEF Atomic!End, Active, Recovering
  <2> QED
    BY <2>5 DEF Atomic!Next
<1>5. ASSUME NEW n \in Blocks, NEW v \in Values, LogWrite(o, n, v)
      PROVE  Atomic!Next
  <2>1. o \in Active /\ op' = op /\ step' = step /\ cache' = [cache EXCEPT ![n] = v]
    BY <1>5, ZenonT(60) DEF LogWrite, Active
  <2>2. Atomic!Write(o, n, v)
    BY <1>1, <1>2, <2>1 DEF Atomic!Write, Active, Recovering
  <2> QED
    BY <2>2 DEF Atomic!Next
<1> QED
  BY <1>3, <1>4, <1>5

\* Writing the header is the moment of commit; no other step of commit() shows.
LEMMA CommitRefines ==
  ASSUME TypeOK, TypeOK', Reserved, Images, Images', Commit
  PROVE  Atomic!Next \/ UNCHANGED Atomic!vars
<1>1. CASE WriteLog
  <2>1. /\ UNCHANGED <<disk, head, cache, op>> /\ step = "write_log"
        /\ step' \in {"write_log", "write_head"}
    BY <1>1 DEF WriteLog
  <2>2. head = <<>>
    BY <2>1 DEF Images
  <2>3. Restored' = Restored /\ Active' = Active /\ Mem' = Mem
    BY <2>1, <2>2, UncommittedLog DEF Active, Mem, Recovering
  <2> QED
    BY <2>3, AtomicStutter
<1>2. CASE WriteHead
  <2>1. UNCHANGED <<cache, op>> /\ step = "write_head" /\ step' = "install"
    BY <1>2 DEF WriteHead
  <2>2. Restored' = cache'
    <3>1. (TypeOK /\ Images /\ step \in {"install", "erase"} => Restored = cache)'
      BY RestoredFrom, PTL
    <3> QED
      BY <2>1, <3>1
  <2>3. Active = {} /\ Active' = Active
    BY <2>1 DEF Active, Reserved
  <2>4. Atomic!Commit
    BY <2>1, <2>2, <2>3 DEF Atomic!Commit, Active, Recovering
  <2> QED
    BY <2>4 DEF Atomic!Next
<1>3. CASE InstallTrans
  <2>1. /\ UNCHANGED <<logblock, head, lh, op>> /\ step \in {"install", "recover"}
        /\ step' \in (IF step = "install" THEN {"install", "erase"} ELSE {"recover", "recover_erase"})
    BY <1>3 DEF InstallTrans
  <2>2. head = lh /\ lh \in Seq(Blocks) /\ tail \in Nat \ {0}
    BY <2>1 DEF Images, TypeOK
  <2>3. \A n \in Blocks : n \notin Range(head) => disk'[n] = disk[n]
    <3>1. CASE tail > Len(lh)
      BY <1>3, <3>1 DEF InstallTrans
    <3>2. CASE ~(tail > Len(lh))
      <4>1. tail \in 1 .. Len(lh)
        BY <2>2, <3>2, LenProperties, SMTT(60)
      <4>2. lh[tail] \in Range(head)
        BY <2>2, <4>1, HeaderRange
      <4>3. disk' = [disk EXCEPT ![lh[tail]] = logblock[tail]]
        BY <1>3, <3>2 DEF InstallTrans
      <4> QED
        BY <4>2, <4>3 DEF TypeOK
    <3> QED
      BY <3>1, <3>2
  <2>4. Restored' = Restored
    BY <2>1, <2>3, SMTT(60) DEF Restored
  <2>5. CASE step = "install"
    <3>1. Restored = cache
      BY <2>5, RestoredFrom
    <3>2. (TypeOK /\ Images /\ step \in {"install", "erase"} => Restored = cache)'
      BY RestoredFrom, PTL
    <3>3. Restored' = cache'
      BY <2>1, <2>5, <3>2
    <3>4. Mem' = Mem
      BY <2>1, <2>4, <2>5, <3>1, <3>3 DEF Mem, Recovering
    <3> QED
      BY <2>1, <2>4, <3>4, AtomicStutter DEF Active
  <2>6. CASE step = "recover"
    <3>1. Mem' = Mem
      BY <2>1, <2>4, <2>6 DEF Mem, Recovering
    <3> QED
      BY <2>1, <2>4, <3>1, AtomicStutter DEF Active
  <2> QED
    BY <2>1, <2>5, <2>6
<1>4. CASE Erase
  <2>1. /\ UNCHANGED <<disk, cache, pinned, op>> /\ head' = <<>> /\ step \in {"erase", "recover_erase"}
        /\ step' = (IF step = "erase" THEN "done" ELSE "none")
    BY <1>4 DEF Erase
  <2>2. Restored = disk
    BY <2>1, RestoredFrom
  <2>3. (TypeOK /\ Images /\ head = <<>> => Restored = disk)'
    BY RestoredFrom, PTL
  <2>4. Restored' = Restored
    BY <2>1, <2>2, <2>3
  <2>5. step = "recover_erase" => cache = disk
    <3> SUFFICES ASSUME step = "recover_erase" PROVE cache = disk
      OBVIOUS
    <3>1. pinned = {}
      BY DEF Images, Recovering
    <3> QED
      BY <3>1, SMTT(60) DEF Images, TypeOK
  <2>6. Mem' = Mem
    BY <2>1, <2>2, <2>5 DEF Mem, Recovering
  <2> QED
    BY <2>1, <2>4, <2>6, AtomicStutter DEF Active
<1>5. CASE CommitDone
  <2>1. /\ UNCHANGED <<disk, logblock, head, cache>> /\ step = "done" /\ step' = "none"
        /\ op' = Wakeup(op)
    BY <1>5 DEF CommitDone, ondisk
  <2>2. Active' = Active
    BY <2>1 DEF Active, Wakeup, TypeOK
  <2>3. Mem' = Mem
    BY <2>1 DEF Mem, Recovering
  <2> QED
    BY <2>1, <2>2, <2>3, SameRestored, AtomicStutter
<1>6. CASE ReadHead
  <2>1. UNCHANGED <<disk, logblock, head, op>> /\ step = "read_head" /\ step' = "recover"
    BY <1>6 DEF ReadHead, ondisk
  <2>2. Restored' = Restored
    BY <2>1, SameRestored
  <2>3. Mem' = Mem
    BY <2>1, <2>2 DEF Mem, Recovering
  <2> QED
    BY <2>1, <2>2, <2>3, AtomicStutter DEF Active
<1> QED
  BY <1>1, <1>2, <1>3, <1>4, <1>5, <1>6 DEF Commit

\* A crash takes the system back to what survives, and an eviction to the same.
LEMMA CrashRefines ==
  ASSUME TypeOK, Images, Crash \/ \E n \in Blocks : Evict(n)
  PROVE  Atomic!Next \/ UNCHANGED Atomic!vars
<1>1. Restored' = Restored
  BY SameRestored DEF Crash, Evict, ondisk
<1>2. CASE Crash
  <2>1. step' = "read_head" /\ Active' = {}
    BY <1>2 DEF Crash, Active
  <2>2. Atomic!Crash
    BY <1>1, <2>1 DEF Atomic!Crash, Active
  <2> QED
    BY <2>2 DEF Atomic!Next
<1>3. ASSUME NEW n \in Blocks, Evict(n) PROVE UNCHANGED Atomic!vars
  <2>1. cache' = cache /\ step' = step /\ op' = op
    BY ZenonT(60), SMTT(60), <1>3 DEF Evict, TypeOK, Images
  <2>2. Mem' = Mem /\ Active' = Active
    BY <1>1, <2>1 DEF Mem, Recovering, Active
  <2> QED
    BY <1>1, <2>2, AtomicStutter
<1> QED
  BY <1>2, <1>3

\* The log implements a disk on which operations are atomic: whatever the
\* interleaving of operations, the group commit and the crashes, also during
\* the recovery, what a reboot restores is the image at a moment at which no
\* operation was in progress.
THEOREM LogImplementsAtomicDisk == Spec => ImplementsAtomicDisk
<1>1. Init => Atomic!Init
  <2> SUFFICES ASSUME Init PROVE Atomic!Init
    OBVIOUS
  <2>1. TypeOK /\ Images /\ head = <<>> /\ step = "read_head"
    BY InitInv DEF Inv, Init
  <2>2. Restored = disk /\ disk \in [Blocks -> Values]
    BY <2>1, RestoredFrom DEF TypeOK
  <2>3. Active = {}
    BY DEF Init, Active
  <2> QED
    BY <2>1, <2>2, <2>3 DEF Atomic!Init, Active
<1>2. Inv /\ Inv' /\ [Next]_vars => [Atomic!Next]_(Atomic!vars)
  <2> SUFFICES ASSUME TypeOK, Reserved, Images, TypeOK', Images', [Next]_vars
               PROVE  Atomic!Next \/ UNCHANGED Atomic!vars
    BY DEF Inv
  <2>1. CASE UNCHANGED vars
    <3>1. Restored' = Restored /\ Active' = Active /\ Mem' = Mem
      BY <2>1, SameRestored DEF vars, Active, Mem, Recovering
    <3> QED
      BY <3>1, AtomicStutter
  <2>2. CASE Commit
    BY <2>2, CommitRefines
  <2>3. CASE Crash \/ \E n \in Blocks : Evict(n)
    BY <2>3, CrashRefines
  <2>4. ASSUME NEW o \in Ops,
               BeginOp(o) \/ EndOp(o) \/ \E n \in Blocks, v \in Values : LogWrite(o, n, v)
        PROVE  Atomic!Next \/ UNCHANGED Atomic!vars
    BY <2>4, OperationsRefine
  <2> QED
    BY <2>1, <2>2, <2>3, <2>4 DEF Next
<1> QED
  BY <1>1, <1>2, LogInvariant, PTL DEF Spec, ImplementsAtomicDisk, Atomic!Spec
=============================================================================
