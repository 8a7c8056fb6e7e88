--------------------------- MODULE BcacheProofs ---------------------------
(***************************************************************************)
(* The buffer cache serves the latest contents, for every number of        *)
(* threads, buffers and blocks.                                            *)
(*                                                                         *)
(* The argument has three layers, each proved with the help of the ones    *)
(* before it: what the variables refer to and that refcnt is exact, that   *)
(* sleep locks exclude and wake, and that no stale copy is ever served.    *)
(***************************************************************************)
EXTENDS Bcache, FiniteSetTheorems, TLAPS

USE ZenonT(10), SMTT(60)

\* Places of a thread that has a buffer, and of one that has it locked.
Busy == {"lock", "read", "reading", "use", "writing", "unref"}
Owning == {"read", "reading", "use", "writing"}

-----------------------------------------------------------------------------
(* First layer: types, and reference counts *)

Buffers == [blockno : Blocks \cup {Nobody}, valid : BOOLEAN, refcnt : Int]
Requests == [st : {"none", "queued", "done"}, b : Bufs \cup {Nobody},
             n : Blocks \cup {Nobody}, write : BOOLEAN]

TypeOK ==
  /\ buf \in [Bufs -> Buffers]
  /\ pinned \in SUBSET Bufs
  /\ pc \in [Procs -> Busy \cup {"idle", "panic"}]
  /\ b \in [Procs -> Bufs \cup {Nobody}]
  /\ chan \in [Procs -> Bufs \cup {Nobody}]
  /\ holder \in [Bufs -> Procs \cup {Nobody}]
  /\ req \in [Procs -> Requests]
  /\ disk \in [Blocks -> BOOLEAN]
  /\ data \in [Bufs -> BOOLEAN]

Placed ==
  /\ \A p \in Procs : pc[p] \in Busy => b[p] \in Bufs /\ buf[b[p]].blockno \in Blocks
  /\ \A p \in Procs : pc[p] = "idle" => b[p] = Nobody

\* A transfer in progress is between a buffer and a block.
Requested ==
  \A p \in Procs : req[p].st # "none" => req[p].b \in Bufs /\ req[p].n \in Blocks

Pin(x) == IF x \in pinned THEN 1 ELSE 0

Counted == \A x \in Bufs : buf[x].refcnt = Cardinality(Users(x)) + Pin(x)

Structure == TypeOK /\ Placed /\ Requested /\ Counted

\* A step of the program, with its thread named.
LEMMA StepCases ==
  ASSUME [Next]_vars
  PROVE  \/ \E p \in Procs, n \in Blocks : BgetHit(p, n) \/ BgetMiss(p, n)
         \/ \E p \in Procs : \/ Lock(p) \/ StartRead(p) \/ EndRead(p) \/ StartWrite(p)
                             \/ EndWrite(p) \/ Modify(p) \/ Bpin(p) \/ Bunpin(p)
                             \/ Brelse(p) \/ BrelseRef(p) \/ DiskStep(p)
         \/ \E p \in Procs : Kicked(p) /\ UNCHANGED <<cacheVars, pc, b, holder, diskVars>>
         \/ UNCHANGED vars
BY UseAssumption DEF Next, Thread

\* The users of a buffer when p takes it or lets go of it.
LEMMA UsersFinite ==
  ASSUME NEW x \in Bufs
  PROVE  /\ IsFiniteSet(Users(x)) /\ Cardinality(Users(x)) \in Nat
         /\ Cardinality(Users(x)) = 0 <=> Users(x) = {}
<1>1. Users(x) \in SUBSET Procs
  BY DEF Users
<1>2. IsFiniteSet(Users(x))
  BY <1>1, FS_Subset, CacheAssumption
<1> QED
  BY <1>2, FS_CardinalityType, FS_EmptySet

\* Taking a buffer adds one user to it and leaves the other buffers alone.
LEMMA UserAdded ==
  ASSUME TypeOK, NEW p \in Procs, NEW x \in Bufs, b[p] = Nobody, b' = [b EXCEPT ![p] = x]
  PROVE  \A y \in Bufs : Cardinality(Users(y)') =
           Cardinality(Users(y)) + IF y = x THEN 1 ELSE 0
<1> TAKE y \in Bufs
<1>1. CASE y = x
  <2>1. Users(x)' = Users(x) \cup {p} /\ p \notin Users(x)
    BY CacheAssumption, SMTT(60) DEF Users, TypeOK
  <2> QED
    BY ZenonT(60), SMTT(60), <2>1, <1>1, UsersFinite, FS_AddElement
<1>2. CASE y # x
  <2>1. Users(y)' = Users(y)
    BY <1>2, CacheAssumption DEF Users, TypeOK
  <2> QED
    BY <2>1, <1>2, UsersFinite
<1> QED
  BY <1>1, <1>2

\* Letting go of a buffer takes one user from it.
LEMMA UserRemoved ==
  ASSUME TypeOK, NEW p \in Procs, b[p] \in Bufs, b' = [b EXCEPT ![p] = Nobody]
  PROVE  \A y \in Bufs : Cardinality(Users(y)') =
           Cardinality(Users(y)) - IF y = b[p] THEN 1 ELSE 0
<1> TAKE y \in Bufs
<1>1. CASE y = b[p]
  <2>1. Users(y)' = Users(y) \ {p} /\ p \in Users(y)
    BY <1>1, CacheAssumption DEF Users, TypeOK
  <2> QED
    BY ZenonT(60), SMTT(60), <2>1, <1>1, UsersFinite, FS_RemoveElement
<1>2. CASE y # b[p]
  <2>1. Users(y)' = Users(y)
    BY <1>2, CacheAssumption DEF Users, TypeOK
  <2> QED
    BY <2>1, <1>2, UsersFinite
<1> QED
  BY <1>1, <1>2

\* The buffers with v stored into the refcnt of x.
Stored(x, v) == [buf EXCEPT ![x].refcnt = v]

\* What a store to one field of a buffer changes.
LEMMA RefcntStored ==
  ASSUME TypeOK, NEW x \in Bufs, NEW v \in Int, buf' = Stored(x, v)
  PROVE  /\ buf' \in [Bufs -> Buffers]
         /\ \A y \in Bufs : /\ buf'[y].blockno = buf[y].blockno /\ buf'[y].valid = buf[y].valid
                            /\ buf'[y].refcnt = IF y = x THEN v ELSE buf[y].refcnt
<1>1. [buf[x] EXCEPT !.refcnt = v] \in Buffers
  BY ZenonT(60) DEF TypeOK, Buffers
<1>2. buf' = [buf EXCEPT ![x] = [buf[x] EXCEPT !.refcnt = v]]
  BY DEF Stored
<1>3. buf' \in [Bufs -> Buffers]
  BY <1>1, <1>2 DEF TypeOK
<1>4. \A y \in Bufs : buf'[y] = IF y = x THEN [buf[x] EXCEPT !.refcnt = v] ELSE buf[y]
  BY <1>2 DEF TypeOK
<1>5. buf[x] \in Buffers
  BY DEF TypeOK
<1>6. LET r == [buf[x] EXCEPT !.refcnt = v]
      IN  r.blockno = buf[x].blockno /\ r.valid = buf[x].valid /\ r.refcnt = v
  BY <1>5 DEF Buffers
<1> QED
  BY <1>3, <1>4, <1>6, ZenonT(60)

\* A store to a refcnt leaves the identity and the validity of every buffer alone.
LEMMA IdentityKept ==
  ASSUME TypeOK, NEW x \in Bufs, NEW v \in Int, buf' = Stored(x, v)
  PROVE  \A y \in Bufs : buf'[y].blockno = buf[y].blockno /\ buf'[y].valid = buf[y].valid
<1>1. /\ buf' \in [Bufs -> Buffers]
      /\ \A y \in Bufs : /\ buf'[y].blockno = buf[y].blockno /\ buf'[y].valid = buf[y].valid
                         /\ buf'[y].refcnt = IF y = x THEN v ELSE buf[y].refcnt
  BY RefcntStored, ZenonT(60)
<1> QED
  BY <1>1, ZenonT(60)

\* A store to valid leaves the other fields and the other buffers alone.
LEMMA ValidStored ==
  ASSUME TypeOK, NEW x \in Bufs, buf' = [buf EXCEPT ![x].valid = TRUE]
  PROVE  /\ buf' \in [Bufs -> Buffers]
         /\ \A y \in Bufs : /\ buf'[y].blockno = buf[y].blockno /\ buf'[y].refcnt = buf[y].refcnt
                            /\ y # x => buf'[y].valid = buf[y].valid
         /\ buf'[x].valid = TRUE
<1>1. [buf[x] EXCEPT !.valid = TRUE] \in Buffers
  <2>1. buf[x] \in Buffers
    BY DEF TypeOK
  <2> QED
    BY <2>1, ZenonT(60) DEF Buffers
<1>2. buf' = [buf EXCEPT ![x] = [buf[x] EXCEPT !.valid = TRUE]]
  OBVIOUS
<1>3. buf' \in [Bufs -> Buffers]
  BY <1>1, <1>2 DEF TypeOK
<1>4. \A y \in Bufs : buf'[y] = IF y = x THEN [buf[x] EXCEPT !.valid = TRUE] ELSE buf[y]
  BY <1>2 DEF TypeOK
<1>5. buf[x] \in Buffers
  BY DEF TypeOK
<1>6. LET r == [buf[x] EXCEPT !.valid = TRUE]
      IN  r.blockno = buf[x].blockno /\ r.refcnt = buf[x].refcnt /\ r.valid = TRUE
  BY <1>5 DEF Buffers
<1> QED
  BY <1>3, <1>4, <1>6, ZenonT(60)

\* What bget() makes of a buffer it recycles.
LEMMA BufferRecycled ==
  ASSUME TypeOK, NEW x \in Bufs, NEW n \in Blocks, buf' = Recycled(x, n)
  PROVE  /\ buf' \in [Bufs -> Buffers]
         /\ \A y \in Bufs : y # x => buf'[y] = buf[y]
         /\ buf'[x].blockno = n /\ buf'[x].valid = FALSE /\ buf'[x].refcnt = 1
<1>1. [blockno |-> n, valid |-> FALSE, refcnt |-> 1] \in Buffers
  BY DEF Buffers
<1> QED
  BY <1>1 DEF TypeOK, Recycled

\* What a step of the disk does to a request.
LEMMA RequestDone ==
  ASSUME TypeOK, NEW p \in Procs, req' = [req EXCEPT ![p].st = "done"]
  PROVE  /\ req' \in [Procs -> Requests]
         /\ \A q \in Procs : q # p => req'[q] = req[q]
         /\ req'[p].st = "done" /\ req'[p].b = req[p].b /\ req'[p].n = req[p].n
         /\ req'[p].write = req[p].write
<1>1. [req[p] EXCEPT !.st = "done"] \in Requests
  BY SMTT(60) DEF TypeOK, Requests
<1>2. req' = [req EXCEPT ![p] = [req[p] EXCEPT !.st = "done"]]
  OBVIOUS
<1>3. req' \in [Procs -> Requests]
  BY <1>1, <1>2 DEF TypeOK
<1>4. \A q \in Procs : req'[q] = IF q = p THEN [req[p] EXCEPT !.st = "done"] ELSE req[q]
  BY <1>2 DEF TypeOK
<1>5. req[p] \in Requests
  BY DEF TypeOK
<1>6. LET r == [req[p] EXCEPT !.st = "done"]
      IN  r.st = "done" /\ r.b = req[p].b /\ r.n = req[p].n /\ r.write = req[p].write
  BY <1>5 DEF Requests
<1> QED
  BY <1>3, <1>4, <1>6

\* What a call of virtio_disk_rw() does to the requests, and its return.
LEMMA RequestMade ==
  ASSUME TypeOK, NEW p \in Procs, NEW x \in Bufs, NEW n \in Blocks, NEW w \in BOOLEAN,
         Request(p, x, n, w)
  PROVE  /\ req' \in [Procs -> Requests]
         /\ \A q \in Procs : q # p => req'[q] = req[q]
         /\ req'[p] = [st |-> "queued", b |-> x, n |-> n, write |-> w]
<1>1. [st |-> "queued", b |-> x, n |-> n, write |-> w] \in Requests
  BY DEF Requests
<1> QED
  BY <1>1 DEF TypeOK, Request

\* The return of virtio_disk_rw() clears the request of its caller only.
LEMMA RequestReturned ==
  ASSUME TypeOK, NEW p \in Procs, Return(p)
  PROVE  /\ req' \in [Procs -> Requests]
         /\ \A q \in Procs : q # p => req'[q] = req[q]
         /\ req'[p].st = "none"
<1>1. NoReq \in Requests /\ NoReq.st = "none"
  BY DEF Requests, NoReq
<1> QED
  BY <1>1 DEF TypeOK, Return

\* binit() leaves every buffer unused and no request under way.
LEMMA InitStructure == Init => Structure
<1> SUFFICES ASSUME Init PROVE Structure
  OBVIOUS
<1>1. TypeOK
  <2>1. [blockno |-> Nobody, valid |-> FALSE, refcnt |-> 0] \in Buffers /\ NoReq \in Requests
    BY DEF Buffers, Requests, NoReq
  <2> QED
    BY <2>1, CacheAssumption DEF Init, SleepLockInit, SleepInit, TypeOK
<1>2. Placed /\ Requested
  BY DEF Init, NoReq, Placed, Requested, Busy
<1>3. Counted
  <2> SUFFICES ASSUME NEW x \in Bufs PROVE buf[x].refcnt = Cardinality(Users(x)) + Pin(x)
    BY DEF Counted
  <2>1. Users(x) = {}
    BY CacheAssumption DEF Init, Users
  <2> QED
    BY <2>1, FS_EmptySet, SMTT(60) DEF Init, Pin
<1> QED
  BY <1>1, <1>2, <1>3 DEF Structure

\* Every step keeps the first layer.
LEMMA NextStructure == Structure /\ [Next]_vars => Structure'
<1> SUFFICES ASSUME TypeOK, Placed, Requested, Counted, [Next]_vars PROVE Structure'
  BY DEF Structure
<1> USE CacheAssumption
<1>1. ASSUME NEW p \in Procs, NEW n \in Blocks, BgetHit(p, n) PROVE Structure'
  <2>1. PICK x \in Cached(n) : /\ buf' = [buf EXCEPT ![x].refcnt = @ + 1]
                              /\ b' = [b EXCEPT ![p] = x]
    BY <1>1, ZenonT(60) DEF BgetHit
  <2>2. x \in Bufs /\ buf[x].blockno = n /\ b[p] = Nobody
    BY <1>1, <2>1 DEF Cached, BgetHit, At, Placed
  <2>x. x \in Bufs
    BY <2>2
  <2>3. PICK v \in Int : v = buf[x].refcnt + 1
    BY <2>2, SMTT(60) DEF TypeOK, Buffers
  <2>4. /\ buf' \in [Bufs -> Buffers]
        /\ \A y \in Bufs : /\ buf'[y].blockno = buf[y].blockno
                           /\ buf'[y].refcnt = IF y = x THEN buf[x].refcnt + 1 ELSE buf[y].refcnt
    <3>1. buf' = Stored(x, v)
      BY <2>1, <2>2, <2>3 DEF Stored
    <3>2. /\ buf' \in [Bufs -> Buffers]
          /\ \A y \in Bufs : /\ buf'[y].blockno = buf[y].blockno /\ buf'[y].valid = buf[y].valid
                             /\ buf'[y].refcnt = IF y = x THEN v ELSE buf[y].refcnt
      BY <2>x, <3>1, RefcntStored, ZenonT(60)
    <3> QED
      BY <2>3, <3>2
  <2>5. TypeOK'
    BY <1>1, <2>1, <2>2, <2>4 DEF TypeOK, BgetHit, Goto, diskVars, Busy
  <2>6. Placed'
    BY <1>1, <2>1, <2>2, <2>4, SMTT(60) DEF TypeOK, Placed, BgetHit, Goto, Busy
  <2>7. Requested'
    BY <1>1 DEF Requested, BgetHit, diskVars
  <2>8. Counted'
    <3>1. \A y \in Bufs : Pin(y)' = Pin(y)
      BY <1>1 DEF Pin, BgetHit
    <3>2. \A y \in Bufs : Cardinality(Users(y)') = Cardinality(Users(y)) + IF y = x THEN 1 ELSE 0
      BY <2>1, <2>2, UserAdded, ZenonT(60)
    <3> QED
      BY <2>2, <2>4, <3>1, <3>2, UsersFinite, SMTT(60) DEF Counted, Pin
  <2> QED
    BY <2>5, <2>6, <2>7, <2>8 DEF Structure
<1>2. ASSUME NEW p \in Procs, NEW n \in Blocks, BgetMiss(p, n) PROVE Structure'
  <2>1. b[p] = Nobody
    BY <1>2 DEF BgetMiss, At, Placed
  <2>2. CASE Unused = {}
    <3>1. TypeOK' /\ Placed' /\ Requested'
      BY ZenonT(60), SMTT(60), <1>2, <2>2 DEF TypeOK, Placed, Requested, BgetMiss, At, Goto, Busy
    <3>2. Counted'
      BY <1>2, <2>2 DEF Counted, Users, Pin, BgetMiss
    <3> QED
      BY <3>1, <3>2 DEF Structure
  <2>3. CASE Unused # {}
    <3>1. PICK x \in Bufs : /\ x \in Unused /\ buf' = Recycled(x, n)
                            /\ data' = [data EXCEPT ![x] = FALSE] /\ b' = [b EXCEPT ![p] = x]
      BY <1>2, <2>3 DEF BgetMiss, Victim
    <3>2. Cardinality(Users(x)) = 0 /\ x \notin pinned
      BY <3>1, UsersFinite, SMTT(60) DEF Counted, Pin, Unused
    <3>3. /\ buf' \in [Bufs -> Buffers]
          /\ \A y \in Bufs : y # x => buf'[y] = buf[y]
          /\ buf'[x].blockno = n /\ buf'[x].refcnt = 1
      BY <3>1, BufferRecycled, ZenonT(60)
    <3>4. TypeOK'
      BY <1>2, <2>3, <3>1, <3>3, ZenonT(60) DEF TypeOK, BgetMiss, Goto, Busy
    <3>5. Placed' /\ Requested'
      BY ZenonT(60), SMTT(60), <1>2, <2>3, <3>1, <3>3 DEF TypeOK, Placed, Requested, BgetMiss, Goto, Busy
    <3>6. Counted'
      <4>1. \A y \in Bufs : Pin(y)' = Pin(y)
        BY <1>2 DEF Pin, BgetMiss
      <4>2. \A y \in Bufs : Cardinality(Users(y)') = Cardinality(Users(y)) + IF y = x THEN 1 ELSE 0
        BY <2>1, <3>1, UserAdded, ZenonT(60)
      <4> QED
        BY <3>2, <3>3, <4>1, <4>2, UsersFinite, SMTT(60) DEF Counted, Pin
    <3> QED
      BY <3>4, <3>5, <3>6 DEF Structure
  <2> QED
    BY <2>2, <2>3
<1>3. ASSUME NEW p \in Procs, Lock(p) PROVE Structure'
  <2>1. b[p] \in Bufs
    BY <1>3 DEF Placed, Lock, At, Busy
  <2>2. /\ pc' \in [Procs -> Busy \cup {"idle", "panic"}]
        /\ \A q \in Procs : pc'[q] # pc[q] => q = p /\ pc'[q] \in {"use", "read"}
    BY <1>3 DEF TypeOK, Lock, At, Goto, Busy
  <2>3. chan' \in [Procs -> Bufs \cup {Nobody}] /\ holder' \in [Bufs -> Procs \cup {Nobody}]
    BY <1>3, <2>1, SMTT(60) DEF TypeOK, Lock, Acquiresleep, Blocksleep, Sleep
  <2>4. TypeOK'
    BY <1>3, <2>2, <2>3 DEF TypeOK, Lock, cacheVars, diskVars
  <2>5. Placed' /\ Requested'
    BY <1>3, <2>2 DEF Placed, Requested, Lock, At, cacheVars, diskVars, Busy
  <2>6. Counted'
    BY <1>3 DEF Counted, Users, Pin, Lock, cacheVars
  <2> QED
    BY <2>4, <2>5, <2>6 DEF Structure
<1>4. ASSUME NEW p \in Procs, StartRead(p) \/ StartWrite(p) PROVE Structure'
  <2>1. b[p] \in Bufs /\ buf[b[p]].blockno \in Blocks
    BY <1>4, ZenonT(60) DEF Placed, StartRead, StartWrite, At, Busy
  <2>2. /\ req' \in [Procs -> Requests] /\ disk' = disk /\ data' = data
        /\ \A q \in Procs : req'[q] = req[q] \/ (req'[q].b \in Bufs /\ req'[q].n \in Blocks)
    <3>1. CASE UNCHANGED diskVars
      <4>1. req' = req /\ disk' = disk /\ data' = data
        BY <3>1 DEF diskVars
      <4> QED
        BY <4>1 DEF TypeOK
    <3>2. CASE \E w \in BOOLEAN : Request(p, b[p], buf[b[p]].blockno, w)
      <4>1. PICK x \in Bufs, n \in Blocks, w \in BOOLEAN : Request(p, x, n, w)
        BY <3>2, <2>1
      <4>2. /\ req' \in [Procs -> Requests]
            /\ \A q \in Procs : q # p => req'[q] = req[q]
            /\ req'[p] = [st |-> "queued", b |-> x, n |-> n, write |-> w]
        BY ZenonT(60), SMTT(60), <4>1, RequestMade
      <4>3. req'[p].b = x /\ req'[p].n = n
        BY <4>2, SMTT(60)
      <4>4. disk' = disk /\ data' = data
        BY <4>1 DEF Request
      <4> QED
        BY ZenonT(60), SMTT(60), <4>2, <4>3, <4>4
    <3> QED
      BY <1>4, <3>1, <3>2, ZenonT(60) DEF StartRead, StartWrite
  <2>3. TypeOK'
    BY <1>4, <2>2, ZenonT(60) DEF TypeOK, StartRead, StartWrite, Goto, cacheVars, Busy
  <2>4. Placed'
    BY <1>4, <2>1, ZenonT(60) DEF TypeOK, Placed, StartRead, StartWrite, Goto, cacheVars, Busy
  <2>5. Requested'
    BY <2>2 DEF Requested
  <2>6. Counted'
    BY <1>4, ZenonT(60) DEF Counted, Users, Pin, StartRead, StartWrite, cacheVars
  <2> QED
    BY <2>3, <2>4, <2>5, <2>6 DEF Structure
<1>5. ASSUME NEW p \in Procs, EndRead(p) \/ EndWrite(p) PROVE Structure'
  <2>1. b[p] \in Bufs
    BY <1>5 DEF Placed, EndRead, EndWrite, At, Busy
  <2>2. /\ buf' \in [Bufs -> Buffers]
        /\ \A y \in Bufs : buf'[y].blockno = buf[y].blockno /\ buf'[y].refcnt = buf[y].refcnt
    BY <1>5, <2>1, ValidStored, ZenonT(60) DEF TypeOK, EndRead, EndWrite, cacheVars
  <2>3. /\ req' \in [Procs -> Requests] /\ disk' = disk /\ data' = data
        /\ \A q \in Procs : req'[q] = req[q] \/ req'[q].st = "none"
    BY <1>5, RequestReturned DEF EndRead, EndWrite, Return
  <2>4. TypeOK'
    BY <1>5, <2>2, <2>3 DEF TypeOK, EndRead, EndWrite, Goto, cacheVars, Busy
  <2>5. Placed' /\ Requested'
    BY <1>5, <2>1, <2>2, <2>3, SMTT(60) DEF TypeOK, Placed, Requested, EndRead, EndWrite, At, Goto, cacheVars, Busy
  <2>6. Counted'
    BY <1>5, <2>2, SMTT(60) DEF Counted, Users, Pin, EndRead, EndWrite, cacheVars
  <2> QED
    BY <2>4, <2>5, <2>6 DEF Structure
<1>6. ASSUME NEW p \in Procs, Modify(p) PROVE Structure'
  <2>1. b[p] \in Bufs /\ buf[b[p]].blockno \in Blocks
    BY <1>6 DEF Placed, Modify, At, Busy
  <2>2. TypeOK'
    BY <1>6, <2>1 DEF TypeOK, Modify, cacheVars
  <2>3. Placed' /\ Requested' /\ Counted'
    BY <1>6 DEF Placed, Requested, Counted, Users, Pin, Modify, cacheVars
  <2> QED
    BY <2>2, <2>3 DEF Structure
<1>7. ASSUME NEW p \in Procs, Bpin(p) \/ Bunpin(p) PROVE Structure'
  <2>1. b[p] \in Bufs
    BY <1>7 DEF Placed, Bpin, Bunpin, At, Busy
  <2>x. PICK x \in Bufs : x = b[p]
    BY <2>1
  <2>r. buf[x].refcnt \in Int
    BY DEF TypeOK, Buffers
  <2>2. PICK v \in Int : /\ buf' = [buf EXCEPT ![x].refcnt = v]
                         /\ v - buf[x].refcnt = Pin(x)' - Pin(x)
    <3>1. CASE Bpin(p)
      <4>1. PICK v \in Int : v = buf[x].refcnt + 1
        BY <2>r
      <4>2. buf' = [buf EXCEPT ![x].refcnt = v]
        BY <2>x, <3>1, <4>1 DEF Bpin
      <4>3. Pin(x) = 0 /\ Pin(x)' = 1
        BY <2>x, <3>1 DEF Bpin, Pin
      <4>4. v - buf[x].refcnt = Pin(x)' - Pin(x)
        BY <2>r, <4>1, <4>3
      <4> QED
        BY <4>2, <4>4, ZenonT(60)
    <3>2. CASE Bunpin(p)
      <4>1. PICK v \in Int : v = buf[x].refcnt - 1
        BY <2>r
      <4>2. buf' = [buf EXCEPT ![x].refcnt = v]
        BY <2>x, <3>2, <4>1 DEF Bunpin
      <4>3. Pin(x) = 1 /\ Pin(x)' = 0
        BY <2>x, <3>2 DEF Bunpin, Pin
      <4>4. v - buf[x].refcnt = Pin(x)' - Pin(x)
        BY <2>r, <4>1, <4>3
      <4> QED
        BY <4>2, <4>4, ZenonT(60)
    <3> QED
      BY <1>7, <3>1, <3>2
  <2>3. \A y \in Bufs : y # x => Pin(y)' = Pin(y)
    BY <1>7, <2>x DEF Bpin, Bunpin, Pin
  <2>4. /\ buf' \in [Bufs -> Buffers]
        /\ \A y \in Bufs : /\ buf'[y].blockno = buf[y].blockno
                           /\ buf'[y].refcnt = IF y = x THEN v ELSE buf[y].refcnt
    <3>1. buf' = Stored(x, v)
      BY <2>2 DEF Stored
    <3>2. /\ buf' \in [Bufs -> Buffers]
          /\ \A y \in Bufs : /\ buf'[y].blockno = buf[y].blockno /\ buf'[y].valid = buf[y].valid
                             /\ buf'[y].refcnt = IF y = x THEN v ELSE buf[y].refcnt
      BY <3>1, RefcntStored, ZenonT(60)
    <3> QED
      BY <3>2, ZenonT(60)
  <2>5. TypeOK'
    BY ZenonT(60), SMTT(60), <1>7, <2>1, <2>4 DEF TypeOK, Bpin, Bunpin, diskVars
  <2>6. Placed' /\ Requested'
    BY ZenonT(60), SMTT(60), <1>7, <2>1, <2>4 DEF TypeOK, Placed, Requested, Bpin, Bunpin, diskVars
  <2>7. Counted'
    <3>1. \A y \in Bufs : Users(y)' = Users(y)
      BY <1>7 DEF Users, Bpin, Bunpin
    <3>2. \A y \in Bufs : Pin(y) \in Int /\ Pin(y)' \in Int /\ buf[y].refcnt \in Int
      BY SMTT(60) DEF Pin, TypeOK, Buffers
    <3> QED
      BY <2>2, <2>3, <2>4, <3>1, <3>2, UsersFinite, SMTT(60) DEF Counted
  <2> QED
    BY <2>5, <2>6, <2>7 DEF Structure
<1>8. ASSUME NEW p \in Procs, Brelse(p) PROVE Structure'
  <2>1. b[p] \in Bufs
    BY <1>8 DEF Placed, Brelse, At, Busy
  <2>2. TypeOK'
    <3>1. chan' \in [Procs -> Bufs \cup {Nobody}] /\ holder' \in [Bufs -> Procs \cup {Nobody}]
      BY <1>8, <2>1 DEF TypeOK, Brelse, Releasesleep, Wakeup, Woken
    <3>2. pc' \in [Procs -> Busy \cup {"idle", "panic"}]
      BY <1>8 DEF TypeOK, Brelse, Goto, Busy
    <3> QED
      BY <1>8, <3>1, <3>2 DEF TypeOK, Brelse, cacheVars, diskVars
  <2>3. Placed' /\ Requested' /\ Counted'
    BY <1>8, SMTT(60) DEF TypeOK, Placed, Requested, Counted, Users, Pin, Brelse, At, Goto,
                cacheVars, diskVars, Busy
  <2> QED
    BY <2>2, <2>3 DEF Structure
<1>9. ASSUME NEW p \in Procs, BrelseRef(p) PROVE Structure'
  <2>1. b[p] \in Bufs
    BY <1>9 DEF Placed, BrelseRef, At, Busy
  <2>2. PICK x \in Bufs, v \in Int :
          x = b[p] /\ v = buf[x].refcnt - 1 /\ buf' = [buf EXCEPT ![x].refcnt = v]
    <3>1. buf[b[p]].refcnt - 1 \in Int
      BY <2>1, SMTT(60) DEF TypeOK, Buffers
    <3> QED
      BY <1>9, <2>1, <3>1, ZenonT(60) DEF BrelseRef
  <2>3. /\ buf' \in [Bufs -> Buffers]
        /\ \A y \in Bufs : /\ buf'[y].blockno = buf[y].blockno
                           /\ buf'[y].refcnt = IF y = x THEN v ELSE buf[y].refcnt
    <3>1. buf' = Stored(x, v)
      BY <2>2 DEF Stored
    <3>2. /\ buf' \in [Bufs -> Buffers]
          /\ \A y \in Bufs : /\ buf'[y].blockno = buf[y].blockno /\ buf'[y].valid = buf[y].valid
                             /\ buf'[y].refcnt = IF y = x THEN v ELSE buf[y].refcnt
      BY <3>1, RefcntStored, ZenonT(60)
    <3> QED
      BY <3>2, ZenonT(60)
  <2>4. TypeOK'
    BY <1>9, <2>1, <2>3 DEF TypeOK, BrelseRef, Goto, diskVars
  <2>5. Placed' /\ Requested'
    BY <1>9, <2>1, <2>3, SMTT(60) DEF TypeOK, Placed, Requested, BrelseRef, Goto, diskVars, Busy
  <2>6. Counted'
    <3>1. \A y \in Bufs : Pin(y)' = Pin(y)
      BY <1>9 DEF Pin, BrelseRef
    <3>2. \A y \in Bufs : Cardinality(Users(y)') = Cardinality(Users(y)) - IF y = b[p] THEN 1 ELSE 0
      BY <1>9, <2>1, UserRemoved, ZenonT(60) DEF BrelseRef
    <3> QED
      BY <2>1, <2>2, <2>3, <3>1, <3>2, UsersFinite, SMTT(60) DEF Counted, Pin
  <2> QED
    BY <2>4, <2>5, <2>6 DEF Structure
<1>10. ASSUME NEW p \in Procs, DiskStep(p) PROVE Structure'
  <2>1. req[p].b \in Bufs /\ req[p].n \in Blocks
    BY <1>10 DEF Requested, DiskStep, Perform
  <2>2. /\ req' \in [Procs -> Requests]
        /\ \A q \in Procs : 
             req'[q] = req[q] \/ (q = p /\ req'[q].b = req[q].b /\ req'[q].n = req[q].n)
    BY <1>10, RequestDone, ZenonT(60) DEF DiskStep, Perform
  <2>3. disk' \in [Blocks -> BOOLEAN] /\ data' \in [Bufs -> BOOLEAN]
    <3>1. data[req[p].b] \in BOOLEAN /\ disk[req[p].n] \in BOOLEAN
      BY <2>1 DEF TypeOK
    <3> QED
      BY <1>10, <2>1, <3>1 DEF TypeOK, DiskStep, Perform
  <2>4. TypeOK'
    BY <1>10, <2>2, <2>3 DEF TypeOK, DiskStep, cacheVars
  <2>5. Placed' /\ Requested' /\ Counted'
    BY ZenonT(60), SMTT(60), <1>10, <2>1, <2>2 DEF Placed, Requested, Counted, Users, Pin, DiskStep, cacheVars
  <2> QED
    BY <2>4, <2>5 DEF Structure
<1>11. ASSUME NEW p \in Procs, Kicked(p), UNCHANGED <<cacheVars, pc, b, holder, diskVars>>
       PROVE  Structure'
  <2>1. TypeOK'
    BY <1>11 DEF TypeOK, Kicked, Sleep, cacheVars, diskVars
  <2>2. Placed' /\ Requested' /\ Counted'
    BY <1>11 DEF Placed, Requested, Counted, Users, Pin, cacheVars, diskVars
  <2> QED
    BY <2>1, <2>2 DEF Structure
<1>12. ASSUME UNCHANGED vars PROVE Structure'
  BY <1>12, SMTT(60) DEF Structure, TypeOK, Placed, Requested, Counted, Users, Pin, vars
<1> QED
  BY <1>1, <1>2, <1>3, <1>4, <1>5, <1>6, <1>7, <1>8, <1>9, <1>10, <1>11, <1>12, StepCases

-----------------------------------------------------------------------------
(* Second layer: the sleep locks of the buffers *)

Locked == \A p \in Procs : pc[p] \in Owning => holder[b[p]] = p

\* A thread between bread() and brelse() has its buffer for itself.
LEMMA OwnersDiffer ==
  ASSUME Locked, NEW p \in Procs, NEW q \in Procs, pc[p] \in Owning, pc[q] \in Owning, b[p] = b[q]
  PROVE  p = q
BY DEF Locked

\* Every step keeps the locks exclusive, and releasesleep() leaves no sleeper
\* behind on a free lock.
LEMMA NextLocked == Structure /\ Locked /\ NoLostWakeup /\ [Next]_vars => (Locked /\ NoLostWakeup)'
<1> SUFFICES ASSUME TypeOK, Placed, Locked, NoLostWakeup, [Next]_vars
             PROVE  Locked' /\ NoLostWakeup'
  BY DEF Structure
<1> USE CacheAssumption
<1>1. ASSUME NEW p \in Procs, Lock(p) PROVE Locked' /\ NoLostWakeup'
  <2>1. b[p] \in Bufs /\ pc[p] \notin Owning
    BY <1>1 DEF Placed, Lock, At, Busy, Owning
  <2>2. CASE Acquiresleep(p, b[p])
    <3>1. holder' = [holder EXCEPT ![b[p]] = p] /\ holder[b[p]] = Nobody /\ chan' = chan /\ b' = b
      BY <1>1, <2>2 DEF Acquiresleep, Lock
    <3>2. \A q \in Procs : q # p => pc'[q] = pc[q]
      BY <1>1 DEF Lock, Goto, TypeOK
    <3>3. Locked'
      BY <2>1, <3>1, <3>2, SMTT(60) DEF Locked, TypeOK
    <3>4. NoLostWakeup'
      BY <2>1, <3>1 DEF NoLostWakeup, Awake, TypeOK
    <3> QED
      BY <3>3, <3>4
  <2>3. CASE ~Acquiresleep(p, b[p])
    <3>1. /\ holder[b[p]] # Nobody /\ chan' = [chan EXCEPT ![p] = b[p]] /\ holder' = holder
          /\ pc' = pc /\ b' = b
      BY <1>1, <2>3 DEF Lock, Blocksleep, Sleep
    <3>2. Locked'
      BY <3>1 DEF Locked
    <3>3. NoLostWakeup'
      BY <2>1, <3>1 DEF NoLostWakeup, Awake, TypeOK
    <3> QED
      BY <3>2, <3>3
  <2> QED
    BY <2>2, <2>3
<1>2. ASSUME NEW p \in Procs, Brelse(p) PROVE Locked' /\ NoLostWakeup'
  <2>1. holder[b[p]] = p /\ b[p] \in Bufs
    BY <1>2 DEF Brelse, At, Locked, Placed, Busy, Owning
  <2>2. /\ holder' = [holder EXCEPT ![b[p]] = Nobody] /\ chan' = Woken(b[p]) /\ b' = b
        /\ pc' = [pc EXCEPT ![p] = "unref"]
    BY <1>2, <2>1 DEF Brelse, Holdingsleep, Releasesleep, Wakeup, Goto
  <2>3. Locked'
    <3> SUFFICES ASSUME NEW q \in Procs, pc'[q] \in Owning PROVE holder'[b[q]] = q
      BY <2>2 DEF Locked
    <3>1. q # p /\ pc[q] \in Owning
      BY <2>2 DEF TypeOK, Owning
    <3>2. holder[b[q]] = q /\ b[q] \in Bufs /\ b[q] # b[p]
      BY <2>1, <3>1 DEF Locked, Placed, Owning, Busy
    <3> QED
      BY <2>2, <3>2 DEF TypeOK
  <2>4. NoLostWakeup'
    <3> SUFFICES ASSUME NEW q \in Procs, chan'[q] # Nobody PROVE holder'[chan'[q]] # Nobody
      BY DEF NoLostWakeup, Awake
    <3>1. chan'[q] = chan[q] /\ chan[q] # b[p] /\ chan[q] \in Bufs
      BY <2>2 DEF Woken, TypeOK
    <3> QED
      BY <2>2, <3>1 DEF NoLostWakeup, Awake, TypeOK
  <2> QED
    BY <2>3, <2>4
<1>3. ASSUME NEW p \in Procs, NEW n \in Blocks, BgetHit(p, n) \/ BgetMiss(p, n)
      PROVE  Locked' /\ NoLostWakeup'
  <2>1. \A q \in Procs : pc'[q] \in Owning => pc'[q] = pc[q] /\ b'[q] = b[q]
    BY ZenonT(60), SMTT(60), <1>3 DEF BgetHit, BgetMiss, Goto, TypeOK, Owning
  <2>2. holder' = holder /\ chan' = chan
    BY <1>3 DEF BgetHit, BgetMiss
  <2> QED
    BY <2>1, <2>2 DEF Locked, NoLostWakeup, Awake
<1>4. ASSUME NEW p \in Procs,
             \/ StartRead(p) \/ EndRead(p) \/ StartWrite(p) \/ EndWrite(p)
             \/ Modify(p) \/ Bpin(p) \/ Bunpin(p) \/ DiskStep(p)
      PROVE  Locked' /\ NoLostWakeup'
  <2>1. \A q \in Procs : pc'[q] \in Owning => pc[q] \in Owning
    <3>1. CASE StartRead(p) \/ EndRead(p) \/ StartWrite(p) \/ EndWrite(p)
      BY <3>1, ZenonT(60) DEF StartRead, EndRead, StartWrite, EndWrite, At, Goto, TypeOK, Owning
    <3>2. CASE Modify(p) \/ Bpin(p) \/ Bunpin(p) \/ DiskStep(p)
      BY <3>2 DEF Modify, Bpin, Bunpin, DiskStep
    <3> QED
      BY <1>4, <3>1, <3>2
  <2>2. holder' = holder /\ chan' = chan /\ b' = b
    BY <1>4, ZenonT(60) DEF StartRead, EndRead, StartWrite, EndWrite, Modify, Bpin, Bunpin, DiskStep
  <2> QED
    BY <2>1, <2>2 DEF Locked, NoLostWakeup, Awake
<1>5. ASSUME NEW p \in Procs, BrelseRef(p) PROVE Locked' /\ NoLostWakeup'
  <2>1. \A q \in Procs : pc'[q] \in Owning => pc'[q] = pc[q] /\ b'[q] = b[q]
    BY <1>5 DEF BrelseRef, Goto, TypeOK, Owning
  <2>2. holder' = holder /\ chan' = chan
    BY <1>5 DEF BrelseRef
  <2> QED
    BY <2>1, <2>2 DEF Locked, NoLostWakeup, Awake
<1>6. ASSUME NEW p \in Procs, Kicked(p), UNCHANGED <<cacheVars, pc, b, holder, diskVars>>
      PROVE  Locked' /\ NoLostWakeup'
  BY <1>6 DEF Locked, NoLostWakeup, Awake, Kicked, Sleep, TypeOK
<1>7. ASSUME UNCHANGED vars PROVE Locked' /\ NoLostWakeup'
  BY <1>7 DEF Locked, NoLostWakeup, Awake, vars
<1> QED
  BY <1>1, <1>2, <1>3, <1>4, <1>5, <1>6, <1>7, StepCases

-----------------------------------------------------------------------------
(* Third layer: no stale copy is served *)

OneCopy ==
  \A x, y \in Bufs : buf[x].blockno = buf[y].blockno /\ buf[x].blockno # Nobody => x = y

\* The flag valid: a valid buffer has the latest contents, bread() transfers
\* into a buffer that is not valid, and its caller works on one that is.
Current == \A x \in Bufs : buf[x].valid => data[x]
Flags ==
  \A p \in Procs : /\ pc[p] \in {"read", "reading"} => ~buf[b[p]].valid
                   /\ pc[p] \in {"use", "writing"} => buf[b[p]].valid

\* The request of a thread is for its own buffer and block.
Transfers ==
  \A p \in Procs :
    /\ pc[p] \notin {"reading", "writing"} => req[p].st = "none"
    /\ pc[p] \in {"reading", "writing"} =>
         /\ req[p].b = b[p] /\ req[p].n = buf[b[p]].blockno
         /\ req[p].write = (pc[p] = "writing")
    /\ pc[p] = "reading" /\ req[p].st = "done" => data[b[p]]

\* A block that is newer in memory than on the disk is in a valid buffer that
\* cannot be recycled.
Kept(n, x) ==
  /\ buf[x].blockno = n /\ buf[x].valid
  /\ x \in pinned \/ \E p \in Procs : pc[p] \in {"use", "writing"} /\ b[p] = x
NewerKept == \A n \in Blocks : ~disk[n] => \E x \in Bufs : Kept(n, x)

Fresh == OneCopy /\ Current /\ Flags /\ Transfers /\ NewerKept

\* Steps that take a thread into or out of a buffer without touching contents.
LEMMA QuietStep ==
  ASSUME Fresh, data' = data, disk' = disk, req' = req, pinned \subseteq pinned',
         \A y \in Bufs : buf'[y].blockno = buf[y].blockno /\ buf'[y].valid = buf[y].valid,
         \A q \in Procs :
           \/ pc'[q] = pc[q] /\ b'[q] = b[q]
           \/ /\ pc[q] \in {"idle", "lock", "unref"}
              /\ pc'[q] \notin {"reading", "writing"}
              /\ pc'[q] = "read" => ~buf'[b'[q]].valid
              /\ pc'[q] = "use" => buf'[b'[q]].valid,
         TypeOK, Placed
  PROVE  Fresh'
<1>1. OneCopy' /\ Current'
  BY ZenonT(60), SMTT(60) DEF Fresh, OneCopy, Current
<1>2. \A q \in Procs : pc'[q] = pc[q] /\ b'[q] = b[q] /\ pc[q] \in Busy =>
        buf'[b'[q]].valid = buf[b[q]].valid /\ buf'[b'[q]].blockno = buf[b[q]].blockno
  BY DEF Placed
<1>3. Flags'
  BY ZenonT(60), SMTT(60), <1>2 DEF Fresh, Flags, Busy
<1>4. Transfers'
  BY <1>2, SMTT(60) DEF Fresh, Transfers, Busy
<1>5. NewerKept'
  <2> SUFFICES ASSUME NEW n \in Blocks, ~disk[n] PROVE \E x \in Bufs : Kept(n, x)'
    BY DEF NewerKept
  <2>1. PICK x \in Bufs : Kept(n, x)
    BY DEF Fresh, NewerKept
  <2>2. Kept(n, x)'
    BY <2>1 DEF Kept
  <2> QED
    BY <2>2
<1> QED
  BY ZenonT(60), SMTT(60), <1>1, <1>3, <1>4, <1>5 DEF Fresh

\* bget() recycles a buffer nobody refers to, for a block that is in no buffer.
LEMMA MissFresh ==
  ASSUME TypeOK, Placed, Counted, Fresh, NEW p \in Procs, NEW n \in Blocks, BgetMiss(p, n),
         Unused # {}
  PROVE  Fresh'
<1> USE CacheAssumption
<1>1. PICK x \in Bufs : /\ x \in Unused /\ buf' = Recycled(x, n)
                        /\ data' = [data EXCEPT ![x] = FALSE] /\ b' = [b EXCEPT ![p] = x]
  BY DEF BgetMiss, Victim
<1>2. Users(x) = {} /\ x \notin pinned
  <2>1. buf[x].refcnt = 0 /\ buf[x].refcnt = Cardinality(Users(x)) + Pin(x)
    BY <1>1 DEF Counted, Unused
  <2>2. Cardinality(Users(x)) \in Nat /\ (Cardinality(Users(x)) = 0 => Users(x) = {})
    BY UsersFinite
  <2>3. Pin(x) \in {0, 1} /\ (Pin(x) = 0 => x \notin pinned)
    BY DEF Pin
  <2> QED
    BY <2>1, <2>2, <2>3
<1>3. /\ \A y \in Bufs : y # x => buf'[y] = buf[y] /\ data'[y] = data[y]
      /\ buf'[x].blockno = n /\ buf'[x].valid = FALSE
  <2>1. buf' = Recycled(x, n)
    BY <1>1
  <2>2. /\ buf' \in [Bufs -> Buffers]
        /\ \A y \in Bufs : y # x => buf'[y] = buf[y]
        /\ buf'[x].blockno = n /\ buf'[x].valid = FALSE /\ buf'[x].refcnt = 1
    BY <2>1, BufferRecycled, ZenonT(60)
  <2>3. \A y \in Bufs : y # x => data'[y] = data[y]
    BY <1>1 DEF TypeOK
  <2> QED
    BY <2>2, <2>3, ZenonT(60)
<1>4. /\ \A q \in Procs : q # p => pc'[q] = pc[q] /\ b'[q] = b[q] /\ b[q] # x
      /\ pc[p] = "idle" /\ pc'[p] = "lock"
  BY <1>1, <1>2 DEF BgetMiss, At, Goto, Users, TypeOK
<1>5. req' = req /\ disk' = disk /\ pinned' = pinned
  BY DEF BgetMiss
<1>6. OneCopy'
  <2>1. \A y \in Bufs : buf[y].blockno # n
    BY DEF BgetMiss, Cached
  <2> QED
    BY ZenonT(60), SMTT(60), <1>3, <2>1 DEF Fresh, OneCopy
<1>7. Current'
  BY <1>3 DEF Fresh, Current
<1>8. \A q \in Procs : q # p /\ pc[q] \in Busy =>
        b'[q] \in Bufs /\ buf'[b'[q]] = buf[b[q]] /\ data'[b'[q]] = data[b[q]]
  BY <1>3, <1>4, SMTT(60) DEF Placed
<1>9. Flags'
  BY <1>4, <1>8, SMTT(60) DEF Fresh, Flags, Busy
<1>10. Transfers'
  BY <1>4, <1>5, <1>8, SMTT(60) DEF Fresh, Transfers, Busy
<1>11. NewerKept'
  <2> SUFFICES ASSUME NEW m \in Blocks, ~disk[m] PROVE \E y \in Bufs : Kept(m, y)'
    BY <1>5 DEF NewerKept
  <2>1. PICK y \in Bufs : Kept(m, y)
    BY DEF Fresh, NewerKept
  <2>2. y # x
    BY <1>2, <2>1 DEF Kept, Users
  <2>3. Kept(m, y)'
    BY ZenonT(60), SMTT(60), <1>3, <1>4, <1>5, <2>1, <2>2 DEF Kept
  <2> QED
    BY <2>3
<1> QED
  BY ZenonT(60), SMTT(60), <1>6, <1>7, <1>9, <1>10, <1>11 DEF Fresh

\* A thread that starts a transfer asks for its own buffer and block.
LEMMA StartFresh ==
  ASSUME TypeOK, Placed, Locked, Fresh, NEW p \in Procs, StartRead(p) \/ StartWrite(p)
  PROVE  Fresh'
<1>1. b[p] \in Bufs /\ buf[b[p]].blockno \in Blocks /\ holder[b[p]] = p
  BY ZenonT(60) DEF StartRead, StartWrite, At, Placed, Locked, Busy, Owning
<1>2. PICK w \in BOOLEAN :
        /\ Request(p, b[p], buf[b[p]].blockno, w)
        /\ pc[p] = IF w THEN "use" ELSE "read"
        /\ pc' = [pc EXCEPT ![p] = IF w THEN "writing" ELSE "reading"]
  <2>1. CASE StartRead(p)
    BY <2>1, ZenonT(60) DEF StartRead, At, Goto
  <2>2. CASE StartWrite(p)
    <3>1. /\ Request(p, b[p], buf[b[p]].blockno, TRUE) /\ pc[p] = "use"
          /\ pc' = [pc EXCEPT ![p] = "writing"]
      BY <1>1, <2>2, ZenonT(60) DEF StartWrite, At, Goto, Holdingsleep
    <3> QED
      BY <3>1, ZenonT(60)
  <2> QED
    BY <2>1, <2>2
<1>3. buf' = buf /\ b' = b /\ pinned' = pinned
  BY ZenonT(60) DEF StartRead, StartWrite, cacheVars
<1>4. disk' = disk /\ data' = data
  BY <1>2 DEF Request
<1>5. /\ \A q \in Procs : q # p => req'[q] = req[q] /\ pc'[q] = pc[q]
      /\ req'[p] = [st |-> "queued", b |-> b[p], n |-> buf[b[p]].blockno, write |-> w]
      /\ pc'[p] = IF w THEN "writing" ELSE "reading"
  BY <1>1, <1>2, RequestMade, SMTT(60) DEF TypeOK
<1>6. OneCopy' /\ Current' /\ Flags'
  BY <1>2, <1>3, <1>4, <1>5, SMTT(60) DEF Fresh, OneCopy, Current, Flags
<1>7. Transfers'
  <2>1. req'[p].st = "queued" /\ req'[p].b = b[p] /\ req'[p].n = buf[b[p]].blockno /\ req'[p].write = w
    BY <1>5
  <2>2. w = (pc'[p] = "writing") /\ pc'[p] \in {"reading", "writing"}
    BY <1>5
  <2> DEFINE Transfer(q) ==
        /\ pc[q] \notin {"reading", "writing"} => req[q].st = "none"
        /\ pc[q] \in {"reading", "writing"} =>
             /\ req[q].b = b[q] /\ req[q].n = buf[b[q]].blockno
             /\ req[q].write = (pc[q] = "writing")
        /\ pc[q] = "reading" /\ req[q].st = "done" => data[b[q]]
  <2>3. ASSUME NEW q \in Procs, q # p PROVE Transfer(q)'
    <3>1. Transfer(q)
      BY DEF Fresh, Transfers
    <3>2. req'[q] = req[q] /\ pc'[q] = pc[q]
      BY <1>5, <2>3
    <3> QED
      BY ZenonT(60), SMTT(60), <1>3, <1>4, <3>1, <3>2
  <2>4. Transfer(p)'
    BY ZenonT(60), SMTT(60), <1>3, <2>1, <2>2
  <2>5. \A q \in Procs : Transfer(q)'
    BY ZenonT(60), SMTT(60), <2>3, <2>4
  <2> QED
    BY <2>5 DEF Transfers
<1>8. NewerKept'
  <2> SUFFICES ASSUME NEW n \in Blocks, ~disk[n] PROVE \E x \in Bufs : Kept(n, x)'
    BY <1>4 DEF NewerKept
  <2>1. PICK x \in Bufs : Kept(n, x)
    BY DEF Fresh, NewerKept
  <2>2. \A q \in Procs : pc[q] \in {"use", "writing"} => pc'[q] \in {"use", "writing"}
    BY <1>2, <1>5
  <2>3. Kept(n, x)'
    BY ZenonT(60), SMTT(60), <1>3, <2>1, <2>2 DEF Kept
  <2> QED
    BY <2>3
<1> QED
  BY ZenonT(60), SMTT(60), <1>6, <1>7, <1>8 DEF Fresh

\* When a transfer returns, the buffer of bread() is current and is made valid.
LEMMA EndFresh ==
  ASSUME TypeOK, Placed, Locked, Fresh, NEW p \in Procs, EndRead(p) \/ EndWrite(p)
  PROVE  Fresh'
<1>1. b[p] \in Bufs /\ pc[p] \in {"reading", "writing"} /\ req[p].st = "done"
  BY DEF EndRead, EndWrite, At, Placed, Return, Busy
<1>2. b' = b /\ pinned' = pinned /\ disk' = disk /\ data' = data
  BY DEF EndRead, EndWrite, Return, cacheVars
<1>3. /\ \A q \in Procs : q # p => req'[q] = req[q] /\ pc'[q] = pc[q]
      /\ req'[p].st = "none" /\ pc'[p] = "use"
  BY RequestReturned DEF EndRead, EndWrite, Goto, TypeOK
<1>4. /\ \A y \in Bufs : buf'[y].blockno = buf[y].blockno
      /\ \A y \in Bufs : y # b[p] => buf'[y].valid = buf[y].valid
      /\ buf'[b[p]].valid
  <2>1. CASE EndRead(p)
    BY <1>1, <2>1, ValidStored, ZenonT(60) DEF EndRead
  <2>2. CASE EndWrite(p)
    BY <1>1, <2>2 DEF EndWrite, At, cacheVars, Fresh, Flags
  <2> QED
    BY <2>1, <2>2
<1>5. OneCopy'
  BY <1>4 DEF Fresh, OneCopy
<1>6. data[b[p]]
  <2>1. CASE pc[p] = "reading"
    BY <1>1, <2>1 DEF Fresh, Transfers
  <2>2. CASE pc[p] = "writing"
    BY <1>1, <2>2 DEF Fresh, Flags, Current
  <2> QED
    BY ZenonT(60), SMTT(60), <1>1, <2>1, <2>2
<1>7. Current'
  BY ZenonT(60), SMTT(60), <1>2, <1>4, <1>6 DEF Fresh, Current
<1>8. \A q \in Procs : q # p /\ pc[q] \in Owning => b[q] # b[p] /\ b[q] \in Bufs
  BY <1>1, OwnersDiffer DEF Placed, Owning, Busy
<1>9. Flags'
  BY ZenonT(60), SMTT(60), <1>2, <1>3, <1>4, <1>8 DEF Fresh, Flags, Owning
<1>10. Transfers'
  BY <1>2, <1>3, <1>4, <1>8, SMTT(60) DEF Fresh, Transfers, Owning
<1>11. NewerKept'
  <2> SUFFICES ASSUME NEW n \in Blocks, ~disk[n] PROVE \E x \in Bufs : Kept(n, x)'
    BY <1>2 DEF NewerKept
  <2>1. PICK x \in Bufs : Kept(n, x)
    BY DEF Fresh, NewerKept
  <2>2. \A q \in Procs : pc[q] \in {"use", "writing"} => pc'[q] \in {"use", "writing"}
    BY <1>3
  <2>3. Kept(n, x)'
    BY ZenonT(60), SMTT(60), <1>2, <1>4, <2>1, <2>2 DEF Kept
  <2> QED
    BY <2>3
<1> QED
  BY ZenonT(60), SMTT(60), <1>5, <1>7, <1>9, <1>10, <1>11 DEF Fresh

\* A caller that stores into its buffer makes the copy on the disk the older one.
LEMMA ModifyFresh ==
  ASSUME TypeOK, Placed, Fresh, NEW p \in Procs, Modify(p)
  PROVE  Fresh'
<1>1. b[p] \in Bufs /\ buf[b[p]].blockno \in Blocks /\ pc[p] = "use" /\ buf[b[p]].valid
  BY DEF Modify, At, Placed, Busy, Fresh, Flags
<1>2. /\ buf' = buf /\ pinned' = pinned /\ pc' = pc /\ b' = b /\ req' = req
      /\ \A x \in Bufs : data[x] => data'[x]
      /\ data'[b[p]]
      /\ \A n \in Blocks : n # buf[b[p]].blockno => disk'[n] = disk[n]
  BY <1>1 DEF Modify, cacheVars, TypeOK
<1>3. OneCopy' /\ Current' /\ Flags'
  BY <1>2 DEF Fresh, OneCopy, Current, Flags
<1>4. Transfers'
  BY <1>2 DEF Fresh, Transfers, Placed, Busy
<1>5. NewerKept'
  <2> SUFFICES ASSUME NEW n \in Blocks, ~disk'[n] PROVE \E x \in Bufs : Kept(n, x)
    BY <1>2, SMTT(60) DEF NewerKept, Kept
  <2>1. CASE n = buf[b[p]].blockno
    <3>1. Kept(n, b[p])
      BY <1>1, <2>1 DEF Kept
    <3> QED
      BY <1>1, <3>1
  <2>2. CASE n # buf[b[p]].blockno
    BY <1>2, <2>2 DEF Fresh, NewerKept
  <2> QED
    BY <2>1, <2>2
<1> QED
  BY ZenonT(60), SMTT(60), <1>3, <1>4, <1>5 DEF Fresh

\* bunpin() comes after the block was written, brelse() after that or bpin().
LEMMA LetGoFresh ==
  ASSUME TypeOK, Placed, Locked, Fresh, NEW p \in Procs, Bunpin(p) \/ Brelse(p)
  PROVE  Fresh'
<1>1. b[p] \in Bufs /\ pc[p] = "use" /\ holder[b[p]] = p
  BY DEF Bunpin, Brelse, At, Placed, Locked, Busy, Owning
<1>2. b' = b /\ req' = req /\ disk' = disk /\ data' = data
  BY DEF Bunpin, Brelse, diskVars
<1>3. \A y \in Bufs : buf'[y].blockno = buf[y].blockno /\ buf'[y].valid = buf[y].valid
  <2>1. CASE Brelse(p)
    BY <2>1 DEF Brelse, cacheVars
  <2>2. CASE Bunpin(p)
    <3>1. PICK x \in Bufs, v \in Int : x = b[p] /\ v = buf[x].refcnt - 1
      BY <1>1, SMTT(60) DEF TypeOK, Buffers
    <3>2. buf' = Stored(x, v)
      BY <2>2, <3>1 DEF Bunpin, Stored
    <3> QED
      BY <3>2, IdentityKept, ZenonT(60)
  <2> QED
    BY <2>1, <2>2
<1>4. /\ \A q \in Procs : q # p => pc'[q] = pc[q]
      /\ pc'[p] \in {"use", "unref"}
  BY <1>1 DEF Bunpin, Brelse, Holdingsleep, Goto, TypeOK
<1>5. OneCopy' /\ Current'
  BY ZenonT(60), SMTT(60), <1>2, <1>3 DEF Fresh, OneCopy, Current
<1>6. \A q \in Procs : pc[q] \in Busy => b[q] \in Bufs
  BY DEF Placed
<1>7. Flags'
  BY ZenonT(60), SMTT(60), <1>1, <1>2, <1>3, <1>4, <1>6 DEF Fresh, Flags, Busy
<1>8. Transfers'
  BY <1>1, <1>2, <1>3, <1>4, <1>6, SMTT(60) DEF Fresh, Transfers, Busy
<1>9. NewerKept'
  <2> SUFFICES ASSUME NEW n \in Blocks, ~disk[n] PROVE \E x \in Bufs : Kept(n, x)'
    BY <1>2 DEF NewerKept
  <2>1. PICK x \in Bufs : Kept(n, x)
    BY DEF Fresh, NewerKept
  <2>2. CASE x = b[p]
    <3>1. Dirty(p)
      BY <2>1, <2>2 DEF Kept, Dirty
    <3>2. x \in pinned /\ pinned' = pinned
      BY <2>2, <3>1 DEF Bunpin, Brelse, cacheVars
    <3>3. Kept(n, x)'
      BY ZenonT(60), SMTT(60), <1>3, <2>1, <3>2 DEF Kept
    <3> QED
      BY <3>3
  <2>3. CASE x # b[p]
    <3>1. x \in pinned => x \in pinned'
      BY <2>3 DEF Bunpin, Brelse, cacheVars
    <3>2. \A q \in Procs : b[q] = x => pc'[q] = pc[q]
      BY <1>4, <2>3
    <3>3. Kept(n, x)'
      BY ZenonT(60), SMTT(60), <1>2, <1>3, <2>1, <3>1, <3>2 DEF Kept
    <3> QED
      BY <3>3
  <2> QED
    BY <2>2, <2>3
<1> QED
  BY <1>5, <1>7, <1>8, <1>9 DEF Fresh

\* The disk reads a block that is nowhere newer in memory, into a buffer that its
\* reader has locked, and it writes current contents.
LEMMA DiskFresh ==
  ASSUME TypeOK, Placed, Locked, Fresh, NEW p \in Procs, DiskStep(p)
  PROVE  Fresh'
<1>1. /\ pc[p] \in {"reading", "writing"} /\ b[p] \in Bufs /\ buf[b[p]].blockno \in Blocks
      /\ req[p].b = b[p] /\ req[p].n = buf[b[p]].blockno /\ req[p].write = (pc[p] = "writing")
  <2>1. pc[p] \in {"reading", "writing"}
    BY DEF DiskStep, Perform, Fresh, Transfers
  <2> QED
    BY <2>1 DEF Fresh, Transfers, Placed, Busy
<1>2. buf' = buf /\ pinned' = pinned /\ pc' = pc /\ b' = b
  BY DEF DiskStep, cacheVars
<1>3. /\ \A q \in Procs : q # p => req'[q] = req[q]
      /\ req'[p].st = "done" /\ req'[p].b = req[p].b /\ req'[p].n = req[p].n
      /\ req'[p].write = req[p].write
  BY RequestDone, ZenonT(60) DEF DiskStep, Perform
<1>4. OneCopy' /\ Flags'
  BY <1>2 DEF Fresh, OneCopy, Flags
<1>5. CASE pc[p] = "reading"
  <2>1. disk[buf[b[p]].blockno]
    <3> SUFFICES ASSUME ~disk[buf[b[p]].blockno] PROVE FALSE
      OBVIOUS
    <3>1. PICK x \in Bufs : Kept(buf[b[p]].blockno, x)
      BY <1>1 DEF Fresh, NewerKept
    <3>2. x = b[p]
      BY ZenonT(60), SMTT(60), <1>1, <3>1, CacheAssumption DEF Kept, Fresh, OneCopy
    <3> QED
      BY ZenonT(60), SMTT(60), <1>5, <3>1, <3>2 DEF Kept, Fresh, Flags
  <2>2. data' = [data EXCEPT ![b[p]] = disk[buf[b[p]].blockno]] /\ disk' = disk
    BY <1>1, <1>5, ZenonT(60) DEF DiskStep, Perform
  <2>3. /\ data'[b[p]]
        /\ \A x \in Bufs : x # b[p] => data'[x] = data[x]
    BY ZenonT(60), SMTT(60), <1>1, <2>1, <2>2 DEF TypeOK
  <2>4. Current'
    BY <1>2, <2>3 DEF Fresh, Current
  <2>5. Transfers'
    <3>1. \A q \in Procs : pc[q] = "reading" /\ q # p => b[q] \in Bufs /\ data'[b[q]] = data[b[q]]
      BY ZenonT(60), SMTT(60), <1>5, <2>3, OwnersDiffer DEF Placed, Busy, Owning
    <3> DEFINE Transfer(q) ==
          /\ pc[q] \notin {"reading", "writing"} => req[q].st = "none"
          /\ pc[q] \in {"reading", "writing"} =>
               /\ req[q].b = b[q] /\ req[q].n = buf[b[q]].blockno
               /\ req[q].write = (pc[q] = "writing")
          /\ pc[q] = "reading" /\ req[q].st = "done" => data[b[q]]
    <3>2. ASSUME NEW q \in Procs, q # p PROVE Transfer(q)'
      <4>1. Transfer(q)
        BY DEF Fresh, Transfers
      <4>2. req'[q] = req[q]
        BY <1>3, <3>2
      <4>3. pc[q] = "reading" => data'[b[q]] = data[b[q]]
        BY ZenonT(60), SMTT(60), <3>1, <3>2
      <4> QED
        BY ZenonT(60), SMTT(60), <1>2, <4>1, <4>2, <4>3
    <3>3. Transfer(p)'
      BY ZenonT(60), SMTT(60), <1>1, <1>2, <1>3, <2>3
    <3>4. \A q \in Procs : Transfer(q)'
      BY <3>2, <3>3
    <3> QED
      BY <3>4 DEF Transfers
  <2>6. NewerKept'
    BY <1>2, <2>2, SMTT(60) DEF Fresh, NewerKept, Kept
  <2> QED
    BY ZenonT(60), SMTT(60), <1>4, <2>4, <2>5, <2>6 DEF Fresh
<1>6. CASE pc[p] = "writing"
  <2>1. data[b[p]]
    BY <1>1, <1>6 DEF Fresh, Flags, Current
  <2>2. disk' = [disk EXCEPT ![buf[b[p]].blockno] = data[b[p]]] /\ data' = data
    BY <1>1, <1>6, ZenonT(60) DEF DiskStep, Perform
  <2>3. \A n \in Blocks : disk[n] => disk'[n]
    BY <1>1, <2>1, <2>2 DEF TypeOK
  <2>4. Current'
    BY <1>2, <2>2 DEF Fresh, Current
  <2>5. Transfers'
    <3> DEFINE Transfer(q) ==
          /\ pc[q] \notin {"reading", "writing"} => req[q].st = "none"
          /\ pc[q] \in {"reading", "writing"} =>
               /\ req[q].b = b[q] /\ req[q].n = buf[b[q]].blockno
               /\ req[q].write = (pc[q] = "writing")
          /\ pc[q] = "reading" /\ req[q].st = "done" => data[b[q]]
    <3>2. ASSUME NEW q \in Procs, q # p PROVE Transfer(q)'
      <4>1. Transfer(q)
        BY DEF Fresh, Transfers
      <4>2. req'[q] = req[q]
        BY <1>3, <3>2
      <4> QED
        BY ZenonT(60), SMTT(60), <1>2, <2>2, <4>1, <4>2
    <3>3. Transfer(p)'
      BY ZenonT(60), SMTT(60), <1>1, <1>2, <1>3, <1>6
    <3>4. \A q \in Procs : Transfer(q)'
      BY <3>2, <3>3
    <3> QED
      BY <3>4 DEF Transfers
  <2>6. NewerKept'
    BY <1>2, <2>3, SMTT(60) DEF Fresh, NewerKept, Kept
  <2> QED
    BY <1>4, <2>4, <2>5, <2>6 DEF Fresh
<1> QED
  BY ZenonT(60), SMTT(60), <1>1, <1>5, <1>6

\* Every step keeps the third layer.
LEMMA NextFresh == Structure /\ Locked /\ Fresh /\ [Next]_vars => Fresh'
<1> SUFFICES ASSUME TypeOK, Placed, Counted, Locked, Fresh, [Next]_vars PROVE Fresh'
  BY DEF Structure
<1>1. ASSUME NEW p \in Procs, NEW n \in Blocks, BgetHit(p, n) PROVE Fresh'
  <2>1. PICK x \in Bufs, v \in Int : buf' = Stored(x, v)
    <3>1. PICK x \in Bufs : buf' = [buf EXCEPT ![x].refcnt = buf[x].refcnt + 1]
      BY <1>1, ZenonT(60) DEF BgetHit, Cached
    <3>2. buf[x].refcnt + 1 \in Int
      BY SMTT(60) DEF TypeOK, Buffers
    <3> QED
      BY <3>1, <3>2, ZenonT(60) DEF Stored
  <2>2. \A y \in Bufs : buf'[y].blockno = buf[y].blockno /\ buf'[y].valid = buf[y].valid
    BY <2>1, IdentityKept, ZenonT(60)
  <2>3. \A q \in Procs : (pc'[q] = pc[q] /\ b'[q] = b[q]) \/ (pc[q] = "idle" /\ pc'[q] = "lock")
    BY <1>1 DEF BgetHit, At, Goto, TypeOK
  <2>4. data' = data /\ disk' = disk /\ req' = req /\ pinned' = pinned
    BY <1>1 DEF BgetHit, diskVars
  <2> QED
    BY <2>2, <2>3, <2>4, QuietStep, ZenonT(60)
<1>2. ASSUME NEW p \in Procs, NEW n \in Blocks, BgetMiss(p, n) PROVE Fresh'
  <2>1. CASE Unused = {}
    <3>1. /\ data' = data /\ disk' = disk /\ req' = req /\ pinned' = pinned /\ buf' = buf
          /\ \A q \in Procs : (pc'[q] = pc[q] /\ b'[q] = b[q]) \/ (pc[q] = "idle" /\ pc'[q] = "panic")
      BY <1>2, <2>1 DEF BgetMiss, At, Goto, TypeOK
    <3> QED
      BY <3>1, QuietStep, ZenonT(60)
  <2> QED
    BY <1>2, <2>1, MissFresh
<1>3. ASSUME NEW p \in Procs, Lock(p) PROVE Fresh'
  <2>1. data' = data /\ disk' = disk /\ req' = req /\ pinned' = pinned /\ buf' = buf /\ b' = b
    BY <1>3 DEF Lock, cacheVars, diskVars
  <2>2. \A q \in Procs :
          pc'[q] = pc[q] \/ /\ pc[q] = "lock"
                            /\ pc'[q] = IF buf[b[q]].valid THEN "use" ELSE "read"
    BY <1>3 DEF Lock, At, Goto, TypeOK
  <2> QED
    BY ZenonT(60), SMTT(60), <2>1, <2>2, QuietStep
<1>4. ASSUME NEW p \in Procs, Bpin(p) PROVE Fresh'
  <2>1. PICK x \in Bufs, v \in Int : buf' = Stored(x, v)
    <3>1. b[p] \in Bufs
      BY <1>4 DEF Bpin, At, Placed, Busy
    <3>2. buf[b[p]].refcnt + 1 \in Int
      BY <3>1, SMTT(60) DEF TypeOK, Buffers
    <3>3. buf' = [buf EXCEPT ![b[p]].refcnt = buf[b[p]].refcnt + 1]
      BY <1>4 DEF Bpin
    <3> QED
      BY <3>1, <3>2, <3>3, ZenonT(60) DEF Stored
  <2>2. \A y \in Bufs : buf'[y].blockno = buf[y].blockno /\ buf'[y].valid = buf[y].valid
    BY <2>1, IdentityKept, ZenonT(60)
  <2>3. pc' = pc /\ b' = b /\ data' = data /\ disk' = disk /\ req' = req /\ pinned \subseteq pinned'
    BY <1>4 DEF Bpin, diskVars
  <2> QED
    BY ZenonT(60), SMTT(60), <2>2, <2>3, QuietStep
<1>5. ASSUME NEW p \in Procs, BrelseRef(p) PROVE Fresh'
  <2>1. PICK x \in Bufs, v \in Int : buf' = Stored(x, v)
    <3>1. b[p] \in Bufs
      BY <1>5 DEF BrelseRef, At, Placed, Busy
    <3>2. buf[b[p]].refcnt - 1 \in Int
      BY <3>1, SMTT(60) DEF TypeOK, Buffers
    <3>3. buf' = [buf EXCEPT ![b[p]].refcnt = buf[b[p]].refcnt - 1]
      BY <1>5 DEF BrelseRef
    <3> QED
      BY <3>1, <3>2, <3>3, ZenonT(60) DEF Stored
  <2>2. \A y \in Bufs : buf'[y].blockno = buf[y].blockno /\ buf'[y].valid = buf[y].valid
    BY <2>1, IdentityKept, ZenonT(60)
  <2>3. \A q \in Procs : (pc'[q] = pc[q] /\ b'[q] = b[q]) \/ (pc[q] = "unref" /\ pc'[q] = "idle")
    BY <1>5 DEF BrelseRef, At, Goto, TypeOK
  <2>4. data' = data /\ disk' = disk /\ req' = req /\ pinned' = pinned
    BY <1>5 DEF BrelseRef, diskVars
  <2> QED
    BY <2>2, <2>3, <2>4, QuietStep
<1>6. ASSUME UNCHANGED <<cacheVars, pc, b, diskVars>> PROVE Fresh'
  BY <1>6, QuietStep DEF cacheVars, diskVars
<1> QED
  BY <1>1, <1>2, <1>3, <1>4, <1>5, <1>6, StartFresh, EndFresh, ModifyFresh, LetGoFresh, DiskFresh, StepCases
     DEF vars, cacheVars, diskVars

-----------------------------------------------------------------------------
(* The theorems *)

Inv == Structure /\ Locked /\ NoLostWakeup /\ Fresh

\* The inductive invariant of the buffer cache: refcnt counts the users and pins of
\* a buffer, its lock shuts out all but one, and a block has one valid copy that is
\* never older than the disk's.
THEOREM CacheInvariant == Spec => []Inv
<1>1. Init => Inv
  <2> SUFFICES ASSUME Init PROVE Inv
    OBVIOUS
  <2>1. Structure
    BY InitStructure
  <2>2. Locked /\ NoLostWakeup
    BY DEF Init, SleepLockInit, SleepInit, Locked, NoLostWakeup, Awake, Owning
  <2>3. Fresh
    BY DEF Init, NoReq, Fresh, OneCopy, Current, Flags, Transfers, NewerKept
  <2> QED
    BY ZenonT(60), SMTT(60), <2>1, <2>2, <2>3 DEF Inv
<1>2. Inv /\ [Next]_vars => Inv'
  BY ZenonT(60), SMTT(60), NextStructure, NextLocked, NextFresh DEF Inv
<1> QED
  BY <1>1, <1>2, PTL DEF Spec

\* bread() returns a locked, valid buffer with the latest contents of its block,
\* the only buffer of the block, for every number of threads, buffers and blocks.
THEOREM BreadReturnsLatest == Spec => []ReadsLatest
<1>1. Inv => ReadsLatest
  <2> SUFFICES ASSUME TypeOK, Placed, Locked, Fresh PROVE ReadsLatest
    BY DEF Inv, Structure
  <2>1. ASSUME NEW p \in Procs, pc[p] = "use" PROVE data[b[p]] /\ buf[b[p]].valid /\ holder[b[p]] = p
    BY <2>1 DEF Placed, Locked, Fresh, Flags, Current, Busy, Owning
  <2>2. ASSUME NEW n \in Blocks PROVE Cardinality(Cached(n)) <= 1
    <3>1. CASE Cached(n) = {}
      BY <3>1, FS_EmptySet, SMTT(60)
    <3>2. CASE Cached(n) # {}
      <4>1. PICK x : x \in Cached(n)
        BY <3>2
      <4>2. \A y \in Cached(n) : y = x
        BY <4>1, CacheAssumption DEF Cached, Fresh, OneCopy
      <4>3. Cached(n) = {x}
        BY <4>1, <4>2
      <4>4. Cardinality({x}) = 1
        BY FS_Singleton, ZenonT(60)
      <4> QED
        BY <4>3, <4>4
    <3> QED
      BY <3>1, <3>2
  <2> QED
    BY ZenonT(60), SMTT(60), <2>1, <2>2 DEF ReadsLatest
<1> QED
  BY <1>1, CacheInvariant, PTL

\* A thread that sleeps in acquiresleep() on a buffer sleeps on a held lock.
THEOREM SleepersAreWoken == Spec => []NoLostWakeup
<1>1. Inv => NoLostWakeup
  BY DEF Inv
<1> QED
  BY <1>1, CacheInvariant, PTL

\* There is a buffer for every thread and every block the log may pin.
EnoughBuffers == Cardinality(Procs) + MaxPins <= Cardinality(Bufs)

Bounded == Cardinality(pinned) <= MaxPins /\ \A p \in Procs : pc[p] # "panic"

\* Then a thread outside of any buffer finds one to recycle: the other threads
\* and the pins account for fewer buffers than there are.
LEMMA BufferLeft ==
  ASSUME Structure, EnoughBuffers, Cardinality(pinned) <= MaxPins, NEW p \in Procs, b[p] = Nobody
  PROVE  Unused # {}
<1> USE CacheAssumption, UseAssumption
<1> DEFINE S == {q \in Procs : b[q] \in Bufs}
           T == {b[q] : q \in S}
           f == [q \in S |-> b[q]]
<1> SUFFICES ASSUME Unused = {} PROVE FALSE
  OBVIOUS
<1>1. S \in SUBSET (Procs \ {p}) /\ IsFiniteSet(Procs \ {p})
      /\ Cardinality(Procs \ {p}) = Cardinality(Procs) - 1
  BY FS_RemoveElement, ZenonT(60)
<1>2. IsFiniteSet(S) /\ Cardinality(S) <= Cardinality(Procs) - 1
  BY <1>1, FS_Subset, SMTT(60)
<1>3. f \in Surjection(S, T)
  BY DEF Surjection
<1>4. IsFiniteSet(T) /\ Cardinality(T) <= Cardinality(S)
  BY <1>2, <1>3, FS_Surjection
<1>5. pinned \in SUBSET Bufs /\ IsFiniteSet(pinned)
  BY FS_Subset DEF Structure, TypeOK
<1>6. Bufs \subseteq T \cup pinned
  <2> SUFFICES ASSUME NEW x \in Bufs, x \notin pinned PROVE x \in T
    OBVIOUS
  <2>1. buf[x].refcnt = Cardinality(Users(x)) /\ buf[x].refcnt # 0
    BY UsersFinite, SMTT(60) DEF Structure, Counted, Pin, Unused
  <2>2. PICK q \in Procs : b[q] = x
    BY <2>1, UsersFinite, ZenonT(60) DEF Users
  <2> QED
    BY <2>2
<1>7. /\ IsFiniteSet(T \cup pinned)
      /\ Cardinality(T \cup pinned) = Cardinality(T) + Cardinality(pinned) - Cardinality(T \cap pinned)
  BY <1>4, <1>5, FS_Union
<1>8. T \cap pinned \in SUBSET pinned
  OBVIOUS
<1>9. Cardinality(T \cap pinned) \in Nat
  BY <1>5, <1>8, FS_Subset, FS_CardinalityType
<1>10. Cardinality(Bufs) <= Cardinality(T \cup pinned)
  BY ZenonT(60), SMTT(60), <1>6, <1>7, FS_Subset
<1>11. /\ Cardinality(Bufs) \in Nat /\ Cardinality(T) \in Nat /\ Cardinality(pinned) \in Nat
       /\ Cardinality(Procs) \in Nat /\ Cardinality(S) \in Nat
  BY ZenonT(60), SMTT(60), <1>2, <1>4, <1>5, FS_CardinalityType
<1> HIDE DEF S, T, f
<1> QED
  BY <1>2, <1>4, <1>7, <1>9, <1>10, <1>11, SMTT(60) DEF EnoughBuffers

\* With a buffer for every thread and every pinned block, refcnt is exact and no
\* panic of bio.c is reached, "bget: no buffers" included.
THEOREM NoPanicWithEnoughBuffers == ASSUME EnoughBuffers PROVE Spec => []RefsCounted
<1> USE CacheAssumption, UseAssumption
<1>1. Init => Bounded
  BY FS_EmptySet, SMTT(60) DEF Init, Bounded
<1>2. Inv /\ Bounded /\ [Next]_vars => Bounded'
  <2> SUFFICES ASSUME Inv, Bounded, [Next]_vars PROVE Bounded'
    OBVIOUS
  <2>1. Structure /\ TypeOK /\ Placed /\ Locked
    BY DEF Inv, Structure
  <2>2. IsFiniteSet(pinned) /\ Cardinality(pinned) \in Nat
    BY <2>1, FS_Subset, FS_CardinalityType DEF TypeOK
  <2>3. ASSUME NEW p \in Procs, NEW n \in Blocks, BgetHit(p, n) \/ BgetMiss(p, n) PROVE Bounded'
    <3>1. b[p] = Nobody
      BY ZenonT(60), SMTT(60), <2>1, <2>3 DEF BgetHit, BgetMiss, At, Placed
    <3>2. Unused # {}
      BY ZenonT(60), SMTT(60), <2>1, <3>1, BufferLeft DEF Bounded
    <3> QED
      <4>1. pinned' = pinned
        BY <2>3 DEF BgetHit, BgetMiss
      <4>2. \E l : Goto(p, l) /\ l # "panic"
        <5>1. CASE BgetHit(p, n)
          BY <5>1, SMTT(60) DEF BgetHit
        <5>2. CASE BgetMiss(p, n)
          BY <3>2, <5>2, SMTT(60) DEF BgetMiss
        <5> QED
          BY ZenonT(60), SMTT(60), <2>3, <5>1, <5>2
      <4>3. \A q \in Procs : pc'[q] = "panic" => pc[q] = "panic"
        BY ZenonT(60), SMTT(60), <2>1, <4>2 DEF Goto, TypeOK
      <4> QED
        BY <4>1, <4>3 DEF Bounded
  <2>4. ASSUME NEW p \in Procs, Bpin(p) PROVE Bounded'
    <3>1. Cardinality(pinned') = Cardinality(pinned) + 1
      BY <2>2, <2>4, FS_AddElement, ZenonT(60) DEF Bpin
    <3> QED
      BY <2>2, <2>4, <3>1, SMTT(60) DEF Bounded, Bpin
  <2>5. ASSUME NEW p \in Procs, Bunpin(p) PROVE Bounded'
    <3>1. Cardinality(pinned') <= Cardinality(pinned) /\ Cardinality(pinned') \in Nat
      <4>1. PICK x : pinned' = pinned \ {x} /\ x \in pinned
        BY <2>5 DEF Bunpin
      <4>2. IsFiniteSet(pinned \ {x}) /\ Cardinality(pinned \ {x}) = Cardinality(pinned) - 1
        BY ZenonT(60), SMTT(60), <2>2, <4>1, FS_RemoveElement
      <4>3. Cardinality(pinned \ {x}) \in Nat
        BY ZenonT(60), SMTT(60), <4>2, FS_CardinalityType
      <4> QED
        BY <2>2, <4>1, <4>2, <4>3, SMTT(60)
    <3> QED
      BY <2>2, <2>5, <3>1, SMTT(60) DEF Bounded, Bunpin
  <2>6. ASSUME NEW p \in Procs, StartWrite(p) \/ Brelse(p) PROVE Bounded'
    <3>1. Holdingsleep(p, b[p])
      BY <2>1, <2>6, ZenonT(60) DEF StartWrite, Brelse, At, Locked, Holdingsleep, Owning
    <3> QED
      BY <2>1, <2>6, <3>1, ZenonT(60) DEF Bounded, StartWrite, Brelse, Goto, cacheVars, TypeOK
  <2>7. ASSUME NEW p \in Procs,
               \/ Lock(p) \/ StartRead(p) \/ EndRead(p) \/ EndWrite(p) \/ Modify(p) \/ BrelseRef(p)
               \/ DiskStep(p)
        PROVE  Bounded'
    BY <2>1, <2>7, ZenonT(60) DEF Bounded, Lock, StartRead, EndRead, EndWrite, Modify, BrelseRef, DiskStep, Goto,
                      cacheVars, TypeOK
  <2>8. ASSUME UNCHANGED <<cacheVars, pc>> PROVE Bounded'
    BY <2>8 DEF Bounded, cacheVars
  <2> QED
    BY <2>3, <2>4, <2>5, <2>6, <2>7, <2>8, StepCases DEF vars, cacheVars
<1>3. Inv /\ Bounded => RefsCounted
  BY DEF Inv, Structure, Counted, Pin, Bounded, RefsCounted
<1> QED
  BY <1>1, <1>2, <1>3, CacheInvariant, PTL DEF Spec
=============================================================================
