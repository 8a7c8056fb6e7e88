---------------------------- MODULE BlockDevice ----------------------------
(***************************************************************************)
(* What virtio_disk_rw() promises its caller: the whole block moves in one *)
(* step, at some time between the call and the return, and each call moves *)
(* it once.                                                                *)
(***************************************************************************)
CONSTANTS Procs, Bufs, Blocks, Contents, Nobody

VARIABLES
  req,    \* the call each thread is in
  disk,   \* the contents of the blocks
  data    \* the contents of the buffers

NoReq == [st |-> "none", b |-> Nobody, n |-> Nobody, write |-> FALSE]

DeviceInit ==
  /\ req = [p \in Procs |-> NoReq]
  /\ disk \in [Blocks -> Contents]
  /\ data \in [Bufs -> Contents]

Request(p, b, n, write) ==
  /\ req[p] = NoReq
  /\ req' = [req EXCEPT ![p] = [st |-> "queued", b |-> b, n |-> n, write |-> write]]
  /\ UNCHANGED <<disk, data>>

\* The transfer, which reads one side and overwrites the other.
Perform(p) ==
  LET r == req[p] IN
  /\ r.st = "queued"
  /\ req' = [req EXCEPT ![p].st = "done"]
  /\ IF r.write THEN disk' = [disk EXCEPT ![r.n] = data[r.b]] /\ UNCHANGED data
                ELSE data' = [data EXCEPT ![r.b] = disk[r.n]] /\ UNCHANGED disk

Return(p) ==
  /\ req[p].st = "done"
  /\ req' = [req EXCEPT ![p] = NoReq]
  /\ UNCHANGED <<disk, data>>

\* The owner of a buffer changes it while no transfer uses it.
Change(b, v) ==
  /\ \A p \in Procs : req[p].b # b
  /\ data' = [data EXCEPT ![b] = v]
  /\ UNCHANGED <<req, disk>>

DeviceNext ==
  \/ \E p \in Procs : Perform(p) \/ Return(p)
  \/ \E p \in Procs : /\ req[p] = NoReq
                      /\ \E b \in Bufs, n \in Blocks, w \in BOOLEAN : Request(p, b, n, w)
  \/ /\ data' # data
     /\ \E b \in Bufs, v \in Contents : Change(b, v)

DeviceSpec == DeviceInit /\ [][DeviceNext]_<<req, disk, data>>
=============================================================================
