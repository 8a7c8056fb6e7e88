---------------------------- MODULE VirtioDisk ----------------------------
(***************************************************************************)
(* The disk driver, kernel/virtio_disk.c, and the virtio block device it   *)
(* talks to (external, modelled from what the driver relies on).           *)
(*                                                                         *)
(* A request is a chain of three descriptors: the command, the data buffer *)
(* and the status byte.  The driver puts the head of the chain on the      *)
(* avail ring; the device serves the requests it has seen in any order,    *)
(* puts the head on the used ring and raises an interrupt.  What a step of *)
(* the driver does between taking and releasing vdisk_lock is atomic,      *)
(* except that the device runs between the iterations of the handler.      *)
(*                                                                         *)
(* A thread calls virtio_disk_rw() on a buffer it has locked, so the       *)
(* buffer is named after the thread.  What no one reads any more (a ring   *)
(* entry that was consumed, the header and the status of a request that is *)
(* over) goes back to its initial value instead of lingering.              *)
(***************************************************************************)
EXTENDS Integers, FiniteSets, FiniteSetsExt, Sleep

CONSTANTS
  NUM,      \* descriptors
  IdxMod,   \* ring indices count modulo this (2^16 in the code)
  Blocks,   \* disk blocks
  Contents  \* what a block may hold

ASSUME RingAssumption == NUM \in Nat \ {0} /\ IdxMod \in Nat \ {0} /\ IdxMod % NUM = 0

VARIABLES
  free,      \* the free descriptors
  desc,      \* the descriptors
  ops,       \* the command headers, indexed by the head of the chain
  info,      \* the book-keeping of the driver, indexed likewise
  avail,     \* the ring of the driver
  used,      \* the ring of the device
  used_idx,  \* how far the driver has looked into used
  intr,      \* whether virtio_disk_intr() runs, holding vdisk_lock
  device,    \* the device: what it has seen, what it serves, its interrupt line
  disk,      \* the contents of the blocks
  data,      \* b->data
  onDisk,    \* b->disk: the device owns the buffer
  pc,        \* where each thread is in virtio_disk_rw()
  call,      \* its arguments
  idx0       \* its local idx[0]

queue == <<free, desc, ops, info, avail, used_idx, onDisk, idx0>>
io == <<used, device, disk, data>>
vars == <<free, desc, ops, info, avail, used, used_idx, intr, device, disk, data,
          onDisk, pc, call, idx0, chan>>

Desc == 0 .. NUM - 1
FreeDesc == [addr |-> <<"none">>, next |-> -1]   \* next = -1: flag F_NEXT not set
NoInfo == [b |-> Nobody, status |-> 0]
freechan == <<"disk.free">>                      \* the channel &disk.free[0]
NoCall == [n |-> Nobody, write |-> FALSE]

\* Buffers, the channel of free descriptors and Nobody are different addresses.
ASSUME ChannelAssumption == Nobody \notin Procs /\ freechan \notin Procs \cup {Nobody}

Init ==
  /\ SleepInit
  /\ free = Desc
  /\ desc = [i \in Desc |-> FreeDesc]
  /\ ops = [i \in Desc |-> NoCall]
  /\ info = [i \in Desc |-> NoInfo]
  /\ avail = [ring |-> [i \in Desc |-> 0], idx |-> 0]
  /\ used = [ring |-> [i \in Desc |-> 0], idx |-> 0]
  /\ used_idx = 0
  /\ intr = FALSE
  /\ device = [seen |-> 0, busy |-> {}, irq |-> FALSE]
  /\ disk \in [Blocks -> Contents]
  /\ data \in [Procs -> Contents]
  /\ onDisk = [p \in Procs |-> FALSE]
  /\ pc = [p \in Procs |-> "out"]
  /\ call = [p \in Procs |-> NoCall]
  /\ idx0 = [p \in Procs |-> 0]

-----------------------------------------------------------------------------
(* The driver *)

vdisk_lock_free == ~intr

\* A request is three descriptors, linked through next.
NextDesc(i) == desc[i].next

\* Seeded fault: free_chain() stops before the last descriptor.
ChainShort(i) == {i, NextDesc(i)}

\* The descriptors free_chain(i) walks.
Chain(i) == {i, NextDesc(i), NextDesc(NextDesc(i))} \ {-1}

At(p, l) == pc[p] = l /\ Awake(p)
Goto(p, l) == pc' = [pc EXCEPT ![p] = l]

\* The caller fills its buffer between two calls.
Store(p, v) ==
  /\ At(p, "out")
  /\ data' = [data EXCEPT ![p] = v]
  /\ UNCHANGED <<queue, used, device, disk, intr, pc, call, chan>>

\* virtio_disk_rw(b, write) with c = [n |-> b->blockno, write |-> write]: at its
\* entry, and at the top of the loop around alloc3_desc().
Allocating(p, c) ==
  /\ \/ At(p, "out") /\ c \in [n : Blocks, write : BOOLEAN]
     \/ At(p, "alloc") /\ c = call[p]
  /\ vdisk_lock_free
  /\ call' = [call EXCEPT ![p] = c]

\* With three descriptors free the request is formatted and announced, and p
\* sleeps until b->disk is cleared.
Submit(p, c) ==
  LET i0 == Min(free)  i1 == Min(free \ {i0})  i2 == Min(free \ {i0, i1}) IN
  /\ Allocating(p, c) /\ Cardinality(free) >= 3
  /\ free' = free \ {i0, i1, i2}
  /\ desc' = [desc EXCEPT ![i0] = [addr |-> <<"op", i0>>, next |-> i1],
                          ![i1] = [addr |-> <<"data", p>>, next |-> i2],
                          ![i2] = [addr |-> <<"status", i0>>, next |-> -1]]
  /\ ops' = [ops EXCEPT ![i0] = c]
  /\ info' = [info EXCEPT ![i0] = [b |-> p, status |-> 255]]
  /\ onDisk' = [onDisk EXCEPT ![p] = TRUE]
  /\ avail' = [ring |-> [avail.ring EXCEPT ![avail.idx % NUM] = i0],
               idx |-> (avail.idx + 1) % IdxMod]
  /\ idx0' = [idx0 EXCEPT ![p] = i0]
  /\ Sleep(p, p)
  /\ Goto(p, "wait")
  /\ UNCHANGED <<used_idx, io, intr>>

\* alloc3_desc() fails: the descriptors it took go back, with a wakeup() of the
\* other waiters for each, and p sleeps.
LackDesc(p, c) ==
  /\ Allocating(p, c) /\ Cardinality(free) < 3
  /\ chan' = [IF free = {} THEN chan ELSE Woken(freechan) EXCEPT ![p] = freechan]
  /\ Goto(p, "alloc")
  /\ UNCHANGED <<queue, io, intr>>

\* Woken before the device is done with the buffer.
WaitAgain(p) ==
  /\ At(p, "wait") /\ vdisk_lock_free /\ onDisk[p]
  /\ Sleep(p, p)
  /\ UNCHANGED <<queue, io, intr, pc, call>>

\* Seeded fault: sleep() in an if instead of the loop on b->disk.
DoneOnceWoken(p) == TRUE

Done(p) == ~onDisk[p]

\* The next completed request for the handler to look at.
UsedHead == used.ring[used_idx % NUM]

\* The panics of free_desc() and virtio_disk_intr().
FreeTwice(p) == Chain(idx0[p]) \cap free # {}
BadStatus == info[UsedHead].status # 0

\* The rest of virtio_disk_rw(): free_chain().
Finish(p) ==
  LET i == idx0[p] IN
  /\ At(p, "wait") /\ vdisk_lock_free /\ Done(p)
  /\ info' = [info EXCEPT ![i] = NoInfo]
  /\ ops' = [ops EXCEPT ![i] = NoCall]
  /\ desc' = [j \in Desc |-> IF j \in Chain(i) THEN FreeDesc ELSE desc[j]]
  /\ free' = free \cup Chain(i)
  /\ idx0' = [idx0 EXCEPT ![p] = 0]
  /\ call' = [call EXCEPT ![p] = NoCall]
  /\ Wakeup(freechan)
  /\ Goto(p, "out")
  /\ UNCHANGED <<avail, used_idx, onDisk, io, intr>>

\* virtio_disk_intr() takes the lock and acknowledges the interrupt.
IntrAck ==
  /\ device.irq /\ vdisk_lock_free
  /\ intr' = TRUE
  /\ device' = [device EXCEPT !.irq = FALSE]
  /\ UNCHANGED <<chan, queue, used, disk, data, pc, call>>

\* Seeded fault: the handler returns without a second look at the used ring.
IntrNextOnce ==
  /\ intr /\ used_idx # used.idx
  /\ LET p == info[UsedHead].b IN
     /\ onDisk' = [onDisk EXCEPT ![p] = FALSE]
     /\ Wakeup(p)
  /\ used_idx' = (used_idx + 1) % IdxMod
  /\ used' = [used EXCEPT !.ring[used_idx % NUM] = 0]
  /\ intr' = FALSE
  /\ UNCHANGED <<free, desc, ops, info, avail, idx0, device, disk, data, pc, call>>

\* One iteration of its loop: the buffer of the next used entry is done.
IntrNext ==
  /\ intr /\ used_idx # used.idx
  /\ LET p == info[UsedHead].b IN
     /\ onDisk' = [onDisk EXCEPT ![p] = FALSE]
     /\ Wakeup(p)
  /\ used_idx' = (used_idx + 1) % IdxMod
  /\ used' = [used EXCEPT !.ring[used_idx % NUM] = 0]
  /\ UNCHANGED <<free, desc, ops, info, avail, idx0, intr, device, disk, data, pc, call>>

IntrEnd ==
  /\ intr /\ used_idx = used.idx
  /\ intr' = FALSE
  /\ UNCHANGED <<chan, queue, io, pc, call>>

-----------------------------------------------------------------------------
(* The device *)

\* It fetches the next entry of the avail ring.
DevFetch ==
  /\ device.seen # avail.idx
  /\ device' = [device EXCEPT !.seen = (@ + 1) % IdxMod,
                              !.busy = @ \cup {avail.ring[device.seen % NUM]}]
  /\ avail' = [avail EXCEPT !.ring[device.seen % NUM] = 0]
  /\ UNCHANGED <<chan, free, desc, ops, info, used_idx, onDisk, idx0, used,
                 disk, data, intr, pc, call>>

\* It serves a request it has fetched: it follows the chain to the data and the
\* status byte, moves the data, and announces the head on the used ring.
DevServe(i) ==
  LET b == desc[NextDesc(i)].addr[2]
      st == desc[NextDesc(NextDesc(i))].addr[2]
      n == ops[i].n IN
  /\ i \in device.busy
  /\ IF ops[i].write
     THEN disk' = [disk EXCEPT ![n] = data[b]] /\ UNCHANGED data
     ELSE data' = [data EXCEPT ![b] = disk[n]] /\ UNCHANGED disk
  /\ info' = [info EXCEPT ![st].status = 0]
  /\ used' = [ring |-> [used.ring EXCEPT ![used.idx % NUM] = i],
              idx |-> (used.idx + 1) % IdxMod]
  /\ device' = [device EXCEPT !.busy = @ \ {i}, !.irq = TRUE]
  /\ UNCHANGED <<chan, free, desc, ops, avail, used_idx, onDisk, idx0, intr, pc, call>>

-----------------------------------------------------------------------------
Call(p) ==
  \/ \E v \in Contents : Store(p, v)
  \/ \E c \in [n : Blocks, write : BOOLEAN] \cup {call[p]} : Submit(p, c) \/ LackDesc(p, c)
  \/ WaitAgain(p) \/ Finish(p)

IntrStep == IntrAck \/ IntrNext \/ IntrEnd

Next ==
  \/ \E p \in Procs : Call(p)
  \/ \E p \in Procs : Kicked(p) /\ UNCHANGED <<queue, io, intr, pc, call>>
  \/ IntrStep
  \/ DevFetch
  \/ \E i \in Desc : DevServe(i)

Spec == Init /\ [][Next]_vars

-----------------------------------------------------------------------------
NoPanic ==
  /\ intr /\ used_idx # used.idx => ~BadStatus
  /\ \A p \in Procs : pc[p] = "wait" => ~FreeTwice(p)

\* Every descriptor is free or in the chain of exactly one request, and what the
\* device serves are requests whose threads still wait; so no panic of
\* virtio_disk.c is reached: a completed request reports success, and no
\* descriptor is freed twice.
DescriptorsOwned ==
  LET Waiting == {p \in Procs : pc[p] = "wait"} IN
  /\ NoPanic
  /\ Desc = free \cup UNION {Chain(idx0[p]) : p \in Waiting}
  /\ \A p, q \in Waiting : p # q => Chain(idx0[p]) \cap Chain(idx0[q]) = {}
  /\ device.busy \subseteq {idx0[p] : p \in {q \in Waiting : onDisk[q]}}

\* No wakeup and no interrupt is lost: a thread that waits for descriptors waits
\* while fewer than three are free, one that waits for its buffer has a request
\* in flight, and a used entry nobody has looked at has an interrupt to come.
NoLostWakeup ==
  /\ \A p \in Procs : chan[p] = freechan => Cardinality(free) < 3
  /\ \A p \in Procs : chan[p] = p => onDisk[p]
  /\ used_idx # used.idx => intr \/ device.irq

RequestOf(p) ==
  [st |-> CASE pc[p] = "out" -> "none"
            [] pc[p] = "wait" /\ info[idx0[p]].status = 0 -> "done"
            [] OTHER -> "queued",
   b |-> IF pc[p] = "out" THEN Nobody ELSE p,
   n |-> call[p].n, write |-> call[p].write]

Device == INSTANCE BlockDevice WITH Bufs <- Procs, req <- [p \in Procs |-> RequestOf(p)]

\* virtio_disk_rw() implements BlockDevice: whatever the order of completion,
\* each call moves its own block once, between its call and its return.
ImplementsDevice == Device!DeviceSpec
=============================================================================
