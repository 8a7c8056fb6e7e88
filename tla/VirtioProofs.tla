---------------------------- MODULE VirtioProofs ----------------------------
(***************************************************************************)
(* Theorems about VirtioDisk, for any number of threads, any queue size    *)
(* and any order in which the device serves the requests: descriptors are  *)
(* owned by one request each, no panic of virtio_disk.c is reached, no     *)
(* wakeup and no interrupt is lost, and virtio_disk_rw() implements        *)
(* BlockDevice.  The invariant is that of VirtioDriver.                    *)
(***************************************************************************)
EXTENDS VirtioDriver

USE ZenonT(10), SMTT(60)

-----------------------------------------------------------------------------
(* The interrupt handler and the device *)

\* The handler starts: it holds vdisk_lock, so what the interrupt announced is
\* still to be looked at by it.
LEMMA IntrAckInv ==
  ASSUME Inv, IntrAck
  PROVE  Inv' /\ Waiting' = Waiting
<1>0. TypeOK /\ ChanOK /\ Linked /\ InFlight /\ Channels /\ NoLostWakeup
  BY DEF Inv
<1>1. /\ UNCHANGED <<chan, free, desc, ops, info, avail, used_idx, onDisk, idx0, used, disk,
                     data, pc, call>>
      /\ intr' = TRUE
  BY DEF IntrAck, queue
<1>2. /\ device' \in [seen : 0 .. IdxMod - 1, busy : SUBSET Desc, irq : BOOLEAN]
      /\ device'.seen = device.seen /\ device'.busy = device.busy
  BY <1>0, AckFacts
<1>3. Waiting' = Waiting
  BY <1>1 DEF Waiting
<1>4. TypeOK' /\ ChanOK' /\ Channels'
  BY <1>0, <1>1, <1>2 DEF TypeOK, ChanOK, Channels
<1>5. Linked'
  <2>1. \A q \in Procs : \/ (pc'[q] = "out" /\ call'[q] = NoCall)
                         \/ (pc'[q] # "out" /\ call'[q] \in Calls)
    BY <1>0, <1>1 DEF Linked
  <2> QED
    BY <1>0, <1>1, <1>3, <2>1, SameLinked
<1>6. InFlight'
  BY <1>0, <1>1, <1>2, <1>3, SameFlight
<1>7. NoLostWakeup'
  BY <1>0, <1>1 DEF NoLostWakeup
<1> QED
  BY <1>3, <1>4, <1>5, <1>6, <1>7 DEF Inv

\* The handler ends only when it has looked at every used entry.
LEMMA IntrEndInv ==
  ASSUME Inv, IntrEnd
  PROVE  Inv' /\ Waiting' = Waiting
<1>0. TypeOK /\ ChanOK /\ Linked /\ InFlight /\ Channels /\ NoLostWakeup
  BY DEF Inv
<1>1. /\ UNCHANGED <<chan, free, desc, ops, info, avail, used_idx, onDisk, idx0, used, device,
                     disk, data, pc, call>>
      /\ intr' = FALSE /\ used_idx = used.idx
  BY DEF IntrEnd, queue, io
<1>2. Waiting' = Waiting
  BY <1>1 DEF Waiting
<1>3. TypeOK' /\ ChanOK' /\ Channels'
  BY <1>0, <1>1, ZenonT(60) DEF TypeOK, ChanOK, Channels
<1>4. Linked'
  <2>1. \A q \in Procs : \/ (pc'[q] = "out" /\ call'[q] = NoCall)
                         \/ (pc'[q] # "out" /\ call'[q] \in Calls)
    BY <1>0, <1>1 DEF Linked
  <2> QED
    BY <1>0, <1>1, <1>2, <2>1, SameLinked
<1>5. InFlight'
  BY <1>0, <1>1, <1>2, SameFlight
<1>6. NoLostWakeup'
  BY <1>0, <1>1 DEF NoLostWakeup
<1> QED
  BY <1>2, <1>3, <1>4, <1>5, <1>6 DEF Inv

\* The used entry the handler looks at is that of a thread that waits, whose
\* request the device has completed.
LEMMA UsedOwner ==
  ASSUME TypeOK, Linked, InFlight, used_idx # used.idx
  PROVE  /\ UsedHead \in Used
         /\ \E p \in Waiting : /\ idx0[p] = UsedHead /\ onDisk[p]
                               /\ info[UsedHead].status = 0 /\ info[UsedHead].b = p
<1>1. used.ring \in [Desc -> Desc] /\ used.idx \in 0 .. IdxMod - 1 /\ used_idx \in 0 .. IdxMod - 1
  BY Fields
<1>2. Sound(used.ring, used_idx, used.idx)
  BY DEF InFlight
<1>3. UsedHead \in Used
  BY <1>1, <1>2, RingGet DEF UsedHead, Used
<1>4. PICK p \in Waiting : idx0[p] = UsedHead /\ onDisk[p] /\ info[UsedHead].status = 0
  BY <1>3 DEF InFlight, Owned
<1>5. info[UsedHead].b = p
  BY <1>4 DEF Linked, LinkedTo
<1> QED
  BY <1>3, <1>4, <1>5

\* The handler completes one request: its head leaves the used ring, and the
\* thread that waits for it is woken.
LEMMA IntrNextInv ==
  ASSUME Inv, IntrNext
  PROVE  Inv' /\ Waiting' = Waiting
<1>0. TypeOK /\ ChanOK /\ Linked /\ InFlight /\ Channels /\ NoLostWakeup
  BY DEF Inv
<1>1. /\ intr /\ used_idx # used.idx
      /\ UNCHANGED <<free, desc, ops, info, avail, idx0, intr, device, disk, data, pc, call>>
  BY DEF IntrNext
<1>2. PICK p \in Waiting : /\ idx0[p] = UsedHead /\ onDisk[p]
                           /\ info[UsedHead].status = 0 /\ info[UsedHead].b = p
  BY <1>0, <1>1, UsedOwner
<1>3. onDisk' = [onDisk EXCEPT ![p] = FALSE] /\ chan' = Woken(p) /\ p \in Procs
  BY <1>2 DEF IntrNext, Wakeup, Waiting
<1>4. used.ring \in [Desc -> Desc] /\ used.idx \in 0 .. IdxMod - 1 /\ used_idx \in 0 .. IdxMod - 1
  BY <1>0, Fields
<1>5. /\ used'.ring = Take(used.ring, used_idx) /\ used'.idx = used.idx
      /\ used' = [ring |-> used'.ring, idx |-> used'.idx]
      /\ used_idx' = Succ(used_idx)
  BY <1>0, IntrNextFacts
<1>6. Sound(used.ring, used_idx, used.idx)
  BY <1>0 DEF InFlight
<1>7. /\ used'.ring \in [Desc -> Desc] /\ used_idx' \in 0 .. IdxMod - 1
      /\ Sound(used'.ring, used_idx', used.idx)
      /\ Entries(used'.ring, used_idx', used.idx) = Entries(used.ring, used_idx, used.idx) \ {UsedHead}
  BY <1>1, <1>4, <1>5, <1>6, RingGet, SMTT(60) DEF UsedHead
<1>8. Waiting' = Waiting
  BY <1>1 DEF Waiting
<1>9. TypeOK'
  <2>1. used' \in Rings
    BY <1>4, <1>5, <1>7 DEF Rings
  <2>2. onDisk' \in [Procs -> BOOLEAN]
    BY <1>0, <1>3 DEF TypeOK
  <2> QED
    BY <1>0, <1>1, <1>7, <2>1, <2>2 DEF TypeOK
<1>10. Linked'
  <2>1. \A q \in Procs : \/ (pc'[q] = "out" /\ call'[q] = NoCall)
                         \/ (pc'[q] # "out" /\ call'[q] \in Calls)
    BY <1>0, <1>1 DEF Linked
  <2> QED
    BY <1>0, <1>1, <1>8, <2>1, SameLinked
<1>11. InFlight'
  <2>1. Posted' = Posted /\ Used' = Used \ {UsedHead} /\ device' = device
    BY <1>1, <1>5, <1>7 DEF Posted, Used
  <2>2. \A q \in Waiting : q \in Procs
    BY DEF Waiting
  <2>3. ASSUME NEW h, NEW st, h # UsedHead, Owned(h, st) PROVE Owned(h, st)'
    <3>1. PICK q \in Waiting : idx0[q] = h /\ onDisk[q] /\ info[h].status = st
      BY <2>3 DEF Owned
    <3>2. onDisk'[q]
      BY <1>0, <1>2, <1>3, <2>2, <2>3, <3>1 DEF TypeOK
    <3> QED
      BY <1>1, <1>8, <3>1, <3>2 DEF Owned
  <2>4. \A h \in Posted \cup device.busy : h # UsedHead
    BY <1>0, <1>2, FlightHeads, SMTT(60)
  <2>5. \A h \in Posted' : h \notin device'.busy /\ Owned(h, 255)'
    BY ZenonT(60), SMTT(60), <1>0, <2>1, <2>3, <2>4 DEF InFlight
  <2>6. \A h \in device'.busy : Owned(h, 255)'
    BY ZenonT(60), SMTT(60), <1>0, <2>1, <2>3, <2>4 DEF InFlight
  <2>7. \A h \in Used' : Owned(h, 0)'
    BY <1>0, <2>1, <2>3 DEF InFlight
  <2>8. ASSUME NEW q \in Waiting', ~onDisk'[q] PROVE info'[idx0'[q]].status = 0
    <3>1. q \in Waiting /\ q \in Procs /\ (q = p \/ ~onDisk[q])
      BY <1>0, <1>3, <1>8, <2>2, <2>8 DEF TypeOK
    <3> QED
      BY ZenonT(60), SMTT(60), <1>0, <1>1, <1>2, <3>1 DEF InFlight
  <2>9. Sound(avail.ring, device.seen, avail.idx)' /\ Sound(used.ring, used_idx, used.idx)'
    BY <1>0, <1>1, <1>5, <1>7 DEF InFlight
  <2> QED
    BY <2>5, <2>6, <2>7, <2>8, <2>9 DEF InFlight
<1>12. /\ ChanOK' /\ \A q \in Procs : chan'[q] = chan[q] \/ chan'[q] = Nobody
       /\ \A q \in Procs : chan'[q] # p
  <2>1. /\ Woken(p) \in [Procs -> Procs \cup {Nobody, freechan}]
        /\ \A q \in Procs : Woken(p)[q] = chan[q] \/ Woken(p)[q] = Nobody
        /\ \A q \in Procs : Woken(p)[q] = p => p = Nobody
    BY <1>0, WokenOK, ZenonT(60)
  <2>2. p # Nobody
    BY <1>3, ChannelAssumption
  <2> QED
    BY <1>3, <2>1, <2>2 DEF ChanOK
<1>13. Channels'
  BY <1>0, <1>12 DEF Channels
<1>14. NoLostWakeup'
  <2>1. ASSUME NEW q \in Procs, chan'[q] = q PROVE onDisk'[q]
    <3>1. q # p /\ chan[q] = q
      BY <1>12, <2>1, ChannelAssumption
    <3> QED
      BY <1>0, <1>3, <3>1 DEF NoLostWakeup, TypeOK
  <2>2. \A q \in Procs : chan'[q] = freechan => chan[q] = freechan
    BY <1>12, ChannelAssumption
  <2> QED
    BY <1>0, <1>1, <2>1, <2>2 DEF NoLostWakeup
<1> QED
  BY <1>8, <1>9, <1>10, <1>11, <1>12, <1>13, <1>14 DEF Inv

\* The device fetches a request: its head moves from the avail ring into the device.
LEMMA DevFetchInv ==
  ASSUME Inv, DevFetch
  PROVE  Inv' /\ Waiting' = Waiting
<1>0. TypeOK /\ ChanOK /\ Linked /\ InFlight /\ Channels /\ NoLostWakeup
  BY DEF Inv
<1>1. /\ device.seen # avail.idx
      /\ UNCHANGED <<chan, free, desc, ops, info, used_idx, onDisk, idx0, used, disk, data,
                     intr, pc, call>>
  BY DEF DevFetch
<1>2. PICK h0 : h0 = avail.ring[device.seen % NUM]
  OBVIOUS
<1>3. /\ avail'.ring = Take(avail.ring, device.seen) /\ avail'.idx = avail.idx
      /\ device'.seen = Succ(device.seen)
      /\ device'.busy = device.busy \cup {h0} /\ device'.irq = device.irq
      /\ avail' = [ring |-> avail'.ring, idx |-> avail'.idx]
      /\ device' = [seen |-> device'.seen, busy |-> device'.busy, irq |-> device'.irq]
  BY <1>0, <1>2, FetchFacts, ZenonT(60)
<1>4. /\ avail.ring \in [Desc -> Desc] /\ avail.idx \in 0 .. IdxMod - 1
      /\ device.seen \in 0 .. IdxMod - 1 /\ device.busy \subseteq Desc /\ device.irq \in BOOLEAN
  BY <1>0, Fields
<1>5. Sound(avail.ring, device.seen, avail.idx)
  BY <1>0 DEF InFlight
<1>6. /\ avail'.ring \in [Desc -> Desc] /\ device'.seen \in 0 .. IdxMod - 1
      /\ h0 \in Entries(avail.ring, device.seen, avail.idx)
      /\ Sound(avail'.ring, device'.seen, avail.idx)
      /\ Entries(avail'.ring, device'.seen, avail.idx)
           = Entries(avail.ring, device.seen, avail.idx) \ {h0}
  <2>1. avail'.ring = Take(avail.ring, device.seen) /\ device'.seen = Succ(device.seen)
    BY <1>3, ZenonT(60)
  <2> QED
    BY <1>1, <1>2, <1>4, <1>5, <2>1, RingGet, SMTT(60)
<1>7. h0 \in Posted /\ Posted' = Posted \ {h0} /\ Used' = Used
  BY <1>1, <1>3, <1>6 DEF Posted, Used
<1>8. Waiting' = Waiting
  BY <1>1 DEF Waiting
<1>9. TypeOK' /\ ChanOK' /\ Channels'
  <2>1. h0 \in Desc
    BY <1>0, <1>7, FlightHeads, ZenonT(60)
  <2>2. avail' \in Rings
    BY <1>3, <1>4, <1>6 DEF Rings
  <2>3. device' \in [seen : 0 .. IdxMod - 1, busy : SUBSET Desc, irq : BOOLEAN]
    BY <1>3, <1>4, <1>6, <2>1
  <2> QED
    BY <1>0, <1>1, <2>2, <2>3 DEF TypeOK, ChanOK, Channels
<1>10. Linked'
  <2>1. \A q \in Procs : \/ (pc'[q] = "out" /\ call'[q] = NoCall)
                         \/ (pc'[q] # "out" /\ call'[q] \in Calls)
    BY <1>0, <1>1 DEF Linked
  <2> QED
    BY <1>0, <1>1, <1>8, <2>1, SameLinked
<1>11. InFlight'
  <2>1. \A h, st : Owned(h, st) => Owned(h, st)'
    BY <1>1, <1>8 DEF Owned
  <2>2. \A h \in Posted' : h \notin device'.busy /\ Owned(h, 255)'
    BY <1>0, <1>3, <1>7, <2>1, SMTT(60) DEF InFlight
  <2>3. \A h \in device'.busy : Owned(h, 255)'
    BY <1>0, <1>3, <1>7, <2>1, SMTT(60) DEF InFlight
  <2>4. \A h \in Used' : Owned(h, 0)'
    BY <1>0, <1>7, <2>1 DEF InFlight
  <2>5. \A q \in Waiting' : ~onDisk'[q] => info'[idx0'[q]].status = 0
    BY <1>0, <1>1, <1>8 DEF InFlight
  <2>6. Sound(avail.ring, device.seen, avail.idx)' /\ Sound(used.ring, used_idx, used.idx)'
    BY <1>0, <1>1, <1>3, <1>6 DEF InFlight
  <2> QED
    BY <2>2, <2>3, <2>4, <2>5, <2>6 DEF InFlight
<1>12. NoLostWakeup'
  BY <1>0, <1>1, <1>3 DEF NoLostWakeup
<1> QED
  BY <1>8, <1>9, <1>10, <1>11, <1>12 DEF Inv

\* The device completes a request: its head moves to the used ring, which has
\* room, since the other two descriptors of its chain are no heads.
LEMMA DevServeInv ==
  ASSUME Inv, NEW i \in Desc, DevServe(i)
  PROVE  Inv' /\ Waiting' = Waiting
<1>0. TypeOK /\ ChanOK /\ Linked /\ InFlight /\ Channels /\ NoLostWakeup
  BY DEF Inv
<1>1. /\ i \in device.busy
      /\ UNCHANGED <<chan, free, desc, ops, avail, used_idx, onDisk, idx0, intr, pc, call>>
  BY DEF DevServe
<1>2. PICK p \in Waiting :
        /\ idx0[p] = i /\ onDisk[p] /\ info[i].status = 255 /\ info[i].b = p
        /\ call[p] \in Calls
        /\ IF call[p].write
           THEN disk' = [disk EXCEPT ![call[p].n] = data[p]] /\ data' = data
           ELSE data' = [data EXCEPT ![p] = disk[call[p].n]] /\ disk' = disk
        /\ info' = [info EXCEPT ![i] = [b |-> p, status |-> 0]]
        /\ used'.ring = Put(used.ring, used.idx, i) /\ used'.idx = Succ(used.idx)
        /\ used' = [ring |-> used'.ring, idx |-> used'.idx]
        /\ device' = [seen |-> device.seen, busy |-> device.busy \ {i}, irq |-> TRUE]
  BY <1>0, ServeFacts
<1>3. /\ p \in Procs /\ p \in Waiting /\ LinkedTo(p)
      /\ idx0[p] = i /\ onDisk[p] /\ info[i].status = 255 /\ info[i].b = p
  BY <1>0, <1>2 DEF Waiting, Linked
<1>4. /\ used.ring \in [Desc -> Desc] /\ used.idx \in 0 .. IdxMod - 1 /\ used_idx \in 0 .. IdxMod - 1
      /\ device.seen \in 0 .. IdxMod - 1 /\ device.busy \subseteq Desc
  BY <1>0, Fields
<1>5. Sound(used.ring, used_idx, used.idx)
  BY <1>0 DEF InFlight
<1>6. /\ \A q \in Waiting : q \in Procs /\ idx0[q] \in Desc
      /\ \A q1, q2 \in Waiting : idx0[q1] = idx0[q2] => q1 = q2
  BY <1>0, Heads
<1>7. Entries(used.ring, used_idx, used.idx) \cap {i, Mid(p), Last(p)} = {}
  <2> SUFFICES ASSUME NEW h \in Used PROVE h \notin {i, Mid(p), Last(p)}
    BY DEF Used
  <2>1. PICK q \in Waiting : idx0[q] = h /\ info[h].status = 0
    BY <1>0, SMTT(60) DEF InFlight, Owned
  <2>2. q # p
    BY <1>3, <2>1
  <2>3. {idx0[q], Mid(q), Last(q)} \cap {idx0[p], Mid(p), Last(p)} = {}
    BY <1>0, <1>3, <2>1, <2>2, SMTT(60) DEF Linked
  <2> QED
    BY <1>3, <2>1, <2>3, ZenonT(60)
<1>8. {i, Mid(p), Last(p)} \in SUBSET Desc /\ Cardinality({i, Mid(p), Last(p)}) >= 3
  <2>1. PICK a, b \in Desc : a = Mid(p) /\ b = Last(p) /\ i # a /\ i # b /\ a # b
    BY <1>3, SMTT(60) DEF LinkedTo
  <2>2. IsFiniteSet({i}) /\ Cardinality({i}) = 1
    BY FS_Singleton, ZenonT(60)
  <2>3. IsFiniteSet({i} \cup {a}) /\ Cardinality({i} \cup {a}) = Cardinality({i}) + 1
    <3>1. a \notin {i}
      BY <2>1
    <3> QED
      BY <2>2, <3>1, FS_AddElement, ZenonT(60)
  <2>4. Cardinality(({i} \cup {a}) \cup {b}) = Cardinality({i} \cup {a}) + 1
    <3>1. b \notin {i} \cup {a}
      BY <2>1
    <3> QED
      BY <2>3, <3>1, FS_AddElement, ZenonT(60)
  <2>5. ({i} \cup {a}) \cup {b} = {i, Mid(p), Last(p)}
    BY <2>1
  <2>6. Cardinality({i, Mid(p), Last(p)}) = Cardinality({i} \cup {a}) + 1
    BY <2>4, <2>5, ZenonT(60)
  <2> QED
    BY <2>1, <2>2, <2>3, <2>6
<1>9. Gap(used.idx, used_idx) + 1 < NUM
  BY <1>4, <1>5, <1>7, <1>8, RingRoom
<1>10. /\ used'.ring \in [Desc -> Desc] /\ used'.idx \in 0 .. IdxMod - 1
       /\ Sound(used'.ring, used_idx, used'.idx)
       /\ Entries(used'.ring, used_idx, used'.idx)
            = Entries(used.ring, used_idx, used.idx) \cup {i}
  <2>1. i \notin Entries(used.ring, used_idx, used.idx)
    BY <1>7
  <2>2. used'.ring = Put(used.ring, used.idx, i) /\ used'.idx = Succ(used.idx)
    BY <1>2, ZenonT(60)
  <2>3. /\ Put(used.ring, used.idx, i) \in [Desc -> Desc] /\ Succ(used.idx) \in 0 .. IdxMod - 1
        /\ Sound(Put(used.ring, used.idx, i), used_idx, Succ(used.idx))
        /\ Entries(Put(used.ring, used.idx, i), used_idx, Succ(used.idx))
             = Entries(used.ring, used_idx, used.idx) \cup {i}
    BY <1>4, <1>5, <1>9, <2>1, RingPut, SMTT(60)
  <2> QED
    BY <2>2, <2>3, ZenonT(60)
<1>11. Waiting' = Waiting
  BY <1>1 DEF Waiting
<1>12. TypeOK' /\ ChanOK' /\ Channels'
  <2>1. used' \in Rings
    BY <1>2, <1>10 DEF Rings
  <2>2. device' \in [seen : 0 .. IdxMod - 1, busy : SUBSET Desc, irq : BOOLEAN]
    BY <1>2, <1>4, SMTT(60)
  <2>3. info' \in [Desc -> [b : Procs \cup {Nobody}, status : {0, 255}]]
    BY <1>0, <1>2, <1>3 DEF TypeOK
  <2>4. disk' \in [Blocks -> Contents] /\ data' \in [Procs -> Contents]
    <3>1. call[p].n \in Blocks /\ disk \in [Blocks -> Contents] /\ data \in [Procs -> Contents]
      BY <1>0, <1>2 DEF TypeOK, Calls
    <3>2. CASE disk' = [disk EXCEPT ![call[p].n] = data[p]] /\ data' = data
      BY <1>3, <3>1, <3>2, SMTT(60)
    <3>3. CASE data' = [data EXCEPT ![p] = disk[call[p].n]] /\ disk' = disk
      BY ZenonT(60), SMTT(60), <1>3, <3>1, <3>3
    <3> QED
      BY <1>2, <3>2, <3>3, ZenonT(60)
  <2> QED
    BY <1>0, <1>1, <2>1, <2>2, <2>3, <2>4 DEF TypeOK, ChanOK, Channels
<1>13. \A j \in Desc : info'[j] = IF j = i THEN [b |-> p, status |-> 0] ELSE info[j]
  BY <1>0, <1>2, SMTT(60) DEF TypeOK
<1>14. Linked'
  <2>1. \A q \in Procs : \/ (pc'[q] = "out" /\ call'[q] = NoCall)
                         \/ (pc'[q] # "out" /\ call'[q] \in Calls)
    BY <1>0, <1>1 DEF Linked
  <2>2. \A q \in Waiting : info'[idx0[q]].b = info[idx0[q]].b
    BY <1>2, <1>6, <1>13, SMTT(60)
  <2> QED
    BY <1>0, <1>1, <1>11, <2>1, <2>2, SameLinked
<1>15. InFlight'
  <2>1. Posted' = Posted /\ Used' = Used \cup {i} /\ device'.busy = device.busy \ {i}
    BY <1>1, <1>2, <1>10 DEF Posted, Used
  <2>2. ASSUME NEW h, NEW st, h # i, Owned(h, st) PROVE Owned(h, st)'
    <3>1. PICK q \in Waiting : idx0[q] = h /\ onDisk[q] /\ info[h].status = st
      BY <2>2 DEF Owned
    <3>2. info'[h] = info[h]
      BY <1>6, <1>13, <2>2, <3>1
    <3> QED
      BY <1>1, <1>11, <3>1, <3>2 DEF Owned
  <2>3. Owned(i, 0)'
    <3>1. info'[i].status = 0 /\ p \in Waiting' /\ idx0'[p] = i /\ onDisk'[p]
      BY <1>1, <1>3, <1>11, <1>13, SMTT(60)
    <3> QED
      BY <3>1 DEF Owned
  <2>4. \A h \in Posted' : h \notin device'.busy /\ Owned(h, 255)'
    BY ZenonT(60), SMTT(60), <1>0, <1>1, <2>1, <2>2 DEF InFlight
  <2>5. \A h \in device'.busy : Owned(h, 255)'
    BY ZenonT(60), SMTT(60), <1>0, <2>1, <2>2 DEF InFlight
  <2>6. \A h \in Used' : Owned(h, 0)'
    BY ZenonT(60), SMTT(60), <1>0, <2>1, <2>2, <2>3 DEF InFlight
  <2>7. ASSUME NEW q \in Waiting', ~onDisk'[q] PROVE info'[idx0'[q]].status = 0
    <3>1. q \in Waiting /\ ~onDisk[q] /\ idx0'[q] = idx0[q] /\ idx0[q] \in Desc
      BY <1>1, <1>6, <1>11, <2>7, ZenonT(60)
    <3>2. info[idx0[q]].status = 0
      BY <1>0, <3>1 DEF InFlight
    <3> QED
      BY <1>13, <3>1, <3>2, SMTT(60)
  <2>8. Sound(avail.ring, device.seen, avail.idx)' /\ Sound(used.ring, used_idx, used.idx)'
    BY <1>0, <1>1, <1>2, <1>10 DEF InFlight
  <2> QED
    BY <2>4, <2>5, <2>6, <2>7, <2>8 DEF InFlight
<1>16. NoLostWakeup'
  BY <1>0, <1>1, <1>2 DEF NoLostWakeup
<1> QED
  BY <1>11, <1>12, <1>14, <1>15, <1>16 DEF Inv

-----------------------------------------------------------------------------
(* The invariant *)

\* virtio_disk_init() leaves every descriptor free and both rings empty.
LEMMA InitInv == Init => Inv
<1> SUFFICES ASSUME Init PROVE Inv
  OBVIOUS
<1>1. 0 \in Desc /\ 0 \in 0 .. IdxMod - 1 /\ -1 \in -1 .. NUM - 1
  BY RingSizes DEF Desc
<1>2. TypeOK
  <2>1. free \subseteq Desc /\ ops \in [Desc -> Calls \cup {NoCall}]
    BY DEF Init
  <2>2. desc \in [Desc -> [addr : Addrs, next : -1 .. NUM - 1]]
    BY <1>1 DEF Init, FreeDesc, Addrs
  <2>3. info \in [Desc -> [b : Procs \cup {Nobody}, status : {0, 255}]]
    BY DEF Init, NoInfo
  <2>4. avail \in Rings /\ used \in Rings /\ used_idx \in 0 .. IdxMod - 1
    BY <1>1 DEF Init, Rings
  <2>5. device \in [seen : 0 .. IdxMod - 1, busy : SUBSET Desc, irq : BOOLEAN]
    BY <1>1 DEF Init
  <2>6. /\ intr \in BOOLEAN /\ disk \in [Blocks -> Contents] /\ data \in [Procs -> Contents]
        /\ onDisk \in [Procs -> BOOLEAN] /\ pc \in [Procs -> {"out", "alloc", "wait"}]
        /\ call \in [Procs -> Calls \cup {NoCall}] /\ idx0 \in [Procs -> Desc]
    BY <1>1, ZenonT(60) DEF Init
  <2> QED
    BY <2>1, <2>2, <2>3, <2>4, <2>5, <2>6 DEF TypeOK
<1>3. Waiting = {} /\ \A p \in Procs : pc[p] = "out" /\ call[p] = NoCall
  BY DEF Init, Waiting
<1>4. Linked
  BY <1>3 DEF Linked, Init
<1>5. Gap(0, 0) = 0
  BY DEF Gap
<1>6. Posted = {} /\ Used = {}
  <2>1. avail.idx = 0 /\ device.seen = 0 /\ used.idx = 0 /\ used_idx = 0
    BY DEF Init
  <2>2. 0 .. 0 - 1 = {}
    OBVIOUS
  <2> QED
    BY <1>5, <2>1, <2>2 DEF Posted, Used, Entries
<1>7. Sound(avail.ring, device.seen, avail.idx) /\ Sound(used.ring, used_idx, used.idx)
  <2>1. avail.idx = 0 /\ device.seen = 0 /\ used.idx = 0 /\ used_idx = 0
    BY DEF Init
  <2> QED
    BY <1>5, <2>1, RingSizes, SMTT(60) DEF Sound
<1>8. InFlight
  <2>1. device.busy = {}
    BY DEF Init
  <2> QED
    BY <1>3, <1>6, <1>7, <2>1 DEF InFlight
<1>9. ChanOK /\ Channels /\ \A p \in Procs : chan[p] = Nobody
  BY DEF Init, SleepInit, ChanOK, Channels
<1>10. NoLostWakeup
  BY <1>9, ChannelAssumption DEF NoLostWakeup, Init
<1> QED
  BY <1>2, <1>4, <1>8, <1>9, <1>10 DEF Inv

\* The steps that change a buffer or a channel only keep the invariant.
LEMMA QuietSteps ==
  ASSUME Inv, NEW p \in Procs,
         \/ \E v \in Contents : Store(p, v)
         \/ WaitAgain(p)
         \/ Kicked(p) /\ UNCHANGED <<queue, io, intr, pc, call>>
  PROVE  Inv' /\ Waiting' = Waiting
<1>0. ChanOK /\ data \in [Procs -> Contents]
  BY DEF Inv, TypeOK
<1>1. CASE \E v \in Contents : Store(p, v)
  <2>1. data' \in [Procs -> Contents] /\ chan' = chan
    BY <1>0, <1>1 DEF Store
  <2>2. UNCHANGED <<queue, used, device, disk, intr, pc, call>>
    BY <1>1 DEF Store
  <2>3. ChanOK' /\ \A q \in Procs : chan'[q] \in {chan[q], Nobody} \/ (chan'[q] = q /\ onDisk[q])
    BY <1>0, <2>1 DEF ChanOK
  <2> QED
    BY <2>1, <2>2, <2>3, QuietInv
<1>2. CASE WaitAgain(p)
  <2>1. /\ UNCHANGED <<queue, used, device, disk, data, intr, pc, call>>
        /\ chan' = [chan EXCEPT ![p] = p] /\ onDisk[p]
    BY <1>2 DEF WaitAgain, Sleep, io
  <2>2. ChanOK' /\ \A q \in Procs : chan'[q] \in {chan[q], Nobody} \/ (chan'[q] = q /\ onDisk[q])
    BY <1>0, <2>1 DEF ChanOK
  <2> QED
    BY <1>0, <2>1, <2>2, QuietInv
<1>3. CASE Kicked(p) /\ UNCHANGED <<queue, io, intr, pc, call>>
  <2>1. /\ UNCHANGED <<queue, used, device, disk, data, intr, pc, call>>
        /\ chan' = [chan EXCEPT ![p] = Nobody]
    BY <1>3 DEF Kicked, Sleep, io
  <2>2. ChanOK' /\ \A q \in Procs : chan'[q] \in {chan[q], Nobody} \/ (chan'[q] = q /\ onDisk[q])
    BY <1>0, <2>1 DEF ChanOK
  <2> QED
    BY <1>0, <2>1, <2>2, QuietInv
<1> QED
  BY <1>1, <1>2, <1>3

\* Every step keeps the invariant.
LEMMA NextInv == Inv /\ [Next]_vars => Inv'
<1> SUFFICES ASSUME Inv, [Next]_vars PROVE Inv'
  OBVIOUS
<1>1. CASE UNCHANGED vars
  <2>1. UNCHANGED <<queue, used, device, disk, data, intr, pc, call, chan>>
    BY <1>1 DEF vars, queue
  <2>2. /\ data' \in [Procs -> Contents] /\ ChanOK'
        /\ \A q \in Procs : chan'[q] \in {chan[q], Nobody}
    BY <2>1 DEF Inv, TypeOK, ChanOK
  <2> QED
    BY <2>1, <2>2, QuietInv
<1>2. ASSUME NEW p \in Procs, NEW c, Submit(p, c) PROVE Inv'
  BY <1>2, SubmitType, SubmitLinked, SubmitFlight, SubmitWakes DEF Inv
<1>3. ASSUME NEW p \in Procs, NEW c, LackDesc(p, c) PROVE Inv'
  BY <1>3, LackDescInv
<1>4. ASSUME NEW p \in Procs, Finish(p) PROVE Inv'
  BY <1>4, FinishType, FinishLinked, FinishFlight, FinishWakes DEF Inv
<1>5. ASSUME NEW p \in Procs, Call(p) PROVE Inv'
  BY <1>2, <1>3, <1>4, <1>5, QuietSteps DEF Call
<1>6. ASSUME NEW p \in Procs, Kicked(p) /\ UNCHANGED <<queue, io, intr, pc, call>> PROVE Inv'
  BY <1>6, QuietSteps
<1>7. CASE IntrStep
  BY <1>7, IntrAckInv, IntrNextInv, IntrEndInv DEF IntrStep
<1>8. CASE DevFetch
  BY <1>8, DevFetchInv
<1>9. ASSUME NEW i \in Desc, DevServe(i) PROVE Inv'
  BY <1>9, DevServeInv
<1> QED
  BY <1>1, <1>5, <1>6, <1>7, <1>8, <1>9 DEF Next

\* The invariant holds in every state the driver and the device can reach.
THEOREM VirtioInvariant == Spec => []Inv
BY InitInv, NextInv, PTL DEF Spec

\* Every descriptor is free or in the chain of one request, and no panic of
\* virtio_disk.c is reached.
THEOREM DescriptorsOwnedHolds == Spec => []DescriptorsOwned
<1>1. Inv => DescriptorsOwned
  <2> SUFFICES ASSUME TypeOK, Linked, InFlight PROVE DescriptorsOwned
    BY DEF Inv
  <2>1. \A p \in Waiting : /\ Chain(idx0[p]) = {idx0[p], Mid(p), Last(p)}
                           /\ Chain(idx0[p]) \subseteq Desc \ free
    BY ChainOf
  <2>2. NoPanic
    <3>1. used_idx # used.idx => ~BadStatus
      BY UsedOwner DEF BadStatus
    <3>2. \A p \in Procs : pc[p] = "wait" => ~FreeTwice(p)
      BY <2>1 DEF FreeTwice, Waiting
    <3> QED
      BY <3>1, <3>2 DEF NoPanic
  <2>3. Desc = free \cup UNION {Chain(idx0[p]) : p \in Waiting}
    <3>1. free \subseteq Desc /\ \A p \in Waiting : Chain(idx0[p]) \subseteq Desc
      BY <2>1 DEF TypeOK
    <3>2. \A i \in Desc : i \in free \/ \E p \in Waiting : i \in Chain(idx0[p])
      BY <2>1, SMTT(60) DEF Linked
    <3> QED
      BY <3>1, <3>2
  <2>4. \A p, q \in Waiting : p # q => Chain(idx0[p]) \cap Chain(idx0[q]) = {}
    <3> SUFFICES ASSUME NEW p \in Waiting, NEW q \in Waiting, p # q
                 PROVE  Chain(idx0[p]) \cap Chain(idx0[q]) = {}
      OBVIOUS
    <3>1. {idx0[p], Mid(p), Last(p)} \cap {idx0[q], Mid(q), Last(q)} = {}
      BY DEF Linked
    <3> QED
      BY <2>1, <3>1, ZenonT(60)
  <2>5. device.busy \subseteq {idx0[p] : p \in {q \in Waiting : onDisk[q]}}
    BY ZenonT(60), SMTT(60) DEF InFlight, Owned
  <2> QED
    BY <2>2, <2>3, <2>4, <2>5 DEF DescriptorsOwned, Waiting
<1> QED
  BY <1>1, VirtioInvariant, PTL

\* No wakeup and no interrupt is lost between virtio_disk_rw(), free_chain() and
\* virtio_disk_intr().
THEOREM NoLostWakeupHolds == Spec => []NoLostWakeup
<1>1. Inv => NoLostWakeup
  BY DEF Inv
<1> QED
  BY <1>1, VirtioInvariant, PTL

-----------------------------------------------------------------------------
(* virtio_disk_rw() implements BlockDevice *)

Req == [p \in Procs |-> RequestOf(p)]
AbstractStep == Device!DeviceNext \/ UNCHANGED <<Req, disk, data>>

\* The request of a thread that the step does not concern.
LEMMA SameRequest ==
  ASSUME NEW q \in Procs, pc'[q] = pc[q], call'[q] = call[q],
         pc[q] = "wait" => info'[idx0'[q]].status = info[idx0[q]].status
  PROVE  RequestOf(q)' = RequestOf(q)
<1>1. CASE pc[q] = "wait"
  BY <1>1, ZenonT(60) DEF RequestOf
<1>2. CASE pc[q] # "wait"
  BY <1>2 DEF RequestOf
<1> QED
  BY <1>1, <1>2

\* A step concerns the request of one thread at most.
LEMMA OneRequest ==
  ASSUME NEW p \in Procs, NEW r, RequestOf(p)' = r,
         \A q \in Procs \ {p} : RequestOf(q)' = RequestOf(q)
  PROVE  Req' = [Req EXCEPT ![p] = r]
BY ZenonT(60) DEF Req

\* The fields of a request, before and after it is served.
LEMMA RequestFields ==
  ASSUME NEW r, NEW st, NEW b, NEW n, NEW w, r = [st |-> st, b |-> b, n |-> n, write |-> w]
  PROVE  /\ r.st = st /\ r.b = b /\ r.n = n /\ r.write = w
         /\ [r EXCEPT !.st = "done"] = [st |-> "done", b |-> b, n |-> n, write |-> w]
OBVIOUS

\* The abstract request of each thread.
LEMMA RequestIs ==
  ASSUME Linked, NEW p \in Procs
  PROVE  /\ pc[p] = "out" => RequestOf(p) = Device!NoReq
         /\ pc[p] = "alloc" =>
              RequestOf(p) = [st |-> "queued", b |-> p, n |-> call[p].n, write |-> call[p].write]
         /\ pc[p] = "wait" =>
              RequestOf(p) = [st |-> IF info[idx0[p]].status = 0 THEN "done" ELSE "queued",
                              b |-> p, n |-> call[p].n, write |-> call[p].write]
<1>1. pc[p] = "out" => call[p] = NoCall
  BY DEF Linked
<1>2. pc[p] = "out" => RequestOf(p) = Device!NoReq
  <2> SUFFICES ASSUME pc[p] = "out" PROVE RequestOf(p) = Device!NoReq
    OBVIOUS
  <2>0. call[p] = NoCall /\ NoCall = [n |-> Nobody, write |-> FALSE]
    BY <1>1 DEF NoCall
  <2>1. call[p].n = Nobody /\ call[p].write = FALSE
    BY <2>0
  <2>2. RequestOf(p) = [st |-> "none", b |-> Nobody, n |-> call[p].n, write |-> call[p].write]
    BY DEF RequestOf
  <2> QED
    BY <2>1, <2>2, ZenonT(60) DEF Device!NoReq
<1>3. pc[p] = "alloc" =>
        RequestOf(p) = [st |-> "queued", b |-> p, n |-> call[p].n, write |-> call[p].write]
  BY DEF RequestOf
<1>4. pc[p] = "wait" =>
        RequestOf(p) = [st |-> IF info[idx0[p]].status = 0 THEN "done" ELSE "queued",
                        b |-> p, n |-> call[p].n, write |-> call[p].write]
  BY DEF RequestOf
<1> QED
  BY <1>2, <1>3, <1>4

\* A thread that enters virtio_disk_rw() makes the request, whether or not it
\* finds descriptors at once; finding them later changes nothing for the caller.
LEMMA EntryRefines ==
  ASSUME Inv, Inv', NEW p \in Procs, NEW c, Allocating(p, c), pc'[p] # "out",
         pc'[p] = "wait" => info'[idx0'[p]].status = 255,
         \A q \in Procs \ {p} : RequestOf(q)' = RequestOf(q), UNCHANGED <<disk, data>>
  PROVE  AbstractStep
<1>0. TypeOK /\ Linked /\ Linked' /\ TypeOK'
  BY DEF Inv
<1>1. c \in Calls /\ call'[p] = c /\ pc'[p] \in {"alloc", "wait"}
  <2>1. c \in Calls /\ call' = [call EXCEPT ![p] = c]
    BY <1>0, SMTT(60) DEF Allocating, At, Linked, Calls
  <2>2. call'[p] = c
    BY <1>0, <2>1, SMTT(60) DEF TypeOK
  <2>3. pc'[p] \in {"alloc", "wait"}
    BY ZenonT(60), SMTT(60), <1>0 DEF TypeOK
  <2> QED
    BY <2>1, <2>2, <2>3
<1>2. c.n \in Blocks /\ c.write \in BOOLEAN
  BY <1>1 DEF Calls
<1>3. RequestOf(p)' = [st |-> "queued", b |-> p, n |-> c.n, write |-> c.write]
  <2>1. CASE pc'[p] = "alloc"
    BY <1>1, <2>1 DEF RequestOf
  <2>2. CASE pc'[p] = "wait"
    BY <1>1, <2>2, SMTT(60) DEF RequestOf
  <2> QED
    BY <1>1, <2>1, <2>2
<1>4. Req' = [Req EXCEPT ![p] = [st |-> "queued", b |-> p, n |-> c.n, write |-> c.write]]
  BY <1>3, OneRequest, SMTT(60)
<1>5. CASE pc[p] = "out"
  <2>1. Req[p] = Device!NoReq
    BY ZenonT(60), SMTT(60), <1>0, <1>5, RequestIs DEF Req
  <2>2. Device!Request(p, p, c.n, c.write)
    BY <1>4, <2>1 DEF Device!Request, Req
  <2> QED
    BY <1>2, <2>1, <2>2, SMTT(60) DEF AbstractStep, Device!DeviceNext, Req
<1>6. CASE pc[p] # "out"
  <2>1. pc[p] = "alloc" /\ c = call[p]
    BY <1>6 DEF Allocating, At
  <2>2. Req[p] = [st |-> "queued", b |-> p, n |-> c.n, write |-> c.write]
    BY ZenonT(60), SMTT(60), <1>0, <2>1, RequestIs DEF Req
  <2>3. RequestOf(p)' = RequestOf(p)
    BY <1>3, <2>2 DEF Req
  <2>4. \A q \in Procs : RequestOf(q)' = RequestOf(q)
    BY <2>3, ZenonT(60)
  <2>5. Req' = Req
    BY <2>4, SMTT(60) DEF Req
  <2> QED
    BY <2>5 DEF AbstractStep
<1> QED
  BY <1>5, <1>6

\* Submitting a request, and waiting for descriptors.
LEMMA SubmitRefines ==
  ASSUME Inv, Inv', NEW p \in Procs, NEW c, Submit(p, c) \/ LackDesc(p, c)
  PROVE  AbstractStep
<1>0. TypeOK /\ Linked
  BY DEF Inv
<1>1. CASE Submit(p, c)
  <2>1. PICK i0, i1, i2 \in free : Formatted(p, c, i0, i1, i2)
    BY <1>0, <1>1, SubmitFacts
  <2>2. i0 \in Desc /\ \A q \in Waiting : q \in Procs /\ idx0[q] \in Desc \ free
    BY <1>0, Heads DEF TypeOK
  <2>3. /\ pc' = [pc EXCEPT ![p] = "wait"] /\ call' = [call EXCEPT ![p] = c]
        /\ UNCHANGED <<disk, data>> /\ Allocating(p, c)
    BY <1>1, ZenonT(60) DEF Submit, Allocating, Goto, io
  <2>4. /\ idx0' = [idx0 EXCEPT ![p] = i0]
        /\ info' = [info EXCEPT ![i0] = [b |-> p, status |-> 255]]
    BY <2>1, ZenonT(60) DEF Formatted
  <2>5. /\ DOMAIN info = Desc /\ DOMAIN idx0 = Procs /\ DOMAIN pc = Procs /\ DOMAIN call = Procs
    BY <1>0 DEF TypeOK
  <2>6. pc'[p] = "wait" /\ idx0'[p] = i0 /\ info'[i0].status = 255
    BY <2>2, <2>3, <2>4, <2>5
  <2>7. ASSUME NEW q \in Procs \ {p} PROVE RequestOf(q)' = RequestOf(q)
    <3>1. pc'[q] = pc[q] /\ call'[q] = call[q] /\ idx0'[q] = idx0[q]
      BY <2>3, <2>4, <2>5, ZenonT(60)
    <3>2. pc[q] = "wait" => info'[idx0[q]] = info[idx0[q]]
      BY ZenonT(60), SMTT(60), <2>2, <2>4, <2>5 DEF Waiting
    <3> QED
      BY <3>1, <3>2, SameRequest
  <2> QED
    BY <2>3, <2>6, <2>7, EntryRefines
<1>2. CASE LackDesc(p, c)
  <2>1. /\ pc' = [pc EXCEPT ![p] = "alloc"] /\ call' = [call EXCEPT ![p] = c]
        /\ UNCHANGED <<disk, data, info, idx0>> /\ Allocating(p, c)
    BY <1>2 DEF LackDesc, Allocating, Goto, io, queue
  <2>2. DOMAIN pc = Procs /\ DOMAIN call = Procs
    BY <1>0 DEF TypeOK
  <2>3. ASSUME NEW q \in Procs \ {p} PROVE RequestOf(q)' = RequestOf(q)
    <3>1. pc'[q] = pc[q] /\ call'[q] = call[q]
      BY <2>1, <2>2, ZenonT(60)
    <3> QED
      BY <2>1, <3>1, SameRequest
  <2>4. pc'[p] = "alloc"
    BY <2>1, <2>2
  <2> QED
    BY <2>1, <2>3, <2>4, EntryRefines
<1> QED
  BY <1>1, <1>2

\* A thread that returns has its block: the device has served the request.
LEMMA FinishRefines ==
  ASSUME Inv, Inv', NEW p \in Procs, Finish(p)
  PROVE  AbstractStep
<1>0. TypeOK /\ Linked /\ InFlight /\ Linked' /\ p \in Waiting
  BY FinishType, ZenonT(60) DEF Inv
<1>1. /\ pc' = [pc EXCEPT ![p] = "out"] /\ call' = [call EXCEPT ![p] = NoCall]
      /\ idx0' = [idx0 EXCEPT ![p] = 0] /\ info' = [info EXCEPT ![idx0[p]] = NoInfo]
      /\ ~onDisk[p] /\ UNCHANGED <<disk, data>>
  BY DEF Finish, Goto, Done, io
<1>2. DOMAIN info = Desc /\ DOMAIN idx0 = Procs /\ DOMAIN pc = Procs /\ DOMAIN call = Procs
  BY <1>0 DEF TypeOK
<1>3. RequestOf(p)' = Device!NoReq
  <2>1. pc'[p] = "out"
    BY <1>1, <1>2
  <2>2. (Linked => (pc[p] = "out" => RequestOf(p) = Device!NoReq))'
    BY RequestIs, PTL
  <2> QED
    BY <1>0, <2>1, <2>2
<1>4. ASSUME NEW q \in Procs \ {p} PROVE RequestOf(q)' = RequestOf(q)
  <2>1. pc'[q] = pc[q] /\ call'[q] = call[q] /\ idx0'[q] = idx0[q]
    BY <1>1, <1>2, ZenonT(60)
  <2>2. pc[q] = "wait" => info'[idx0[q]] = info[idx0[q]]
    <3> SUFFICES ASSUME pc[q] = "wait" PROVE info'[idx0[q]] = info[idx0[q]]
      OBVIOUS
    <3>1. q \in Waiting /\ q # p
      BY DEF Waiting
    <3>2. idx0[q] \in Desc /\ idx0[q] # idx0[p]
      BY <1>0, <3>1, Heads
    <3> QED
      BY <1>1, <1>2, <3>2
  <2> QED
    BY <2>1, <2>2, SameRequest
<1>5. Req' = [Req EXCEPT ![p] = Device!NoReq]
  BY <1>3, <1>4, OneRequest
<1>6. Req[p].st = "done"
  <2>1. pc[p] = "wait" /\ info[idx0[p]].status = 0
    BY <1>0, <1>1 DEF InFlight, Waiting
  <2>2. RequestOf(p).st = "done"
    BY <2>1 DEF RequestOf
  <2> QED
    BY <2>2 DEF Req
<1>7. Device!Return(p)
  BY <1>1, <1>5, <1>6 DEF Device!Return, Req
<1> QED
  BY <1>7 DEF AbstractStep, Device!DeviceNext

\* The device moves the block of the request it serves, and that one only.
LEMMA ServeRefines ==
  ASSUME Inv, NEW i \in Desc, DevServe(i)
  PROVE  AbstractStep
<1>0. TypeOK /\ Linked /\ InFlight
  BY DEF Inv
<1>1. PICK p \in Waiting :
        /\ idx0[p] = i /\ onDisk[p] /\ info[i].status = 255 /\ info[i].b = p
        /\ call[p] \in Calls
        /\ IF call[p].write
           THEN disk' = [disk EXCEPT ![call[p].n] = data[p]] /\ data' = data
           ELSE data' = [data EXCEPT ![p] = disk[call[p].n]] /\ disk' = disk
        /\ info' = [info EXCEPT ![i] = [b |-> p, status |-> 0]]
        /\ used'.ring = Put(used.ring, used.idx, i) /\ used'.idx = Succ(used.idx)
        /\ used' = [ring |-> used'.ring, idx |-> used'.idx]
        /\ device' = [seen |-> device.seen, busy |-> device.busy \ {i}, irq |-> TRUE]
  BY <1>0, ServeFacts
<1>2. /\ p \in Procs /\ pc[p] = "wait" /\ idx0[p] = i /\ info[i].status = 255
      /\ info' = [info EXCEPT ![i] = [b |-> p, status |-> 0]] /\ DOMAIN info = Desc
  BY <1>0, <1>1 DEF Waiting, TypeOK
<1>3. UNCHANGED <<pc, call, idx0>>
  BY DEF DevServe
<1>4. RequestOf(p) = [st |-> "queued", b |-> p, n |-> call[p].n, write |-> call[p].write]
  BY <1>2, SMTT(60) DEF RequestOf
<1>5. RequestOf(p)' = [st |-> "done", b |-> p, n |-> call[p].n, write |-> call[p].write]
  <2>1. info'[i].status = 0
    BY <1>2
  <2> QED
    BY <1>2, <1>3, <2>1 DEF RequestOf
<1>6. ASSUME NEW q \in Procs \ {p} PROVE RequestOf(q)' = RequestOf(q)
  <2>1. pc[q] = "wait" => info'[idx0[q]] = info[idx0[q]]
    <3> SUFFICES ASSUME pc[q] = "wait" PROVE info'[idx0[q]] = info[idx0[q]]
      OBVIOUS
    <3>1. q \in Waiting /\ p \in Waiting /\ q # p
      BY DEF Waiting
    <3>2. idx0[q] \in Desc /\ idx0[q] # i
      BY <1>0, <1>2, <3>1, Heads, SMTT(60)
    <3> QED
      BY <1>2, <3>2
  <2> QED
    BY <1>3, <2>1, SameRequest
<1>7. Req' = [Req EXCEPT ![p] = [st |-> "done", b |-> p, n |-> call[p].n, write |-> call[p].write]]
  <2>1. PICK r : r = [st |-> "done", b |-> p, n |-> call[p].n, write |-> call[p].write]
    BY ZenonT(60)
  <2>2. RequestOf(p)' = r
    BY <1>5, <2>1, ZenonT(60)
  <2>3. Req' = [Req EXCEPT ![p] = r]
    BY <1>2, <1>6, <2>2, OneRequest
  <2> QED
    BY <2>1, <2>3, ZenonT(60)
<1>8. Req[p] = [st |-> "queued", b |-> p, n |-> call[p].n, write |-> call[p].write]
  BY <1>2, <1>4 DEF Req
<1>9. Req' = [Req EXCEPT ![p].st = "done"]
  <2>1. [Req[p] EXCEPT !.st = "done"]
          = [st |-> "done", b |-> p, n |-> call[p].n, write |-> call[p].write]
    BY <1>8, RequestFields, SMTT(60)
  <2> QED
    BY <1>7, <2>1, ZenonT(60)
<1>10. IF Req[p].write THEN disk' = [disk EXCEPT ![Req[p].n] = data[Req[p].b]] /\ data' = data
                       ELSE data' = [data EXCEPT ![Req[p].b] = disk[Req[p].n]] /\ disk' = disk
  <2>1. Req[p].write = call[p].write /\ Req[p].n = call[p].n /\ Req[p].b = p
    BY <1>8, RequestFields, SMTT(60)
  <2>2. IF call[p].write
        THEN disk' = [disk EXCEPT ![call[p].n] = data[p]] /\ data' = data
        ELSE data' = [data EXCEPT ![p] = disk[call[p].n]] /\ disk' = disk
    BY <1>1, ZenonT(60)
  <2> QED
    BY <2>1, <2>2, ZenonT(60)
<1>11. Req[p].st = "queued"
  BY <1>8
<1>12. Device!Perform(p)
  BY <1>9, <1>10, <1>11, ZenonT(60) DEF Device!Perform, Req
<1> QED
  BY <1>2, <1>12 DEF AbstractStep, Device!DeviceNext

\* The caller fills a buffer that no transfer uses.
LEMMA StoreRefines ==
  ASSUME Inv, NEW p \in Procs, NEW v \in Contents, Store(p, v)
  PROVE  AbstractStep
<1>1. /\ pc[p] = "out" /\ data' = [data EXCEPT ![p] = v]
      /\ UNCHANGED <<pc, call, idx0, info, disk>>
  BY DEF Store, At, queue
<1>2. Req' = Req
  BY <1>1 DEF Req, RequestOf
<1>3. \A q \in Procs : Req[q].b # p
  <2> SUFFICES ASSUME NEW q \in Procs PROVE RequestOf(q).b # p
    BY DEF Req
  <2>1. RequestOf(q).b = IF pc[q] = "out" THEN Nobody ELSE q
    BY DEF RequestOf
  <2> QED
    BY <1>1, <2>1, ChannelAssumption
<1>4. Device!Change(p, v)
  BY <1>1, <1>2, <1>3 DEF Device!Change, Req
<1>5. CASE data' = data
  BY <1>1, <1>2, <1>5 DEF AbstractStep
<1>6. CASE data' # data
  BY <1>4, <1>6 DEF AbstractStep, Device!DeviceNext
<1> QED
  BY <1>5, <1>6

\* virtio_disk_rw() implements BlockDevice: for any number of threads and any
\* order of completion each call moves its own block once, between its call and
\* its return.
THEOREM DriverImplementsDevice == Spec => ImplementsDevice
<1>1. Init => Device!DeviceInit
  <2> SUFFICES ASSUME Init PROVE Device!DeviceInit
    OBVIOUS
  <2>1. Linked /\ \A p \in Procs : pc[p] = "out"
    BY InitInv, ZenonT(60) DEF Inv, Init
  <2>2. \A p \in Procs : RequestOf(p) = Device!NoReq
    BY <2>1, RequestIs
  <2> QED
    BY <2>2 DEF Device!DeviceInit, Init
<1>2. Inv /\ Inv' /\ [Next]_vars => AbstractStep
  <2> SUFFICES ASSUME Inv, Inv', [Next]_vars PROVE AbstractStep
    OBVIOUS
  <2>1. ASSUME UNCHANGED <<pc, call, idx0, info, disk, data>> PROVE AbstractStep
    BY <2>1 DEF AbstractStep, Req, RequestOf
  <2>2. CASE UNCHANGED vars
    BY <2>1, <2>2 DEF vars
  <2>3. ASSUME NEW p \in Procs, Call(p) PROVE AbstractStep
    <3>1. CASE WaitAgain(p)
      BY <2>1, <3>1 DEF WaitAgain, queue, io
    <3> QED
      BY <2>3, <3>1, StoreRefines, SubmitRefines, FinishRefines DEF Call
  <2>4. ASSUME NEW p \in Procs, Kicked(p) /\ UNCHANGED <<queue, io, intr, pc, call>>
        PROVE  AbstractStep
    BY <2>1, <2>4 DEF queue, io
  <2>5. CASE IntrStep
    BY <2>1, <2>5 DEF IntrStep, IntrAck, IntrNext, IntrEnd, queue, io
  <2>6. CASE DevFetch
    BY <2>1, <2>6 DEF DevFetch
  <2>7. ASSUME NEW i \in Desc, DevServe(i) PROVE AbstractStep
    BY <2>7, ServeRefines
  <2> QED
    BY <2>2, <2>3, <2>4, <2>5, <2>6, <2>7 DEF Next
<1>3. AbstractStep => [Device!DeviceNext]_<<[p \in Procs |-> RequestOf(p)], disk, data>>
  BY DEF AbstractStep, Req
<1> QED
  BY <1>1, <1>2, <1>3, VirtioInvariant, PTL DEF Spec, ImplementsDevice, Device!DeviceSpec
=============================================================================
