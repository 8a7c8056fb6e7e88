------------------------------ MODULE Channel ------------------------------
(***************************************************************************)
(* What a pipe promises: a bounded first-in first-out queue of bytes with  *)
(* two ends.  Bytes come out in the order they went in, each once; the     *)
(* queue is created empty, and it goes when both ends are closed.          *)
(***************************************************************************)
EXTENDS Naturals, Sequences

CONSTANTS Procs, Pages, PIPESIZE, Bytes

VARIABLES
  queue,      \* the bytes in each pipe
  ends,       \* the ends of each pipe that are open
  got         \* the bytes a read is handing to its caller

ChannelInit ==
  /\ queue = [pi \in Pages |-> <<>>]
  /\ ends = [pi \in Pages |-> {}]
  /\ got = [p \in Procs |-> <<>>]

Create(pi) ==
  /\ ends[pi] = {}
  /\ ends' = [ends EXCEPT ![pi] = {"r", "w"}]
  /\ queue' = [queue EXCEPT ![pi] = <<>>]
  /\ UNCHANGED got

Put(pi, x) ==
  /\ ends[pi] = {"r", "w"} /\ Len(queue[pi]) < PIPESIZE
  /\ queue' = [queue EXCEPT ![pi] = Append(@, x)]
  /\ UNCHANGED <<ends, got>>

\* A read that cannot store a byte has still taken it out of the queue.
Take(p, pi, k, lost) ==
  /\ "r" \in ends[pi] /\ k <= Len(queue[pi]) /\ lost <= k
  /\ queue[pi] = <<>> => ends[pi] = {"r"}
  /\ got' = [got EXCEPT ![p] = SubSeq(queue[pi], 1, k - lost)]
  /\ queue' = [queue EXCEPT ![pi] = SubSeq(@, k + 1, Len(@))]
  /\ UNCHANGED ends

Deliver(p) ==
  /\ got' = [got EXCEPT ![p] = <<>>]
  /\ UNCHANGED <<queue, ends>>

CloseEnd(pi, e) ==
  /\ e \in ends[pi]
  /\ ends' = [ends EXCEPT ![pi] = @ \ {e}]
  /\ queue' = [queue EXCEPT ![pi] = IF ends[pi] = {e} THEN <<>> ELSE @]
  /\ UNCHANGED got

ChannelNext ==
  \/ \E p \in Procs : Deliver(p)
  \/ \E pi \in Pages :
       \/ Create(pi)
       \/ \E x \in Bytes : Put(pi, x)
       \/ \E k \in 0 .. PIPESIZE, lost \in {0, 1}, p \in Procs : Take(p, pi, k, lost)
       \/ \E e \in {"r", "w"} : CloseEnd(pi, e)

ChannelSpec == ChannelInit /\ [][ChannelNext]_<<queue, ends, got>>
=============================================================================
