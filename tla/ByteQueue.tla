----------------------------- MODULE ByteQueue -----------------------------
(* A first-in first-out queue of bytes, between a writer and a device. *)
EXTENDS Naturals, Sequences

CONSTANTS Bytes, Capacity
VARIABLE queue

Put(x) == Len(queue) < Capacity /\ queue' = Append(queue, x)
Get == queue # <<>> /\ queue' = Tail(queue)

QueueSpec == queue = <<>> /\ [][Get \/ \E x \in Bytes : Put(x)]_queue
=============================================================================
