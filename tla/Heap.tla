-------------------------------- MODULE Heap --------------------------------
(***************************************************************************)
(* malloc() and free() of user programs: user/umalloc.c, an allocator with *)
(* a circular free list in address order.                                  *)
(*                                                                         *)
(* Addresses count headers.  base lies below the heap.  A round of a loop  *)
(* is a step; the program runs one call at a time and may also call sbrk() *)
(* itself, which leaves a hole between two pieces of the heap.  A header   *)
(* exists where a block starts; the next-pointer of a block in use is not  *)
(* read before free() sets it, and is Null.                                *)
(***************************************************************************)
EXTENDS Integers, FiniteSets, FiniteSetsExt, TLC

CONSTANTS
  HeaderSize,   \* bytes in a header
  MinCore,      \* units morecore() asks for at least, 4096 in the code
  Limit,        \* first address sbrk() does not reach
  Requests,     \* arguments of malloc()
  MaxHoles      \* bound: calls of sbrk() by the program

VARIABLES
  hdr,          \* the headers, by address: next free block and size
  freep,        \* where the search starts, Null before the first call
  brk,          \* end of the heap
  live,         \* the blocks the program has, by the address of their header
  holes,        \* the units it took with sbrk()
  m             \* the call in progress and its locals

vars == <<hdr, freep, brk, live, holes, m>>

Null == -1
Base == 0
First == 2      \* where the heap starts
Addrs == First .. Limit - 1
Idle == [pc |-> "idle", nunits |-> 0, p |-> Base, prevp |-> Base, bp |-> Base]

Init ==
  /\ hdr = [a \in {Base} |-> [ptr |-> Base, size |-> 0]]
  /\ freep = Null /\ brk = First /\ live = {} /\ holes = {}
  /\ m = Idle

\* malloc() up to its loop.
Malloc(nbytes) ==
  LET start == IF freep = Null THEN Base ELSE freep
  IN  /\ m.pc = "idle"
      /\ freep' = start
      /\ m' = [Idle EXCEPT !.pc = "scan", !.prevp = start, !.p = hdr[start].ptr,
                           !.nunits = (nbytes + HeaderSize - 1) \div HeaderSize + 1]
      /\ UNCHANGED <<hdr, brk, live, holes>>

\* The search is back where it began.
Wrapped == m.p = freep

Fits == hdr[m.p].size >= m.nunits

InUse(n) == [ptr |-> Null, size |-> n]

\* A larger block keeps its head; the tail is handed out.
Split(p, n) == (p + hdr[p].size - n :> InUse(n)) @@ [hdr EXCEPT ![p].size = @ - n]

\* A block that fits is found.
Take ==
  LET p == m.p
      n == m.nunits
  IN  /\ m.pc = "scan" /\ Fits
      /\ IF hdr[p].size = n
         THEN hdr' = [hdr EXCEPT ![m.prevp].ptr = hdr[p].ptr, ![p].ptr = Null] /\ live' = live \cup {p}
         ELSE hdr' = Split(p, n) /\ live' = live \cup {p + hdr[p].size - n}
      /\ freep' = m.prevp /\ m' = Idle
      /\ UNCHANGED <<brk, holes>>

\* The loop goes on to the next free block.
Scan ==
  /\ m.pc = "scan" /\ ~Fits /\ ~Wrapped
  /\ m' = [m EXCEPT !.prevp = m.p, !.p = hdr[m.p].ptr]
  /\ UNCHANGED <<hdr, freep, brk, live, holes>>

\* morecore(), which frees what sbrk() gave it, or fails.
Morecore ==
  LET nu == Max({m.nunits, MinCore})
  IN  /\ m.pc = "scan" /\ ~Fits /\ Wrapped
      /\ IF brk + nu > Limit THEN m' = Idle /\ UNCHANGED <<hdr, brk>>
         ELSE /\ hdr' = (brk :> InUse(nu)) @@ hdr
              /\ brk' = brk + nu
              /\ m' = [m EXCEPT !.pc = "core", !.bp = brk, !.p = freep]
      /\ UNCHANGED <<freep, live, holes>>

Free(a) ==
  /\ m.pc = "idle" /\ a \in live
  /\ live' = live \ {a}
  /\ m' = [Idle EXCEPT !.pc = "free", !.bp = a, !.p = freep]
  /\ UNCHANGED <<hdr, freep, brk, holes>>

\* bp belongs between p and the block behind it; the last block is followed by
\* the first.
Found ==
  LET p    == m.p
      next == hdr[p].ptr
  IN  \/ m.bp > p /\ m.bp < next
      \/ p >= next /\ (m.bp > p \/ m.bp < next)

FindPlace ==
  /\ m.pc \in {"free", "core"} /\ ~Found
  /\ m' = [m EXCEPT !.p = hdr[m.p].ptr]
  /\ UNCHANGED <<hdr, freep, brk, live, holes>>

Without(h, a) == [b \in DOMAIN h \ {a} |-> h[b]]

\* Seeded fault: a block is not joined with the one below it.
JoinedAbove(p, bp, h) == [h EXCEPT ![p].ptr = bp]

\* bp joined with the block below it, or linked behind it.
Joined(p, bp, h) ==
  IF p + h[p].size = bp
  THEN [Without(h, bp) EXCEPT ![p] = [ptr |-> h[bp].ptr, size |-> @.size + h[bp].size]]
  ELSE [h EXCEPT ![p].ptr = bp]

\* The end of free(): joins bp with the block above it, then with the one below.
Insert ==
  LET p     == m.p
      bp    == m.bp
      next  == hdr[p].ptr
      above == IF bp + hdr[bp].size = next
               THEN [Without(hdr, next) EXCEPT
                       ![bp] = [ptr |-> hdr[next].ptr, size |-> @.size + hdr[next].size]]
               ELSE [hdr EXCEPT ![bp].ptr = next]
      h     == Joined(p, bp, above)
  IN  /\ m.pc \in {"free", "core"} /\ Found
      /\ hdr' = h
      /\ freep' = p
      /\ m' = IF m.pc = "free" THEN Idle
              ELSE [m EXCEPT !.pc = "scan", !.prevp = p, !.p = h[p].ptr]
      /\ UNCHANGED <<brk, live, holes>>

\* The program grows its memory itself.
Sbrk ==
  /\ m.pc = "idle" /\ Cardinality(holes) < MaxHoles /\ brk < Limit
  /\ holes' = holes \cup {brk} /\ brk' = brk + 1
  /\ UNCHANGED <<hdr, freep, live, m>>

Next ==
  \/ \E n \in Requests : Malloc(n)
  \/ \E a \in Addrs : Free(a)
  \/ Take \/ Scan \/ Morecore \/ FindPlace \/ Insert \/ Sbrk

Spec == Init /\ [][Next]_vars

-----------------------------------------------------------------------------

\* The blocks of the free list, from base around the circle.
Reach[n \in 0 .. Limit] ==
  IF n = 0 THEN {Base}
  ELSE LET r == Reach[n - 1] IN r \cup {hdr[a].ptr : a \in r}
FreeBlocks == Reach[Limit] \ {Base}

Units(a) == a .. a + hdr[a].size - 1

\* Between two calls, free blocks, blocks in use and the program's own memory
\* tile the heap: no two blocks overlap, no unit is lost, the list is one circle
\* through base in address order, and no two free blocks touch, so that memory
\* that was freed can serve larger requests again.
HeapTiles ==
  m.pc = "idle" /\ freep # Null =>
    LET bs == FreeBlocks \cup live
    IN  /\ UNION {Units(a) : a \in bs} \cup holes = First .. brk - 1
        /\ \A a, b \in bs : a # b => Units(a) \cap Units(b) = {}
        /\ \A a \in bs : hdr[a].size >= 1 /\ Units(a) \cap holes = {}
        /\ FreeBlocks \cap live = {} /\ freep \in FreeBlocks \cup {Base}
        /\ \A a \in FreeBlocks :
             /\ a + hdr[a].size \notin FreeBlocks
             /\ hdr[a].ptr \in {Base} \cup (a + 1 .. brk)
             /\ \A b \in FreeBlocks : b > a /\ hdr[a].ptr # Base => b >= hdr[a].ptr
=============================================================================
