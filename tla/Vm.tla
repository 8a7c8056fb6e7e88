--------------------------------- MODULE Vm ---------------------------------
(***************************************************************************)
(* Physical pages and user page tables: what the loops of kernel/kalloc.c  *)
(* and kernel/vm.c do to a page table and to the free pages, as operators. *)
(*                                                                         *)
(* A page table is a record: its table pages, each under its level and the *)
(* part of the virtual page numbers it covers, and its leaf entries.       *)
(* kmem.freelist is how often each page is on it; its order is left out,   *)
(* kalloc() takes the least page.                                          *)
(***************************************************************************)
EXTENDS Integers, FiniteSets, FiniteSetsExt, SequencesExt, TLC

CONSTANTS
  NPAGES,     \* pages between end and PHYSTOP
  PGSIZE      \* bytes in a page

VARIABLES
  free,       \* how often each page is on kmem.freelist
  data        \* what each page contains

Pages == 1 .. NPAGES
NoPage == 0              \* the null pointer
TrampolinePage == -1     \* the page of trampoline.S, not one of kalloc()'s

\* Two entries in a level-0 or level-1 table and four in the root, where the
\* machine has 512: virtual pages 0 to 15.
Level1(va) == <<1, va \div 4>>
Level0(va) == <<0, va \div 2>>
Root == <<2, 0>>
TRAMPOLINE == 15
TRAPFRAME == 14

PGROUNDUP(a) == ((a + PGSIZE - 1) \div PGSIZE) * PGSIZE
PageOf(a) == a \div PGSIZE
PagesFor(sz) == PageOf(PGROUNDUP(sz))

Filled(b) == [k \in 0 .. PGSIZE - 1 |-> b]
NoTable == [dir |-> <<>>, leaf |-> <<>>]

(* kalloc.c *)

\* What up to n calls of kalloc() return before one fails.
Kalloc(n) ==
  LET F == {pg \in Pages : free[pg] > 0}
  IN  [i \in 1 .. Min({n, Cardinality(F)}) |->
         CHOOSE pg \in F : Cardinality({q \in F : q < pg}) = i - 1]

\* The free list without the pages of sequence pgs, and with those of bag b.
FreeAfter(pgs, b) ==
  [pg \in Pages |-> free[pg] - (IF pg \in Range(pgs) THEN 1 ELSE 0) + b[pg]]

None == [pg \in Pages |-> 0]
OnePage(pg) == [None EXCEPT ![pg] = 1]
AndPages(b, c) == [pg \in Pages |-> b[pg] + c[pg]]

\* Seeded fault: a new page keeps the junk kalloc() put there.
DataAfterJunk(S, b) ==
  [pg \in Pages |-> IF b[pg] > 0 THEN Filled(1) ELSE IF pg \in S THEN Filled(5) ELSE data[pg]]

\* The contents of memory when the pages in S are zeroed and the freed ones are junk.
DataAfter(S, b) ==
  [pg \in Pages |-> IF b[pg] > 0 THEN Filled(1) ELSE IF pg \in S THEN Filled(0) ELSE data[pg]]

(* vm.c: walking and mapping *)

\* The tables walk() has to allocate on the way to va.
Missing(t, va) == SelectSeq(<<Level1(va), Level0(va)>>, LAMBDA k : k \notin DOMAIN t.dir)

\* walk() with alloc set, when kalloc() had the pages pgs for it.
WalkAlloc(t, va, pgs) ==
  [t EXCEPT !.dir = [k \in {Missing(t, va)[i] : i \in DOMAIN pgs} |->
                       pgs[CHOOSE i \in DOMAIN pgs : Missing(t, va)[i] = k]] @@ @]

Valid(t, va) == {Level1(va), Level0(va)} \subseteq DOMAIN t.dir /\ va \in DOMAIN t.leaf

Mapped(t, va, pa, perm) == [t EXCEPT !.leaf = (va :> [pa |-> pa, perm |-> perm]) @@ @]

Walkaddr(t, va) ==
  IF va < 16 /\ Valid(t, va) /\ "U" \in t.leaf[va].perm THEN t.leaf[va].pa ELSE NoPage

(* vm.c: what uvmunmap(), uvmfree() and proc_freepagetable() remove *)

Unmapped(t, S) == [t EXCEPT !.leaf = [v \in DOMAIN @ \ S |-> @[v]]]

\* The pages that uvmunmap() of the virtual pages in S gives back.
UserPages(t, S) ==
  [pg \in Pages |-> Cardinality({v \in S \cap DOMAIN t.leaf : t.leaf[v].pa = pg})]

UnmapPanics(t, S) == \E v \in S : ~Valid(t, v)

\* The table pages that freewalk() gives back.
TablePages(t) == [pg \in Pages |-> Cardinality({k \in DOMAIN t.dir : t.dir[k] = pg})]

\* uvmfree() of a table with sz bytes of user memory.
UserRange(sz) == 0 .. PagesFor(sz) - 1
UvmfreePages(t, sz) == AndPages(UserPages(t, UserRange(sz)), TablePages(t))
UvmfreePanics(t, sz) ==
  UnmapPanics(t, UserRange(sz)) \/ ~ DOMAIN t.leaf \subseteq UserRange(sz)

(* vm.c: copying between the kernel and a process *)

\* The virtual pages that the n bytes from address a lie in, in order.
PagesOver(a, n) ==
  IF n = 0 THEN <<>> ELSE [k \in 1 .. PageOf(a + n - 1) - PageOf(a) + 1 |-> PageOf(a) + k - 1]

\* The pages a copy of n bytes at address a gets to: the loop ends at the first
\* one walkaddr() does not find.
Reached(t, a, n) ==
  LET vs  == PagesOver(a, n)
      bad == {i \in DOMAIN vs : Walkaddr(t, vs[i]) = NoPage}
  IN  IF bad = {} THEN vs ELSE SubSeq(vs, 1, Min(bad) - 1)

Complete(t, a, n) == Reached(t, a, n) = PagesOver(a, n)

\* Memory after copyout() of src, which fails unless Complete.
Copyout(t, dstva, src, mem) ==
  LET vs == Range(Reached(t, dstva, Len(src)))
  IN  [pg \in Pages |-> [k \in 0 .. PGSIZE - 1 |->
         LET at == {v \in vs : t.leaf[v].pa = pg
                               /\ v * PGSIZE + k \in dstva .. dstva + Len(src) - 1}
         IN  IF at = {} THEN mem[pg][k]
             ELSE src[(CHOOSE v \in at : TRUE) * PGSIZE + k - dstva + 1]]]

\* The bytes of virtual page v that lie in the n bytes from address a.
BytesIn(t, v, a, n) ==
  LET first == Max({a, v * PGSIZE})
      last  == Min({a + n, (v + 1) * PGSIZE}) - 1
  IN  [i \in 1 .. last - first + 1 |-> data[t.leaf[v].pa][(first % PGSIZE) + i - 1]]

\* What copyin() puts into dst.
Copyin(t, srcva, len) ==
  LET vs == Reached(t, srcva, len)
  IN  FlattenSeq([i \in DOMAIN vs |-> BytesIn(t, vs[i], srcva, len)])

\* What copyinstr() puts into dst: it stops behind the first 0.
Copyinstr(t, srcva, max) ==
  LET b == Copyin(t, srcva, max)
      z == {i \in DOMAIN b : b[i] = 0}
  IN  IF z = {} THEN b ELSE SubSeq(b, 1, Min(z))

\* copyinstr() returns 0 when it copied the 0.
GotNull(t, srcva, max) == 0 \in Range(Copyinstr(t, srcva, max))
=============================================================================
