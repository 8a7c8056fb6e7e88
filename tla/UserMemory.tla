----------------------------- MODULE UserMemory -----------------------------
(***************************************************************************)
(* The memory of processes: the calls that build, resize, copy, replace    *)
(* and free a page table (kernel/proc.c, kernel/exec.c, sbrk), over the    *)
(* operators of Vm.                                                        *)
(*                                                                         *)
(* Each process has one thread.  A round of a loop that allocates is one   *)
(* step, so calls of different processes compete for the free pages and    *)
(* every round can be the one that fails; Init chooses how many there are. *)
(***************************************************************************)
EXTENDS Vm

CONSTANTS
  NPROC,
  Pools,       \* how many pages kinit() may find free
  Increments,  \* arguments of sbrk()
  Programs,    \* what exec() is asked to run
  Writes,      \* copies into user memory: an address and the bytes
  Reads,       \* what copyin() and copyinstr() are asked for: an address and a length
  MaxSize,     \* bound: a process does not ask sbrk() for more
  MaxCalls,    \* bound: calls in a behaviour
  ALIGN,       \* of the stack pointer, 16 in the code
  MAXARG,
  ADDRMOD      \* addresses of an ELF header are modulo this, 2^64 in the code

VARIABLES
  proc,        \* the process table: state, sz, trapframe page, stack pointer
  tab,         \* the page tables of a process: its own, and the one it builds
  k,           \* where each process is in a call, with the call's locals
  panic,       \* the message of a panic, "" while the machine runs
  calls        \* calls made so far

vars == <<free, data, proc, tab, k, panic, calls>>

Procs == 1 .. NPROC
Unused == [state |-> "UNUSED", sz |-> 0, tf |-> NoPage, sp |-> 0]

\* Locals: the call; the table t an allocation works on, its first page, its next
\* page and its end, the permissions, the size it leads to and what comes then;
\* the child of fork(); the program of exec(), its next segment, the size so far.
InUser == [pc |-> "user", call |-> "none", t |-> "own", from |-> 0, va |-> 0, to |-> 0,
           perm |-> {}, newsz |-> 0, then |-> "user", child |-> 0, x |-> <<>>, seg |-> 0, sz |-> 0]

\* A table with the trampoline and the trapframe page tf, in three table pages.
Fresh(pgs, tf) ==
  LET t == WalkAlloc([NoTable EXCEPT !.dir = Root :> pgs[1]], TRAMPOLINE, Tail(pgs))
  IN  Mapped(Mapped(t, TRAMPOLINE, TrampolinePage, {"R", "X"}), TRAPFRAME, tf, {"R", "W"})

\* userinit() on a machine with n free pages: initproc with one page of code.
Boot(n) ==
  LET t == WalkAlloc(Fresh(<<2, 3, 4>>, 1), 0, <<6, 7>>)
  IN  /\ free = [pg \in Pages |-> IF pg \in 8 .. n THEN 1 ELSE 0]
      /\ data = [pg \in Pages |-> CASE pg = 5 -> [Filled(0) EXCEPT ![0] = 2]
                                    [] pg \in 1 .. 7 \ {5} -> Filled(0)
                                    [] OTHER -> Filled(1)]
      /\ tab = [p \in Procs |->
                  [own |-> IF p = 1 THEN Mapped(t, 0, 5, {"R", "W", "X", "U"}) ELSE NoTable,
                   new |-> NoTable]]
      /\ proc = [p \in Procs |->
                   IF p = 1 THEN [state |-> "USED", sz |-> PGSIZE, tf |-> 1, sp |-> PGSIZE]
                   ELSE Unused]

Init ==
  /\ \E n \in Pools : Boot(n)
  /\ k = [p \in Procs |-> InUser] /\ panic = "" /\ calls = 0

At(p, pc) == panic = "" /\ k[p].pc = pc /\ proc[p].state = "USED"
Goes(p, l) == k' = [k EXCEPT ![p] = l]

\* Process p in user code enters the kernel.
Call(p) == At(p, "user") /\ calls < MaxCalls /\ calls' = calls + 1

(* uvmalloc() and uvmdealloc() *)

\* The locals of uvmalloc() of table t from oldsz to newsz, then at pc next.
Allocating(l, t, oldsz, newsz, perm, next) ==
  [l EXCEPT !.pc = "alloc", !.t = t, !.from = PagesFor(oldsz), !.va = PagesFor(oldsz),
            !.to = PagesFor(newsz), !.perm = perm, !.then = next, !.newsz = newsz]

\* Seeded fault: the page that could not be mapped is not given back.
NotMappedLeaked(p, t, got) ==
  [t |-> WalkAlloc(t, k[p].va, Tail(got)), back |-> None]

\* mappages() failed with the pages got: the one to map goes back, the tables stay.
NotMapped(p, t, got) ==
  [t |-> WalkAlloc(t, k[p].va, Tail(got)), back |-> OnePage(Head(got))]

\* A round of uvmalloc()'s loop.  On failure uvmdealloc() takes back the rounds
\* before, and the caller sees 0.
AllocRound(p) ==
  LET l    == k[p]
      t    == tab[p][l.t]
      got  == Kalloc(1 + Len(Missing(t, l.va)))
      full == Len(got) = 1 + Len(Missing(t, l.va))
      left == IF got = <<>> THEN [t |-> t, back |-> None] ELSE NotMapped(p, t, got)
      back == AndPages(left.back, UserPages(t, l.from .. l.va - 1))
  IN  /\ At(p, "alloc") /\ l.va < l.to
      /\ IF full
         THEN /\ tab' = [tab EXCEPT ![p][l.t] =
                           Mapped(WalkAlloc(t, l.va, Tail(got)), l.va, Head(got),
                                  {"R", "U"} \cup l.perm)]
              /\ Goes(p, [l EXCEPT !.va = @ + 1])
              /\ panic' = IF l.va \in DOMAIN t.leaf THEN "mappages: remap" ELSE panic
              /\ free' = FreeAfter(got, None) /\ data' = DataAfter(Range(got), None)
         ELSE /\ tab' = [tab EXCEPT ![p][l.t] = Unmapped(left.t, l.from .. l.va - 1)]
              /\ Goes(p, [l EXCEPT !.pc = "fail"])
              /\ panic' = IF UnmapPanics(t, l.from .. l.va - 1) THEN "uvmunmap" ELSE panic
              /\ free' = FreeAfter(got, back) /\ data' = DataAfter(Range(got), back)
      /\ UNCHANGED <<proc, calls>>

\* growproc() grows: uvmalloc() from p->sz.
SbrkGrow(p, n) ==
  /\ n > 0 /\ proc[p].sz + n <= MaxSize
  /\ Call(p)
  /\ Goes(p, Allocating([InUser EXCEPT !.call = "sbrk"], "own", proc[p].sz,
                        proc[p].sz + n, {"W"}, "sbrk"))
  /\ UNCHANGED <<free, data, proc, tab, panic>>

SbrkDone(p) ==
  /\ At(p, "alloc") /\ k[p].va >= k[p].to /\ k[p].then = "sbrk"
  /\ proc' = [proc EXCEPT ![p].sz = k[p].newsz]
  /\ Goes(p, InUser)
  /\ UNCHANGED <<free, data, tab, panic, calls>>

SbrkFail(p) ==
  /\ At(p, "fail") /\ k[p].call = "sbrk"
  /\ Goes(p, InUser)
  /\ UNCHANGED <<free, data, proc, tab, panic, calls>>

\* The pages uvmdealloc() drops.
Dropped(oldsz, newsz) == PagesFor(newsz) .. PagesFor(oldsz) - 1

\* growproc() shrinks. A size below zero is a huge one for uvmdealloc(), which
\* then does nothing.
SbrkShrink(p, n) ==
  LET sz == proc[p].sz
      t  == tab[p].own
      S  == IF sz + n >= 0 THEN Dropped(sz, sz + n) ELSE {}
      b  == UserPages(t, S)
  IN  /\ n < 0 /\ Call(p)
      /\ proc' = [proc EXCEPT ![p].sz = IF sz + n >= 0 THEN sz + n ELSE sz]
      /\ tab' = [tab EXCEPT ![p].own = Unmapped(t, S)]
      /\ panic' = IF UnmapPanics(t, S) THEN "uvmunmap" ELSE panic
      /\ free' = FreeAfter(<<>>, b) /\ data' = DataAfter({}, b)
      /\ UNCHANGED k

(* proc_pagetable() and proc_freepagetable() *)

Pagetable(p) ==
  LET l    == k[p]
      tf   == IF l.call = "fork" THEN proc[l.child].tf ELSE proc[p].tf
      got  == Kalloc(3)
      part == IF got = <<>> THEN NoTable
              ELSE WalkAlloc([NoTable EXCEPT !.dir = Root :> got[1]], TRAMPOLINE, Tail(got))
      back == IF Len(got) = 3 THEN None ELSE UvmfreePages(part, 0)
      copy == [l EXCEPT !.pc = "copy", !.va = 0, !.to = PagesFor(proc[p].sz)]
      segs == [l EXCEPT !.pc = "segs", !.seg = 1, !.sz = 0]
  IN  /\ At(p, "pagetable")
      /\ IF Len(got) < 3 THEN Goes(p, [l EXCEPT !.pc = "fail"]) /\ UNCHANGED tab
         ELSE /\ Goes(p, IF l.call = "fork" THEN copy ELSE segs)
              /\ tab' = [tab EXCEPT ![p].new = Fresh(got, tf)]
      /\ free' = FreeAfter(got, back) /\ data' = DataAfter(Range(got), back)
      /\ UNCHANGED <<proc, panic, calls>>

Specials == {TRAMPOLINE, TRAPFRAME}

FreepagetablePages(t, sz) == UvmfreePages(Unmapped(t, Specials), sz)
FreepagetablePanics(t, sz) ==
  UnmapPanics(t, Specials) \/ UvmfreePanics(Unmapped(t, Specials), sz)

(* fork(), exit() and wait() *)

\* allocproc() up to the trapframe page.
Fork(p) ==
  \E c \in {c \in Procs : proc[c].state = "UNUSED"} :
    LET got == Kalloc(1)
    IN  /\ Call(p)
        /\ \A d \in Procs : proc[d].state = "UNUSED" => c <= d
        /\ IF got = <<>> THEN UNCHANGED <<proc, k>>
           ELSE /\ proc' = [proc EXCEPT ![c] = [Unused EXCEPT !.state = "USED", !.tf = got[1]]]
                /\ k' = [k EXCEPT ![c].pc = "embryo",
                                  ![p] = [InUser EXCEPT !.pc = "pagetable", !.call = "fork",
                                                        !.t = "new", !.child = c]]
        /\ free' = FreeAfter(got, None) /\ data' = DataAfter(Range(got), None)
        /\ UNCHANGED <<tab, panic>>

\* freeproc() when proc_pagetable() failed.
ForkFail(p) ==
  LET c == k[p].child
      b == OnePage(proc[c].tf)
  IN  /\ At(p, "fail") /\ k[p].call = "fork"
      /\ proc' = [proc EXCEPT ![c] = Unused]
      /\ k' = [k EXCEPT ![p] = InUser, ![c] = InUser]
      /\ free' = FreeAfter(<<>>, b) /\ data' = DataAfter({}, b)
      /\ UNCHANGED <<tab, panic, calls>>

\* The child's table with page got[1] at va, under the parent's permissions.
Copied(t, va, got) ==
  Mapped(WalkAlloc(t.new, va, Tail(got)), va, Head(got), t.own.leaf[va].perm)

\* A round of uvmcopy().  When it fails, freeproc() acquires the lock of the new
\* thread, which allockthread() left held, and that is a panic.
CopyRound(p) ==
  LET l    == k[p]
      t    == tab[p]
      got  == Kalloc(1 + Len(Missing(t.new, l.va)))
      full == Len(got) = 1 + Len(Missing(t.new, l.va))
      left == IF got = <<>> THEN [t |-> t.new, back |-> None] ELSE NotMapped(p, t.new, got)
      back == AndPages(left.back, UserPages(t.new, 0 .. l.va - 1))
  IN  /\ At(p, "copy") /\ l.va < l.to
      /\ IF ~Valid(t.own, l.va) THEN panic' = "uvmcopy" /\ UNCHANGED <<tab, k, free, data>>
         ELSE IF full
         THEN /\ tab' = [tab EXCEPT ![p].new = Copied(t, l.va, got)]
              /\ Goes(p, [l EXCEPT !.va = @ + 1])
              /\ free' = FreeAfter(got, None)
              /\ data' = [DataAfter(Range(got), None) EXCEPT
                            ![got[1]] = data[t.own.leaf[l.va].pa]]
              /\ UNCHANGED panic
         ELSE /\ tab' = [tab EXCEPT ![p].new = Unmapped(left.t, 0 .. l.va - 1)]
              /\ free' = FreeAfter(got, back) /\ data' = DataAfter(Range(got), back)
              /\ panic' = "acquire"
              /\ UNCHANGED k
      /\ UNCHANGED <<proc, calls>>

ForkDone(p) ==
  LET c == k[p].child
  IN  /\ At(p, "copy") /\ k[p].va >= k[p].to
      /\ proc' = [proc EXCEPT ![c].sz = proc[p].sz, ![c].sp = proc[p].sp]
      /\ tab' = [tab EXCEPT ![c].own = tab[p].new, ![p].new = NoTable]
      /\ k' = [k EXCEPT ![p] = InUser, ![c] = InUser]
      /\ UNCHANGED <<free, data, panic, calls>>

\* exit() leaves the memory to the parent's wait().
Exit(p) ==
  /\ p # 1 /\ Call(p)
  /\ proc' = [proc EXCEPT ![p].state = "ZOMBIE"]
  /\ UNCHANGED <<free, data, tab, k, panic>>

\* The end of wait(): freeproc() of a zombie.
Reap(p) ==
  LET q == proc[p]
      b == AndPages(OnePage(q.tf), FreepagetablePages(tab[p].own, q.sz))
  IN  /\ panic = "" /\ q.state = "ZOMBIE"
      /\ proc' = [proc EXCEPT ![p] = Unused]
      /\ tab' = [tab EXCEPT ![p].own = NoTable]
      /\ panic' = IF FreepagetablePanics(tab[p].own, q.sz) THEN "freeproc" ELSE panic
      /\ free' = FreeAfter(<<>>, b) /\ data' = DataAfter({}, b)
      /\ UNCHANGED <<k, calls>>

\* A call that stores its result in user memory, read() or fstat().
Store(p, w) ==
  /\ Call(p)
  /\ data' = Copyout(tab[p].own, w.at, w.bytes, data)
  /\ UNCHANGED <<free, proc, tab, k, panic>>

(* exec() *)

Exec(p, x) ==
  /\ Call(p)
  /\ IF x.elf THEN Goes(p, [InUser EXCEPT !.pc = "pagetable", !.call = "exec",
                                          !.t = "new", !.x = x])
     ELSE UNCHANGED k
  /\ UNCHANGED <<free, data, proc, tab, panic>>

BadSegment(g) ==
  \/ g.memsz < g.filesz
  \/ (g.vaddr + g.memsz) % ADDRMOD < g.vaddr
  \/ g.vaddr % PGSIZE # 0

\* A round of the loop over the program headers, up to uvmalloc(); a size that
\* is not larger allocates nothing.
Segment(p) ==
  LET l == k[p]
      g == l.x.segs[l.seg]
      end == g.vaddr + g.memsz
  IN  /\ At(p, "segs") /\ l.seg <= Len(l.x.segs)
      /\ Goes(p, CASE ~g.load -> [l EXCEPT !.seg = @ + 1]
                   [] g.load /\ (BadSegment(g) \/ (end = 0 /\ l.sz = 0)) -> [l EXCEPT !.pc = "fail"]
                   [] OTHER -> Allocating(l, "new", l.sz, Max({l.sz, end}), g.perm, "load"))
      /\ UNCHANGED <<free, data, proc, tab, panic, calls>>

\* loadseg(): each page from the file, until a read comes back short.
Loadseg(p) ==
  LET l == k[p]
      g == l.x.segs[l.seg]
      t == tab[p].new
  IN  /\ At(p, "alloc") /\ l.va >= l.to /\ l.then = "load"
      /\ IF ~Complete(t, g.vaddr, g.filesz) THEN panic' = "loadseg" /\ UNCHANGED <<k, data>>
         ELSE /\ data' = Copyout(t, g.vaddr, [i \in 1 .. g.filesz |-> g.byte], data)
              /\ Goes(p, [l EXCEPT !.pc = IF g.short THEN "fail" ELSE "segs",
                                   !.seg = @ + 1, !.sz = l.newsz])
              /\ UNCHANGED panic
      /\ UNCHANGED <<free, proc, tab, calls>>

\* The guard page and the stack page at the next page boundary.
Stack(p) ==
  LET l == k[p]
      top == PGROUNDUP(l.sz) + 2 * PGSIZE
  IN  /\ At(p, "segs") /\ l.seg > Len(l.x.segs)
      /\ Goes(p, Allocating([l EXCEPT !.sz = PGROUNDUP(@)], "new", l.sz, top, {"W"}, "args"))
      /\ UNCHANGED <<free, data, proc, tab, panic, calls>>

Aligned(a) == a - (a % ALIGN)

\* The stack pointer after each of the first argc strings.
ArgAddrs(argv, top) ==
  FoldLeft(LAMBDA sps, s : Append(sps, Aligned(Last(sps) - (Len(s) + 1))), <<top>>, argv)

\* uvmclear() of the page below the stack.
Uvmclear(t, sz) == [t EXCEPT !.leaf[PageOf(sz) - 2].perm = @ \ {"U"}]

\* The arguments go on the stack, and the process gets the new image.
Arguments(p) ==
  LET l    == k[p]
      argv == l.x.argv
      sps  == ArgAddrs(argv, l.newsz)
      ustack == Tail(sps) \o <<0>>
      sp   == Aligned(Last(sps) - Len(ustack))
      t    == Uvmclear(tab[p].new, l.newsz)
      put  == [i \in 1 .. Len(argv) + 1 |-> IF i <= Len(argv) THEN <<sps[i + 1], argv[i] \o <<0>>>>
                                            ELSE <<sp, ustack>>]
      mem  == FoldLeft(LAMBDA m, w : Copyout(t, w[1], w[2], m), data, put)
      ok   == /\ Len(argv) <= MAXARG /\ \A a \in Range(sps) \cup {sp} : a >= l.newsz - PGSIZE
              /\ \A i \in DOMAIN put : Complete(t, put[i][1], Len(put[i][2]))
      back == FreepagetablePages(tab[p].own, proc[p].sz)
  IN  /\ At(p, "alloc") /\ l.va >= l.to /\ l.then = "args"
      /\ IF ~ok
         THEN /\ Goes(p, [l EXCEPT !.pc = "fail", !.sz = l.newsz])
              /\ UNCHANGED <<tab, proc, panic, free, data>>
         ELSE /\ Goes(p, InUser)
              /\ tab' = [tab EXCEPT ![p] = [own |-> t, new |-> NoTable]]
              /\ proc' = [proc EXCEPT ![p].sz = l.newsz, ![p].sp = sp]
              /\ panic' = IF FreepagetablePanics(tab[p].own, proc[p].sz) THEN "freewalk" ELSE panic
              /\ free' = FreeAfter(<<>>, back)
              /\ data' = [pg \in Pages |-> IF back[pg] > 0 THEN Filled(1) ELSE mem[pg]]
      /\ UNCHANGED calls

\* Seeded fault: the size of the segment that failed is counted as mapped.
SizeOnFailNew(l) == l.newsz

\* The size exec() has when it gives up: that of the last uvmalloc() that worked.
SizeOnFail(l) == l.sz

\* The label bad.
ExecFail(p) ==
  LET t == tab[p].new
      b == IF t = NoTable THEN None ELSE FreepagetablePages(t, SizeOnFail(k[p]))
  IN  /\ At(p, "fail") /\ k[p].call = "exec"
      /\ Goes(p, InUser)
      /\ tab' = [tab EXCEPT ![p].new = NoTable]
      /\ panic' = IF t # NoTable /\ FreepagetablePanics(t, SizeOnFail(k[p])) THEN "freewalk" ELSE panic
      /\ free' = FreeAfter(<<>>, b) /\ data' = DataAfter({}, b)
      /\ UNCHANGED <<proc, calls>>

Next == \E p \in Procs :
  \/ \E n \in Increments : SbrkGrow(p, n) \/ SbrkShrink(p, n)
  \/ AllocRound(p) \/ SbrkDone(p) \/ SbrkFail(p)
  \/ Pagetable(p) \/ Fork(p) \/ CopyRound(p) \/ ForkDone(p) \/ ForkFail(p)
  \/ Exit(p) \/ Reap(p)
  \/ \E w \in Writes : Store(p, w)
  \/ \E x \in Programs : Exec(p, x)
  \/ Segment(p) \/ Loadseg(p) \/ Stack(p) \/ Arguments(p) \/ ExecFail(p)

Spec == Init /\ [][Next]_vars

-----------------------------------------------------------------------------

\* The places where page pg is: a table of a page table, user memory, a trapframe.
Holders(p, pg) ==
  LET in(t) == Cardinality({d \in DOMAIN t.dir : t.dir[d] = pg})
               + Cardinality({v \in DOMAIN t.leaf \ {TRAPFRAME} : t.leaf[v].pa = pg})
  IN  in(tab[p].own) + in(tab[p].new) + (IF proc[p].tf = pg THEN 1 ELSE 0)

\* Every page of the machine is in exactly one place, once on kmem.freelist or
\* in one table, one process's memory or one trapframe: whichever allocation of
\* sbrk(), fork() or exec() fails, its error path neither loses a page nor frees
\* one twice, and wait() returns all that a process had.
PagesOwnedOnce ==
  LET places == [pg \in Pages |-> free[pg] + FoldSet(LAMBDA p, c : c + Holders(p, pg), 0, Procs)]
  IN  \E n \in Pools : places = [pg \in Pages |-> IF pg <= n THEN 1 ELSE 0]

\* The page table of a process in user code maps the pages of [0, p->sz), the
\* trampoline and its own trapframe, and nothing else, which is what every later
\* uvmunmap(), uvmcopy() and freewalk() relies on: none of their panics happens.
\* The one panic is that of fork() when uvmcopy() fails.
MapMatchesSize ==
  /\ panic \in {"", "acquire"}
  /\ \A p \in Procs :
       LET t == tab[p].own
       IN  proc[p].state # "UNUSED" /\ k[p].pc = "user" =>
             /\ DOMAIN t.leaf = UserRange(proc[p].sz) \cup Specials
             /\ t.leaf[TRAPFRAME].pa = proc[p].tf
             /\ \A v \in DOMAIN t.leaf : Valid(t, v)

Closed(p) == {v \in UserRange(proc[p].sz) : "U" \notin tab[p].own.leaf[v].perm}
UserByte(p, a) == data[tab[p].own.leaf[PageOf(a)].pa][a % PGSIZE]

\* The address spaces as their processes see them; one that fork() gave no
\* registers is not there yet.
SpaceOf == [p \in Procs |->
  IF proc[p].sp = 0 THEN [mem |-> <<>>, sz |-> -1, closed |-> {}, sp |-> 0]
  ELSE [mem |-> [a \in 0 .. PGROUNDUP(proc[p].sz) - 1 |-> UserByte(p, a)],
        sz |-> proc[p].sz, closed |-> Closed(p), sp |-> proc[p].sp]]

A == INSTANCE AddressSpace WITH space <- SpaceOf

\* Processes have separate memories with the contents they expect, through
\* growproc(), fork(), exec(), copyout() and wait(): a new page is zeroed, a
\* child starts with a copy, a program with its segments and arguments, and a
\* call that fails leaves everything as it was.
ImplementsSpaces == A!Spec

\* copyin() and copyinstr() return the bytes that lie at an address across page
\* boundaries, and fail exactly when a page on the way is out of reach: copyinstr()
\* only counts the pages up to the terminating 0.
CopiesAgree ==
  \A p \in {q \in Procs : proc[q].sp # 0 /\ k[q].pc = "user"}, r \in Reads :
    LET t       == tab[p].own
        a       == r.at
        n       == r.n
        open(i) == a + i < PGROUNDUP(proc[p].sz) /\ PageOf(a + i) \notin Closed(p)
        whole   == \A i \in 0 .. n - 1 : open(i)
        z       == {i \in 0 .. n - 1 : (\A j \in 0 .. i : open(j)) /\ UserByte(p, a + i) = 0}
    IN  /\ Complete(t, a, n) = whole
        /\ whole => Copyin(t, a, n) = [i \in 1 .. n |-> UserByte(p, a + i - 1)]
        /\ GotNull(t, a, n) = (z # {})
        /\ z # {} => Copyinstr(t, a, n) = [i \in 1 .. Min(z) + 1 |-> UserByte(p, a + i - 1)]
=============================================================================
