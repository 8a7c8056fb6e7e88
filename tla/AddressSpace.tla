---------------------------- MODULE AddressSpace ----------------------------
(***************************************************************************)
(* What processes may expect of their memory: each has an address space of *)
(* its own, a row of bytes with some pages out of reach.  sbrk() adds      *)
(* zeroed pages at the end or removes the last ones, fork() copies it,     *)
(* exec() replaces it by a program and its arguments, a write changes the  *)
(* bytes it names and no others, and a call that fails changes nothing.    *)
(***************************************************************************)
EXTENDS Integers, FiniteSets, FiniteSetsExt, SequencesExt

CONSTANTS
  Procs,
  PGSIZE,
  Increments,  \* arguments of sbrk()
  Programs,    \* what exec() loads: images with their arguments
  Writes       \* addresses and bytes of copies into a process

VARIABLE space    \* per process: its bytes, size, closed pages and stack pointer

\* A process that does not exist.
None == [mem |-> <<>>, sz |-> -1, closed |-> {}, sp |-> 0]

RoundUp(n) == ((n + PGSIZE - 1) \div PGSIZE) * PGSIZE
Below(n) == 0 .. RoundUp(n) - 1
Exists(p) == space[p].sz >= 0

\* One process, with one page.
Init == \E p \in Procs :
  /\ space[p].sz = PGSIZE /\ space[p].closed = {} /\ DOMAIN space[p].mem = Below(PGSIZE)
  /\ \A q \in Procs \ {p} : space[q] = None

Resized(s, n) ==
  [mem |-> [a \in Below(n) |-> IF a \in DOMAIN s.mem THEN s.mem[a] ELSE 0],
   sz |-> n, closed |-> {v \in s.closed : v * PGSIZE < RoundUp(n)}, sp |-> s.sp]

Others(p) == \A q \in Procs \ {p} : space'[q] = space[q]

Sbrk(p, n) ==
  /\ Exists(p) /\ space[p].sz + n >= 0 /\ space'[p].sz = space[p].sz + n
  /\ space'[p] = Resized(space[p], space[p].sz + n)
  /\ Others(p)

Fork(p, c) ==
  /\ Exists(p) /\ ~Exists(c)
  /\ space'[c] = space[p] /\ Others(c)

Reap(p) == Exists(p) /\ space'[p] = None /\ Others(p)

\* The bytes of w up to the first page that p cannot reach.
Write(p, w) ==
  LET s      == space[p]
      shut(v) == v \in s.closed \/ v * PGSIZE \notin DOMAIN s.mem
      end    == Min({w.at + Len(w.bytes)} \cup
                    {v * PGSIZE : v \in {u \in w.at \div PGSIZE .. w.at + Len(w.bytes) : shut(u)}})
  IN  /\ Exists(p)
      /\ space'[p] = [s EXCEPT !.mem =
           [a \in DOMAIN @ |-> IF a \in w.at .. end - 1 THEN w.bytes[a - w.at + 1] ELSE @[a]]]
      /\ Others(p)

Loaded(segs) == SelectSeq(segs, LAMBDA g : g.load)
End(segs) == Max({0} \cup {g.vaddr + g.memsz : g \in Range(Loaded(segs))})

\* The byte a program starts with at address a: from the file of the last
\* segment that has one there.
ImageByte(segs, a) ==
  LET has == {i \in DOMAIN segs :
                segs[i].load /\ a \in segs[i].vaddr .. segs[i].vaddr + segs[i].filesz - 1}
  IN  IF has = {} THEN 0 ELSE segs[Max(has)].byte

\* s is an address space in which program x starts: its segments, a closed
\* page, and a stack page with the arguments under the pointers at sp.
Starts(s, x) ==
  LET end == RoundUp(End(x.segs))
      stack == end + PGSIZE .. end + 2 * PGSIZE - 1
  IN  /\ s.sz = end + 2 * PGSIZE /\ DOMAIN s.mem = Below(s.sz)
      /\ s.closed = {end \div PGSIZE}
      /\ \A a \in 0 .. end - 1 : s.mem[a] = ImageByte(x.segs, a)
      /\ s.sp .. s.sp + Len(x.argv) \subseteq stack
      /\ s.mem[s.sp + Len(x.argv)] = 0
      /\ \A i \in DOMAIN x.argv :
           LET q == s.mem[s.sp + i - 1]
           IN  /\ q .. q + Len(x.argv[i]) \subseteq stack
               /\ \A j \in DOMAIN x.argv[i] : s.mem[q + j - 1] = x.argv[i][j]
               /\ s.mem[q + Len(x.argv[i])] = 0

Exec(p, x) ==
  /\ Exists(p) /\ x.elf /\ \A g \in Range(Loaded(x.segs)) : ~g.short
  /\ Starts(space'[p], x) /\ Others(p)

\* A call that fails, or a step inside one.
Fail == UNCHANGED space

Next == Fail \/ \E p \in Procs :
  \/ \E n \in Increments : Sbrk(p, n)
  \/ \E c \in Procs : Fork(p, c)
  \/ Reap(p)
  \/ \E w \in Writes : Write(p, w)
  \/ \E x \in Programs : Exec(p, x)

Spec == Init /\ [][Next]_space
=============================================================================
