---------------------------- MODULE FilesProofs ----------------------------
(***************************************************************************)
(* Files counts the references to open files and to the ends of pipes      *)
(* correctly and strands nobody asleep on a pipe, for any number of        *)
(* processes, descriptors, files and pipes and any size of the pipes: the  *)
(* steps that move references to files, and the theorems.                  *)
(***************************************************************************)
EXTENDS PipeProofs, FiniteSetTheorems, WellFoundedInduction

USE ZenonT(10), SMTT(60)

-----------------------------------------------------------------------------
(* Counting references *)

\* A set of numbers that is not empty has a first.
LEMMA MinIn ==
  ASSUME NEW S \in SUBSET Nat, S # {}
  PROVE  Min(S) \in S
<1> DEFINE R == OpToRel(<, Nat)
<1>1. \E x \in S : \A y \in S : ~(<<y, x>> \in R)
  <2>1. IsWellFoundedOn(R, Nat)
    BY NatLessThanWellFounded
  <2> HIDE DEF R
  <2> QED
    BY <2>1, WFMin
<1>2. PICK x \in S : \A y \in S : ~(<<y, x>> \in R)
  BY <1>1
<1>3. \A y \in S : ~(y < x)
  BY <1>2 DEF OpToRel
<1>4. \A y \in S : x =< y
  BY <1>3
<1> QED
  BY <1>4 DEF Min

\* filealloc() finds a free file.
LEMMA FirstClosedIs ==
  ASSUME \E f \in FileIds : Closed(f)
  PROVE  FirstClosed \in FileIds /\ Closed(FirstClosed)
<1> DEFINE S == {f \in FileIds : Closed(f)}
<1>1. S \subseteq Nat /\ S # {}
  BY Sizes
<1>2. Min(S) \in S
  <2> HIDE DEF S
  <2> QED
    BY <1>1, MinIn
<1> QED
  BY <1>2 DEF FirstClosed

LEMMA FiniteRefs ==
  ASSUME NEW f
  PROVE  /\ IsFiniteSet(Descriptors(f)) /\ Cardinality(Descriptors(f)) \in Nat
         /\ IsFiniteSet(Pending(f)) /\ Cardinality(Pending(f)) \in Nat
<1>1. IsFiniteSet(Fds) /\ IsFiniteSet(Procs)
  BY TableAssumption, FS_Interval, SMTT(60) DEF Fds
<1>2. IsFiniteSet(Procs \X Fds)
  BY <1>1, FS_Product
<1>3. Descriptors(f) \subseteq Procs \X Fds /\ Pending(f) \subseteq Procs
  BY DEF Descriptors, Pending
<1>4. IsFiniteSet(Descriptors(f)) /\ IsFiniteSet(Pending(f))
  BY <1>1, <1>2, <1>3, FS_Subset
<1> QED
  BY <1>4, FS_CardinalityType

\* A reference counts; two of different kinds, or of two processes, count twice.
LEMMA HasRef ==
  ASSUME TypeOK, Counted, NEW f \in FileIds
  PROVE  /\ \A p \in Procs, d \in Fds : ofile[p][d] = f => file[f].ref >= 1
         /\ \A p \in Procs : Lists(p, f) => file[f].ref >= 1
         /\ \A p, q \in Procs, d \in Fds : Lists(p, f) /\ ofile[q][d] = f => file[f].ref >= 2
         /\ \A p, q \in Procs : p # q /\ Lists(p, f) /\ Lists(q, f) => file[f].ref >= 2
<1> DEFINE D == Descriptors(f)
           P == Pending(f)
<1>1. /\ IsFiniteSet(D) /\ Cardinality(D) \in Nat
      /\ IsFiniteSet(P) /\ Cardinality(P) \in Nat
  BY FiniteRefs
<1>2. file[f].ref = Cardinality(D) + Cardinality(P)
  BY DEF Counted
<1>3. ASSUME NEW p \in Procs, NEW d \in Fds, ofile[p][d] = f PROVE Cardinality(D) >= 1
  <2>1. <<p, d>> \in D
    BY <1>3 DEF Descriptors
  <2>2. Cardinality(D) # 0
    <3> HIDE DEF D
    <3> QED
      BY <1>1, <2>1, FS_EmptySet
  <2> HIDE DEF D
  <2> QED
    BY <1>1, <2>2
<1>4. ASSUME NEW p \in Procs, Lists(p, f) PROVE Cardinality(P) >= 1
  <2>1. p \in P
    BY <1>4 DEF Pending, Lists
  <2> HIDE DEF P
  <2>2. Cardinality(P) # 0
    BY <1>1, <2>1, FS_EmptySet
  <2> QED
    BY <1>1, <2>2
<1>5. ASSUME NEW p \in Procs, NEW q \in Procs, p # q, Lists(p, f), Lists(q, f)
      PROVE  Cardinality(P) >= 2
  <2>1. p \in P /\ q \in P
    BY <1>5 DEF Pending, Lists
  <2> HIDE DEF P
  <2>2. IsFiniteSet(P \ {p}) /\ Cardinality(P \ {p}) = Cardinality(P) - 1
    BY <1>1, <2>1, FS_RemoveElement
  <2>3. q \in P \ {p}
    BY <1>5, <2>1
  <2>4. Cardinality(P \ {p}) # 0
    BY <2>2, <2>3, FS_EmptySet
  <2>5. Cardinality(P) # 0
    BY <1>1, <2>1, FS_EmptySet
  <2> QED
    BY <1>1, <2>2, <2>4, <2>5
<1> HIDE DEF D, P
<1> QED
  BY <1>1, <1>2, <1>3, <1>4, <1>5

\* How a step of p on its locals, and on one descriptor, changes the counts.
One(b) == IF b THEN 1 ELSE 0

LEMMA PendingStep ==
  ASSUME NEW p \in Procs, NEW f, \A q \in Procs \ {p} : loc'[q] = loc[q]
  PROVE  Cardinality(Pending(f)') = Cardinality(Pending(f)) + One(Lists(p, f)') - One(Lists(p, f))
<1>1. IsFiniteSet(Pending(f)) /\ Cardinality(Pending(f)) \in Nat
  BY FiniteRefs
<1>2. Pending(f)' = IF Lists(p, f)' THEN Pending(f) \cup {p} ELSE Pending(f) \ {p}
  BY SMTT(60) DEF Pending, Lists
<1>3. p \in Pending(f) <=> Lists(p, f)
  BY DEF Pending, Lists
<1>4. Cardinality(Pending(f) \cup {p}) =
        IF p \in Pending(f) THEN Cardinality(Pending(f)) ELSE Cardinality(Pending(f)) + 1
  BY <1>1, FS_AddElement
<1>5. Cardinality(Pending(f) \ {p}) =
        IF p \in Pending(f) THEN Cardinality(Pending(f)) - 1 ELSE Cardinality(Pending(f))
  BY <1>1, FS_RemoveElement
<1> QED
  BY <1>1, <1>2, <1>3, <1>4, <1>5 DEF One

SetsFd(p, d, x) ==
  \A q \in Procs, e \in Fds : ofile'[q][e] = IF <<q, e>> = <<p, d>> THEN x ELSE ofile[q][e]

LEMMA DescriptorStep ==
  ASSUME NEW p \in Procs, NEW d \in Fds, NEW x, NEW f, SetsFd(p, d, x)
  PROVE  Cardinality(Descriptors(f)') =
           Cardinality(Descriptors(f)) + One(x = f) - One(ofile[p][d] = f)
<1> DEFINE D == Descriptors(f)
<1>1. IsFiniteSet(D) /\ Cardinality(D) \in Nat
  BY FiniteRefs
<1>2. Descriptors(f)' = IF x = f THEN D \cup {<<p, d>>} ELSE D \ {<<p, d>>}
  BY SMTT(60) DEF Descriptors, SetsFd
<1>3. <<p, d>> \in D <=> ofile[p][d] = f
  BY DEF Descriptors
<1> HIDE DEF D
<1>4. Cardinality(D \cup {<<p, d>>}) = IF <<p, d>> \in D THEN Cardinality(D) ELSE Cardinality(D) + 1
  BY <1>1, FS_AddElement
<1>5. Cardinality(D \ {<<p, d>>}) = IF <<p, d>> \in D THEN Cardinality(D) - 1 ELSE Cardinality(D)
  BY <1>1, FS_RemoveElement
<1>6. Cardinality(Descriptors(f)') = Cardinality(D) + One(x = f) - One(ofile[p][d] = f)
  BY <1>1, <1>2, <1>3, <1>4, <1>5 DEF One
<1> QED
  BY <1>6 DEF D

-----------------------------------------------------------------------------
(* read(), write(), close() and exit() of a descriptor *)

\* read() and write() find the descriptor's file open for that end of a pipe.
LEMMA DescriptorIs ==
  ASSUME RefsInv, NEW p \in Procs, NEW d \in Fds, ofile[p][d] # Nobody
  PROVE  LET f == ofile[p][d] IN
         /\ f \in FileIds /\ file[f] \in FileType /\ file[f].type = "FD_PIPE"
         /\ file[f].pipe \in Pages /\ file[f].ref >= 1
<1>1. ofile[p][d] \in FileIds
  BY SMTT(60) DEF RefsInv, TypeOK
<1>2. file[ofile[p][d]].ref >= 1
  BY <1>1, HasRef DEF RefsInv
<1> QED
  BY <1>1, <1>2 DEF RefsInv, TypeOK, FilesSound

LEMMA SysCallStep ==
  ASSUME RefsInv, NEW p \in Procs, NEW d \in Fds, SysRead(p, d) \/ SysWrite(p, d)
  PROVE  RefsInv'
<1> DEFINE f == ofile[p][d]
<1>1. /\ pc[p] = "user" /\ f # Nobody /\ UNCHANGED <<file, ofile, pipe, killed, chan>>
  BY DEF SysRead, SysWrite, InUser
<1>2. f \in FileIds /\ file[f] \in FileType /\ file[f].type = "FD_PIPE" /\ file[f].pipe \in Pages
  BY <1>1, DescriptorIs
<1>3. PICK l \in {"read", "write"}, r \in LocType :
        /\ pc' = [pc EXCEPT ![p] = l] /\ loc' = [loc EXCEPT ![p] = r]
        /\ r.fs = <<>> /\ r.ret = "user" /\ r.pi = file[f].pipe
        /\ file[f].writable <=> l = "write"
  <2>1. CASE SysRead(p, d)
    <3>1. [NoLoc EXCEPT !.pi = file[f].pipe, !.n = ReadSize] \in LocType
      BY <1>2, EmptyRecords, CallAssumption DEF LocType
    <3>2. PICK r \in LocType : r = [NoLoc EXCEPT !.pi = file[f].pipe, !.n = ReadSize]
      BY <3>1
    <3>3. r.fs = <<>> /\ r.ret = "user" /\ r.pi = file[f].pipe
      BY <3>2 DEF NoLoc
    <3>4. pc' = [pc EXCEPT ![p] = "read"] /\ loc' = [loc EXCEPT ![p] = r] /\ ~file[f].writable
      BY <1>2, <2>1, <3>2 DEF SysRead, Goto, Locals
    <3> QED
      BY <3>3, <3>4
  <2>2. CASE SysWrite(p, d)
    <3>1. PICK m \in Messages : Locals(p, [NoLoc EXCEPT !.pi = file[f].pipe, !.msg = m])
      BY <2>2 DEF SysWrite
    <3>2. m \in Seq(Byte)
      <4>1. m \in Seq(Range(m)) /\ Range(m) \subseteq Byte
        BY CallAssumption DEF Byte
      <4> QED
        BY <4>1
    <3>3. [NoLoc EXCEPT !.pi = file[f].pipe, !.msg = m] \in LocType
      BY <1>2, <3>2, EmptyRecords DEF LocType
    <3>4. PICK r \in LocType : r = [NoLoc EXCEPT !.pi = file[f].pipe, !.msg = m]
      BY <3>3
    <3>5. r.fs = <<>> /\ r.ret = "user" /\ r.pi = file[f].pipe
      BY <3>4 DEF NoLoc
    <3>6. pc' = [pc EXCEPT ![p] = "write"] /\ loc' = [loc EXCEPT ![p] = r] /\ file[f].writable
      BY <1>2, <2>2, <3>1, <3>4 DEF SysWrite, Goto, Locals
    <3> QED
      BY <3>5, <3>6
  <2> QED
    BY <2>1, <2>2
<1>4. TypeOK'
  BY <1>1, <1>3 DEF RefsInv, TypeOK, Labels, Reading, Writing
<1>5. Moved(p) /\ pc'[p] = l /\ loc'[p] = r
  BY <1>3 DEF RefsInv, TypeOK, Moved
<1>6. LocalsOK(p)'
  BY <1>2, <1>3, <1>5, SMTT(60) DEF LocalsOK, IsInjective, Idle, Reading, Writing, Allocating
<1>7. CallOK(p)'
  BY ZenonT(60), SMTT(60), <1>1, <1>2, <1>3, <1>5 DEF CallOK, HasEnd, FileHolds, Reading, Writing
<1>8. loc[p].fs = <<>>
  BY <1>1, SMTT(60) DEF RefsInv, LocalsSound, LocalsOK, Idle, NoLoc
<1>9. SameEnds /\ pc[p] # "pipeclose" /\ pc'[p] \notin Allocating \cup {"pipeclose"}
  BY <1>1, <1>5 DEF SameEnds, Open, Allocating
<1>10. (LocalsSound /\ FilesSound /\ Counted /\ EndsSound /\ CallsHold)'
  BY ZenonT(60), SMTT(60), <1>1, <1>3, <1>5, <1>6, <1>7, <1>8, <1>9, Frame
<1> QED
  BY <1>4, <1>10 DEF RefsInv

\* close(), and exit() for each descriptor: the descriptor's reference becomes the
\* reference of the call that closes the file.
LEMMA DropStep ==
  ASSUME RefsInv, NEW p \in Procs, NEW d \in Fds, pc[p] \in {"user", "exit"}, NEW l \in Idle,
         ofile[p][d] # Nobody, ofile' = [ofile EXCEPT ![p][d] = Nobody],
         CloseThen(p, <<ofile[p][d]>>, l),
         l = "none" => \A e \in Fds \ {d} : ofile[p][e] = Nobody,
         UNCHANGED <<file, pipe, killed, chan>>
  PROVE  RefsInv'
<1> DEFINE f == ofile[p][d]
<1>0. TypeOK /\ f \in FileIds /\ <<f>> \in Seq(FileIds) /\ loc[p] = NoLoc /\ Nobody \notin FileIds
  BY DescriptorIs, Sizes, SMTT(60) DEF RefsInv, LocalsSound, LocalsOK, Idle
<1>1. /\ loc' \in [Procs -> LocType] /\ pc' \in [Procs -> Labels] /\ Moved(p)
      /\ loc'[p].fs = <<f>> /\ pc'[p] = "close" /\ loc'[p].ret = l
  <2>1. <<f>> # <<>>
    OBVIOUS
  <2>2. /\ loc' \in [Procs -> LocType] /\ pc' \in [Procs -> Labels] /\ Moved(p)
        /\ loc'[p].fs = <<f>>
        /\ \/ <<f>> = <<>> /\ pc'[p] = l /\ loc'[p] = NoLoc
           \/ <<f>> # <<>> /\ pc'[p] = "close" /\ loc'[p].ret = l
    BY <1>0, Closes, ZenonT(60)
  <2> QED
    BY <2>1, <2>2
<1>2. TypeOK'
  BY <1>0, <1>1 DEF TypeOK
<1>3. /\ ofile'[p][d] = Nobody /\ \A e \in Fds \ {d} : ofile'[p][e] = ofile[p][e]
      /\ \A q \in Procs \ {p} : ofile'[q] = ofile[q]
  BY <1>0 DEF TypeOK
<1>4. OnlyMoves(p)
  BY <1>1, <1>3 DEF OnlyMoves, Moved
<1>5. LocalsSound'
  <2>1. LocalsOK(p)'
    BY <1>1, <1>3, ListOps, SMTT(60) DEF LocalsOK, HasNone, Idle, Reading, Writing, Allocating
  <2> QED
    BY <1>4, <2>1, LocalsKept DEF RefsInv
<1>6. /\ \A g : Lists(p, g)' <=> g = f
      /\ \A g : ~Lists(p, g)
      /\ \A q \in Procs \ {p}, g \in FileIds : Lists(q, g)' <=> Lists(q, g)
  BY <1>0, <1>1, ListOps, SMTT(60) DEF Lists, NoLoc, Moved
<1>7. FilesSound'
  BY <1>1, <1>3, <1>6, SMTT(60) DEF RefsInv, FilesSound, Moved, Allocating
<1>8. Counted'
  <2> SUFFICES ASSUME NEW g \in FileIds
               PROVE  file'[g].ref = Cardinality(Descriptors(g)') + Cardinality(Pending(g)')
    BY DEF Counted
  <2>1. Cardinality(Pending(g)') = Cardinality(Pending(g)) + One(g = f)
    <3>1. Cardinality(Pending(g)') = Cardinality(Pending(g)) + One(Lists(p, g)') - One(Lists(p, g))
      BY <1>1, PendingStep DEF Moved
    <3> QED
      BY <1>6, <3>1, FiniteRefs DEF One
  <2>2. Cardinality(Descriptors(g)') = Cardinality(Descriptors(g)) - One(g = f)
    <3>1. Cardinality(Descriptors(g)')
            = Cardinality(Descriptors(g)) + One(Nobody = g) - One(ofile[p][d] = g)
      <4>1. SetsFd(p, d, Nobody)
        BY <1>0 DEF SetsFd, TypeOK
      <4> QED
        BY <4>1, DescriptorStep, SMTT(60)
    <3> QED
      BY <1>0, <3>1, FiniteRefs DEF One
  <2> QED
    BY <2>1, <2>2, FiniteRefs, SMTT(60) DEF RefsInv, Counted, One
<1>9. EndsSound'
  <2>1. \A g \in FileIds, pi \in Pages, w \in BOOLEAN : FileHolds(g, pi, w)' <=> FileHolds(g, pi, w)
    BY DEF FileHolds
  <2>2. \A q \in Procs, pi \in Pages, w \in BOOLEAN : CloserHolds(q, pi, w)' <=> CloserHolds(q, pi, w)
    BY <1>1 DEF CloserHolds, Moved
  <2>3. SameEnds
    BY DEF SameEnds, Open
  <2> QED
    BY <2>1, <2>2, <2>3, EndsKept DEF RefsInv
<1>10. CallsHold'
  <2>1. CallOK(p)'
    BY <1>1 DEF CallOK, Reading, Writing
  <2> QED
    BY <1>4, <2>1, CallsKept DEF RefsInv
<1> QED
  BY ZenonT(60), SMTT(60), <1>2, <1>5, <1>7, <1>8, <1>9, <1>10 DEF RefsInv

-----------------------------------------------------------------------------
(* pipe() *)

\* filealloc(): a file nobody refers to becomes the call's own.
LEMMA AllocStep ==
  ASSUME RefsInv, NEW p \in Procs, NEW f \in FileIds, Closed(f), NEW r \in LocType, NEW l,
         \/ pc[p] = "user" /\ l = "pipealloc"
         \/ pc[p] = "pipealloc" /\ l = "kalloc",
         file' = Allocated(f), Goto(p, l), loc' = [loc EXCEPT ![p] = r],
         r.fs = Append(loc[p].fs, f), r.ret = "user",
         UNCHANGED <<ofile, pipe, killed, chan>>
  PROVE  RefsInv'
<1>0. /\ TypeOK /\ Counted /\ FilesSound /\ LocalsOK(p) /\ loc[p] \in LocType
      /\ loc[p].fs \in Seq(FileIds)
  BY DEF RefsInv, LocalsSound, TypeOK, LocType
<1>1. Moved(p) /\ pc'[p] = l /\ loc'[p] = r /\ pc' = [pc EXCEPT ![p] = l]
  BY <1>0 DEF TypeOK, Moved, Goto
<1>2. file[f] = FreeFile /\ file[f].ref = 0
  BY <1>0 DEF Closed, FilesSound
<1>3. /\ \A q \in Procs : ~Lists(q, f)
      /\ \A q \in Procs, d \in Fds : ofile[q][d] # f
  BY <1>0, <1>2, HasRef
<1>4. /\ file'[f] \in FileType /\ file'[f].ref = 1 /\ file'[f].type = "FD_NONE"
      /\ \A g \in FileIds \ {f} : file'[g] = file[g]
  <2>1. file'[f] = [file[f] EXCEPT !.ref = 1] /\ \A g \in FileIds \ {f} : file'[g] = file[g]
    BY <1>0 DEF TypeOK, Allocated
  <2>2. file'[f] = [FreeFile EXCEPT !.ref = 1]
    BY <1>2, <2>1
  <2>3. [FreeFile EXCEPT !.ref = 1] \in FileType
    BY EmptyRecords DEF FileType
  <2>4. [FreeFile EXCEPT !.ref = 1].ref = 1 /\ [FreeFile EXCEPT !.ref = 1].type = "FD_NONE"
    BY DEF FreeFile
  <2> QED
    BY <2>1, <2>2, <2>3, <2>4
<1>5. TypeOK'
  <2>1. file' \in [FileIds -> FileType]
    <3>1. file' = [g \in FileIds |-> file'[g]]
      BY <1>0 DEF TypeOK, Allocated
    <3> QED
      BY <1>0, <1>4, <3>1 DEF TypeOK
  <2> QED
    BY <1>0, <1>1, <2>1, ZenonT(60) DEF TypeOK, Labels, Allocating
<1>6. /\ \A g : Lists(p, g)' <=> Lists(p, g) \/ g = f
      /\ \A q \in Procs \ {p}, g \in FileIds : Lists(q, g)' <=> Lists(q, g)
  <2>1. Range(r.fs) = Range(loc[p].fs) \cup {f}
    BY <1>0, ListAppend, SMTT(60)
  <2> QED
    BY <1>1, <2>1 DEF Lists, Moved
<1>7. LocalsSound'
  <2>1. IsInjective(r.fs)
    BY <1>0, <1>3, ListAppend, SMTT(60) DEF LocalsOK, Lists
  <2>2. Len(r.fs) = Len(loc[p].fs) + 1
    BY <1>0
  <2>3. Len(loc[p].fs) = IF l = "pipealloc" THEN 0 ELSE 1
    <3>1. CASE pc[p] = "user" /\ l = "pipealloc"
      <4>1. loc[p].fs = <<>>
        BY <1>0, <3>1 DEF LocalsOK, NoLoc, Idle
      <4> QED
        BY <3>1, <4>1
    <3>2. CASE pc[p] = "pipealloc" /\ l = "kalloc"
      BY <1>0, <3>2 DEF LocalsOK
    <3> QED
      BY <3>1, <3>2
  <2>4. Len(r.fs) = IF l = "pipealloc" THEN 1 ELSE 2
    BY <2>2, <2>3
  <2>5. LocalsOK(p)'
    BY <1>1, <2>1, <2>4 DEF LocalsOK, Idle, Reading, Writing, Allocating
  <2> QED
    BY <1>1, <2>5, LocalsKept DEF RefsInv, OnlyMoves, Moved
<1>8. FilesSound'
  <2>1. \A g \in FileIds : file'[g].ref = 0 => file'[g] = FreeFile
    BY <1>0, <1>4, SMTT(60) DEF FilesSound
  <2>2. \A g \in FileIds : file'[g].type = "FD_PIPE" => file'[g].pipe \in Pages
    BY ZenonT(60), SMTT(60), <1>0, <1>4 DEF FilesSound
  <2>3. ASSUME NEW q \in Procs, NEW g \in FileIds, pc'[q] \in Allocating, Lists(q, g)'
        PROVE  file'[g].ref = 1 /\ (file'[g].type = "FD_PIPE" <=> pc'[q] = "fdalloc")
    <3>1. CASE g = f
      <4>1. q = p
        BY ZenonT(60), SMTT(60), <1>3, <1>6, <2>3, <3>1
      <4> QED
        BY <1>1, <1>4, <3>1, <4>1
    <3>2. CASE g # f /\ q # p
      BY <1>0, <1>1, <1>4, <1>6, <2>3, <3>2, SMTT(60) DEF FilesSound, Moved
    <3>3. CASE g # f /\ q = p
      <4>0. Lists(p, g)
        BY <1>6, <2>3, <3>3
      <4>1. Lists(p, g) /\ pc[p] = "pipealloc"
        <5>1. pc[p] = "user" => loc[p].fs = <<>>
          BY <1>0 DEF LocalsOK, Idle, NoLoc
        <5>2. loc[p].fs # <<>>
          BY <4>0, ListOps DEF Lists
        <5> QED
          BY <4>0, <5>1, <5>2
      <4> QED
        BY <1>0, <1>1, <1>4, <3>3, <4>1, SMTT(60) DEF FilesSound, Allocating
    <3> QED
      BY <3>1, <3>2, <3>3
  <2>4. \A q \in Procs, d \in Fds : ofile'[q][d] # Nobody => file'[ofile'[q][d]].type = "FD_PIPE"
    BY <1>0, <1>3, <1>4, SMTT(60) DEF FilesSound, TypeOK
  <2> QED
    BY ZenonT(60), SMTT(60), <2>1, <2>2, <2>3, <2>4 DEF FilesSound
<1>9. Counted'
  <2> SUFFICES ASSUME NEW g \in FileIds
               PROVE  file'[g].ref = Cardinality(Descriptors(g)') + Cardinality(Pending(g)')
    BY DEF Counted
  <2>1. Cardinality(Pending(g)') = Cardinality(Pending(g)) + One(Lists(p, g)') - One(Lists(p, g))
    BY <1>1, PendingStep DEF Moved
  <2>2. Descriptors(g)' = Descriptors(g)
    BY DEF Descriptors
  <2>3. file[g].ref = Cardinality(Descriptors(g)) + Cardinality(Pending(g))
    BY <1>0 DEF Counted
  <2>4. CASE g = f
    BY <1>2, <1>3, <1>4, <1>6, <2>1, <2>2, <2>3, <2>4, FiniteRefs, SMTT(60) DEF One
  <2>5. CASE g # f
    <3>1. Cardinality(Pending(g)') = Cardinality(Pending(g))
      BY <1>6, <2>1, <2>5, FiniteRefs DEF One
    <3> QED
      BY <1>4, <2>2, <2>3, <2>5, <3>1
  <2> QED
    BY <2>4, <2>5
<1>10. EndsSound'
  <2>1. \A g \in FileIds, pi \in Pages, w \in BOOLEAN : FileHolds(g, pi, w)' <=> FileHolds(g, pi, w)
    <3>1. file[f].type = "FD_NONE"
      BY <1>2 DEF FreeFile
    <3>2. ASSUME NEW g \in FileIds PROVE file'[g] = file[g] \/ {file[g].type, file'[g].type} = {"FD_NONE"}
      BY <1>4, <3>1
    <3> QED
      BY <3>2 DEF FileHolds
  <2>2. \A q \in Procs, pi \in Pages, w \in BOOLEAN : CloserHolds(q, pi, w)' <=> CloserHolds(q, pi, w)
    BY <1>1 DEF CloserHolds, Moved
  <2>3. SameEnds
    BY DEF SameEnds, Open
  <2> QED
    BY <2>1, <2>2, <2>3, EndsKept DEF RefsInv
<1>11. CallsHold'
  <2>1. CallOK(p)'
    BY <1>1 DEF CallOK, Reading, Writing
  <2>2. OnlyMoves(p)
    BY <1>1 DEF OnlyMoves, Moved
  <2>3. \A q \in Procs \ {p}, d \in Fds : ofile[q][d] # Nobody =>
          file'[ofile[q][d]] = file[ofile[q][d]]
    BY <1>0, <1>3, <1>4, SMTT(60) DEF TypeOK
  <2> QED
    BY <2>1, <2>2, <2>3, CallsKept DEF RefsInv
<1> QED
  BY ZenonT(60), SMTT(60), <1>5, <1>7, <1>8, <1>9, <1>10, <1>11 DEF RefsInv

LEMMA SysPipeStep ==
  ASSUME RefsInv, NEW p \in Procs, SysPipe(p)
  PROVE  RefsInv'
<1> DEFINE f == FirstClosed
<1>1. f \in FileIds /\ Closed(f)
  BY FirstClosedIs DEF SysPipe
<1>2. PICK r \in LocType : r = [NoLoc EXCEPT !.fs = <<f>>] /\ r.fs = <<f>> /\ r.ret = "user"
  <2> HIDE DEF f
  <2>1. PICK x \in Seq(FileIds) : x = <<f>>
    <3>1. <<f>> \in Seq(FileIds)
      BY <1>1
    <3> QED
      BY <3>1
  <2>2. [NoLoc EXCEPT !.fs = x] \in LocType
    BY EmptyRecords DEF LocType
  <2>3. [NoLoc EXCEPT !.fs = x].fs = x /\ [NoLoc EXCEPT !.fs = x].ret = "user"
    BY DEF NoLoc
  <2> QED
    BY <2>1, <2>2, <2>3
<1>3. loc[p].fs = <<>> /\ pc[p] = "user"
  BY SMTT(60) DEF SysPipe, InUser, RefsInv, LocalsSound, LocalsOK, Idle, NoLoc
<1>4. r.fs = Append(loc[p].fs, f)
  BY <1>2, <1>3
<1>5. /\ file' = Allocated(f) /\ Goto(p, "pipealloc") /\ loc' = [loc EXCEPT ![p] = r]
      /\ UNCHANGED <<ofile, pipe, killed, chan>>
  BY <1>2 DEF SysPipe, Locals
<1> HIDE DEF f
<1> QED
  BY ZenonT(60), SMTT(60), <1>1, <1>2, <1>3, <1>4, <1>5, AllocStep

LEMMA PipeallocSecondStep ==
  ASSUME RefsInv, NEW p \in Procs, PipeallocSecond(p)
  PROVE  RefsInv'
<1> DEFINE f == FirstClosed
<1>1. pc[p] = "pipealloc" /\ loc[p] \in LocType /\ loc[p].ret = "user"
  BY DEF PipeallocSecond, RefsInv, TypeOK, LocalsSound, LocalsOK, Allocating
<1>2. CASE \E g \in FileIds : Closed(g)
  <2>1. f \in FileIds /\ Closed(f)
    BY <1>2, FirstClosedIs
  <2>2. PICK x \in Seq(FileIds) : x = Append(loc[p].fs, f)
    BY <1>1, <2>1, ListAppend DEF LocType
  <2>3. PICK r \in LocType : r = [loc[p] EXCEPT !.fs = x] /\ r.fs = x /\ r.ret = "user"
    <3>1. /\ [loc[p] EXCEPT !.fs = x] \in LocType
          /\ [loc[p] EXCEPT !.fs = x].fs = x /\ [loc[p] EXCEPT !.fs = x].ret = loc[p].ret
      BY <1>1 DEF LocType
    <3> QED
      BY <1>1, <3>1
  <2>4. /\ file' = Allocated(f) /\ Goto(p, "kalloc") /\ loc' = [loc EXCEPT ![p] = r]
        /\ UNCHANGED <<ofile, pipe, killed, chan>>
    BY <1>2, <2>2, <2>3 DEF PipeallocSecond, Locals
  <2> HIDE DEF f
  <2> QED
    BY <1>1, <2>1, <2>2, <2>3, <2>4, AllocStep
<1>3. CASE ~\E g \in FileIds : Closed(g)
  <2>1. CloseThen(p, loc[p].fs, "user") /\ UNCHANGED <<file, ofile, pipe, killed, chan>>
    BY <1>1, <1>3 DEF PipeallocSecond, CloseAll
  <2> QED
    BY <1>1, <2>1, GiveUp DEF Allocating, Idle
<1> QED
  BY <1>2, <1>3

\* pipealloc() gives its two files the ends of a new pipe, which nobody holds.
LEMMA PipeallocPageStep ==
  ASSUME RefsInv, NEW p \in Procs, PipeallocPage(p)
  PROVE  RefsInv'
<1> DEFINE rf == loc[p].fs[1]
           wf == loc[p].fs[2]
<1>0. TypeOK /\ Counted /\ FilesSound /\ EndsSound /\ LocalsOK(p)
  BY DEF RefsInv, LocalsSound
<1>1. PICK pi \in FreePages :
        /\ pipe' = [pipe EXCEPT ![pi] = [NoPipe EXCEPT !.readopen = TRUE, !.writeopen = TRUE]]
        /\ file' = [file EXCEPT
             ![rf] = [file[rf] EXCEPT !.type = "FD_PIPE", !.writable = FALSE, !.pipe = pi],
             ![wf] = [file[wf] EXCEPT !.type = "FD_PIPE", !.writable = TRUE, !.pipe = pi]]
  <2>1. rf # wf
    <3>1. loc[p].fs \in Seq(FileIds) /\ Len(loc[p].fs) = 2 /\ IsInjective(loc[p].fs)
      BY <1>0 DEF PipeallocPage, LocalsOK, TypeOK, LocType
    <3> QED
      BY <3>1 DEF IsInjective
  <2>2. PICK pi \in FreePages :
          /\ pipe' = [pipe EXCEPT ![pi] = [NoPipe EXCEPT !.readopen = TRUE, !.writeopen = TRUE]]
          /\ file' = [file EXCEPT
               ![rf] = [@ EXCEPT !.type = "FD_PIPE", !.writable = FALSE, !.pipe = pi],
               ![wf] = [@ EXCEPT !.type = "FD_PIPE", !.writable = TRUE, !.pipe = pi]]
    BY DEF PipeallocPage
  <2> HIDE DEF rf, wf
  <2> QED
    BY <1>0, <2>1, <2>2 DEF TypeOK
<1>2. /\ pc[p] = "kalloc" /\ pc' = [pc EXCEPT ![p] = "fdalloc"]
      /\ loc' = loc /\ UNCHANGED <<ofile, killed, chan>>
  BY DEF PipeallocPage, Goto
<1>3. /\ loc[p].fs \in Seq(FileIds) /\ Len(loc[p].fs) = 2 /\ IsInjective(loc[p].fs)
      /\ pi \in Pages /\ ~pipe[pi].readopen /\ ~pipe[pi].writeopen
  BY <1>0, <1>2 DEF TypeOK, LocType, LocalsOK, FreePages
<1>4. rf \in FileIds /\ wf \in FileIds /\ rf # wf /\ \A g : Lists(p, g) <=> g \in {rf, wf}
  BY <1>3, SMTT(60) DEF IsInjective, Lists, Range
<1> HIDE DEF rf, wf
<1>5. \A g \in {rf, wf} : file[g].ref = 1 /\ file[g].type = "FD_NONE"
  BY <1>0, <1>2, <1>4, SMTT(60) DEF FilesSound, Allocating, TypeOK, FileType
<1>6. /\ \A q \in Procs \ {p}, g \in {rf, wf} : ~Lists(q, g)
      /\ \A q \in Procs, d \in Fds, g \in {rf, wf} : ofile[q][d] # g
  BY <1>0, <1>4, <1>5, HasRef
<1>7. /\ file' \in [FileIds -> FileType] /\ \A g \in FileIds \ {rf, wf} : file'[g] = file[g]
      /\ file'[rf].ref = 1 /\ file'[rf].type = "FD_PIPE"
      /\ file'[rf].pipe = pi /\ file'[rf].writable = FALSE
      /\ file'[wf].ref = 1 /\ file'[wf].type = "FD_PIPE"
      /\ file'[wf].pipe = pi /\ file'[wf].writable = TRUE
  <2>1. PICK a \in FileType : /\ a = [file[rf] EXCEPT !.type = "FD_PIPE", !.writable = FALSE, !.pipe = pi]
                              /\ a.ref = 1 /\ a.type = "FD_PIPE" /\ a.pipe = pi /\ a.writable = FALSE
    <3>1. file[rf] \in FileType /\ file[rf].ref = 1
      BY <1>0, <1>4, <1>5 DEF TypeOK
    <3> DEFINE x == [file[rf] EXCEPT !.type = "FD_PIPE", !.writable = FALSE, !.pipe = pi]
    <3>2. /\ x \in FileType /\ x.ref = file[rf].ref /\ x.type = "FD_PIPE" /\ x.pipe = pi
          /\ x.writable = FALSE
      BY <1>3, <3>1 DEF FileType
    <3> QED
      BY <3>1, <3>2
  <2>2. PICK b \in FileType : /\ b = [file[wf] EXCEPT !.type = "FD_PIPE", !.writable = TRUE, !.pipe = pi]
                              /\ b.ref = 1 /\ b.type = "FD_PIPE" /\ b.pipe = pi /\ b.writable = TRUE
    <3>1. file[wf] \in FileType /\ file[wf].ref = 1
      BY <1>0, <1>4, <1>5 DEF TypeOK
    <3> DEFINE x == [file[wf] EXCEPT !.type = "FD_PIPE", !.writable = TRUE, !.pipe = pi]
    <3>2. /\ x \in FileType /\ x.ref = file[wf].ref /\ x.type = "FD_PIPE" /\ x.pipe = pi
          /\ x.writable = TRUE
      BY <1>3, <3>1 DEF FileType
    <3> QED
      BY <3>1, <3>2
  <2>3. file' = [file EXCEPT ![rf] = a, ![wf] = b]
    BY <1>1, <2>1, <2>2
  <2>4. file' \in [FileIds -> FileType] /\ \A g \in FileIds \ {rf, wf} : file'[g] = file[g]
    BY <1>0, <1>4, <2>3 DEF TypeOK
  <2>5. file'[rf] = a /\ file'[wf] = b
    BY <1>0, <1>4, <2>3 DEF TypeOK
  <2> QED
    BY <2>1, <2>2, <2>4, <2>5
<1>8. /\ pipe' \in [Pages -> PipeType] /\ pipe'[pi].readopen = TRUE /\ pipe'[pi].writeopen = TRUE
      /\ \A pj \in Pages \ {pi} : pipe'[pj] = pipe[pj]
  <2>1. PICK a \in PipeType : /\ a = [NoPipe EXCEPT !.readopen = TRUE, !.writeopen = TRUE]
                              /\ a.readopen = TRUE /\ a.writeopen = TRUE
    <3>1. [NoPipe EXCEPT !.readopen = TRUE, !.writeopen = TRUE] \in PipeType
      BY EmptyRecords DEF PipeType
    <3>2. /\ [NoPipe EXCEPT !.readopen = TRUE, !.writeopen = TRUE].readopen = TRUE
          /\ [NoPipe EXCEPT !.readopen = TRUE, !.writeopen = TRUE].writeopen = TRUE
      BY DEF NoPipe
    <3> QED
      BY <3>1, <3>2
  <2>2. pipe' = [pipe EXCEPT ![pi] = a]
    BY <1>1, <2>1
  <2> QED
    BY <1>0, <1>3, <2>1, <2>2 DEF TypeOK
<1>9. TypeOK'
  BY <1>0, <1>2, <1>7, <1>8 DEF TypeOK, Labels, Allocating
<1>10. Moved(p) /\ OnlyMoves(p) /\ pc'[p] = "fdalloc"
  BY <1>0, <1>2 DEF TypeOK, Moved, OnlyMoves
<1>11. LocalsSound'
  <2>1. LocalsOK(p)'
    BY <1>0, <1>2, <1>10 DEF LocalsOK, HasNone, Idle, Reading, Writing, Allocating
  <2> QED
    BY <1>10, <2>1, LocalsKept DEF RefsInv
<1>12. \A q \in Procs, g \in FileIds : Lists(q, g)' <=> Lists(q, g)
  BY <1>2 DEF Lists
<1>13. FilesSound'
  <2>1. \A g \in FileIds : file'[g].ref = 0 => file'[g] = FreeFile
    BY <1>0, <1>7, SMTT(60) DEF FilesSound
  <2>2. \A g \in FileIds : file'[g].type = "FD_PIPE" => file'[g].pipe \in Pages
    BY <1>0, <1>3, <1>7, SMTT(60) DEF FilesSound
  <2>3. ASSUME NEW q \in Procs, NEW g \in FileIds, pc'[q] \in Allocating, Lists(q, g)'
        PROVE  file'[g].ref = 1 /\ (file'[g].type = "FD_PIPE" <=> pc'[q] = "fdalloc")
    <3>1. CASE q = p
      <4>1. g \in {rf, wf}
        BY ZenonT(60), SMTT(60), <1>4, <1>12, <2>3, <3>1
      <4> QED
        BY <1>7, <1>10, <3>1, <4>1
    <3>2. CASE q # p
      <4>1. g \notin {rf, wf} /\ Lists(q, g) /\ pc'[q] = pc[q]
        BY ZenonT(60), SMTT(60), <1>6, <1>10, <1>12, <2>3, <3>2 DEF Moved
      <4> QED
        BY <1>0, <1>7, <2>3, <4>1, SMTT(60) DEF FilesSound
    <3> QED
      BY <3>1, <3>2
  <2>4. \A q \in Procs, d \in Fds : ofile'[q][d] # Nobody => file'[ofile'[q][d]].type = "FD_PIPE"
    BY <1>0, <1>2, <1>6, <1>7, SMTT(60) DEF FilesSound, TypeOK
  <2> QED
    BY <2>1, <2>2, <2>3, <2>4 DEF FilesSound
<1>14. Counted'
  <2>1. ASSUME NEW g \in FileIds
        PROVE  /\ Pending(g)' = Pending(g) /\ Descriptors(g)' = Descriptors(g)
               /\ file'[g].ref = file[g].ref
    BY <1>2, <1>5, <1>7 DEF Pending, Descriptors
  <2> QED
    BY <1>0, <2>1 DEF Counted
<1>15. EndsSound'
  <2>1. \A q \in Procs, pj \in Pages, w \in BOOLEAN : CloserHolds(q, pj, w)' <=> CloserHolds(q, pj, w)
    BY <1>2, <1>10 DEF CloserHolds, Moved
  <2>2. \A w \in BOOLEAN : ~Open(pi, w)
    BY <1>3 DEF Open
  <2>3. \A w \in BOOLEAN : /\ \A q \in Procs : ~CloserHolds(q, pi, w)
                           /\ \A g \in FileIds : ~FileHolds(g, pi, w)
    BY <1>0, <1>3, <2>2 DEF EndsSound
  <2>4. \A w \in BOOLEAN, g \in FileIds : FileHolds(g, pi, w)' <=> g = (IF w THEN wf ELSE rf)
    BY <1>4, <1>7, <2>3 DEF FileHolds
  <2>5. \A w \in BOOLEAN, g \in FileIds, pj \in Pages \ {pi} : FileHolds(g, pj, w)' <=> FileHolds(g, pj, w)
    BY <1>4, <1>5, <1>7 DEF FileHolds
  <2>6. /\ \A w \in BOOLEAN : Open(pi, w)'
        /\ \A w \in BOOLEAN, pj \in Pages \ {pi} : Open(pj, w)' <=> Open(pj, w)
    BY <1>8 DEF Open
  <2> SUFFICES ASSUME NEW pj \in Pages, NEW w \in BOOLEAN
               PROVE  /\ \A f, g \in FileIds : FileHolds(f, pj, w)' /\ FileHolds(g, pj, w)' => f = g
                      /\ \A q, r \in Procs : CloserHolds(q, pj, w)' /\ CloserHolds(r, pj, w)' => q = r
                      /\ \A f \in FileIds, q \in Procs : ~(FileHolds(f, pj, w)' /\ CloserHolds(q, pj, w)')
                      /\ Open(pj, w)' <=> \/ \E f \in FileIds : FileHolds(f, pj, w)'
                                          \/ \E q \in Procs : CloserHolds(q, pj, w)'
    BY DEF EndsSound
  <2>7. CASE pj = pi
    BY ZenonT(60), SMTT(60), <1>4, <2>1, <2>3, <2>4, <2>6, <2>7
  <2>8. CASE pj # pi
    BY <1>0, <2>1, <2>5, <2>6, <2>8, SMTT(60) DEF EndsSound
  <2> QED
    BY <2>7, <2>8
<1>16. CallsHold'
  <2>1. CallOK(p)'
    BY <1>10 DEF CallOK, Reading, Writing
  <2>2. \A q \in Procs \ {p}, d \in Fds : ofile[q][d] # Nobody =>
          file'[ofile[q][d]] = file[ofile[q][d]]
    BY <1>0, <1>6, <1>7, SMTT(60) DEF TypeOK
  <2> QED
    BY <1>10, <2>1, <2>2, CallsKept DEF RefsInv
<1> QED
  BY ZenonT(60), SMTT(60), <1>9, <1>11, <1>13, <1>14, <1>15, <1>16 DEF RefsInv

\* The free descriptors of a process; Min() picks two different ones.
LEMMA FreeFdsAre ==
  ASSUME NEW p \in Procs
  PROVE  /\ FreeFds(p) # {} => Min(FreeFds(p)) \in FreeFds(p)
         /\ Cardinality(FreeFds(p)) >= 2 =>
              LET d == Min(FreeFds(p)) IN
              d \in FreeFds(p) /\ Min(FreeFds(p) \ {d}) \in FreeFds(p) \ {d}
<1> DEFINE S == FreeFds(p)
           d == Min(S)
<1>1. S \subseteq Fds /\ S \in SUBSET Nat
  BY Sizes DEF FreeFds
<1>2. IsFiniteSet(S)
  <2>1. IsFiniteSet(Fds)
    BY TableAssumption, FS_Interval, SMTT(60) DEF Fds
  <2> HIDE DEF S
  <2> QED
    BY <1>1, <2>1, FS_Subset
<1> HIDE DEF S
<1>3. S # {} => d \in S
  BY <1>1, MinIn
<1>4. ASSUME Cardinality(S) >= 2 PROVE d \in S /\ Min(S \ {d}) \in S \ {d}
  <2>1. S # {}
    BY <1>4, FS_EmptySet, SMTT(60)
  <2>2. d \in S
    BY <1>3, <2>1
  <2> HIDE DEF d
  <2>3. Cardinality(S \ {d}) = Cardinality(S) - 1 /\ IsFiniteSet(S \ {d}) /\ Cardinality(S) \in Nat
    BY <1>2, <2>2, FS_RemoveElement, FS_CardinalityType
  <2>4. S \ {d} # {}
    BY <1>4, <2>3, FS_EmptySet, SMTT(60)
  <2>5. S \ {d} \in SUBSET Nat
    BY <1>1
  <2>6. Min(S \ {d}) \in S \ {d}
    BY <2>4, <2>5, MinIn
  <2> QED
    BY <2>2, <2>6
<1> QED
  BY <1>3, <1>4 DEF S

\* sys_pipe() hands both files over to descriptors of the process.
SetsFds(p, d, x, e, y) ==
  \A q \in Procs, c \in Fds : ofile'[q][c] = IF <<q, c>> = <<p, d>> THEN x
                                            ELSE IF <<q, c>> = <<p, e>> THEN y ELSE ofile[q][c]

LEMMA TwoDescriptors ==
  ASSUME NEW p \in Procs, NEW d \in Fds, NEW e \in Fds, NEW x, NEW y, NEW f, SetsFds(p, d, x, e, y),
         d # e, x # y, ofile[p][d] # f, ofile[p][e] # f
  PROVE  Cardinality(Descriptors(f)') = Cardinality(Descriptors(f)) + One(f = x \/ f = y)
<1> DEFINE D == Descriptors(f)
<1>1. IsFiniteSet(D) /\ Cardinality(D) \in Nat
  BY FiniteRefs
<1>2. Descriptors(f)' = IF f = x THEN D \cup {<<p, d>>}
                        ELSE IF f = y THEN D \cup {<<p, e>>} ELSE D
  BY SMTT(60) DEF Descriptors, SetsFds
<1>3. <<p, d>> \notin D /\ <<p, e>> \notin D
  BY DEF Descriptors
<1> HIDE DEF D
<1>4. /\ Cardinality(D \cup {<<p, d>>}) = Cardinality(D) + 1
      /\ Cardinality(D \cup {<<p, e>>}) = Cardinality(D) + 1
  BY <1>1, <1>3, FS_AddElement
<1>5. Cardinality(Descriptors(f)') = Cardinality(D) + One(f = x \/ f = y)
  BY <1>1, <1>2, <1>4 DEF One
<1> QED
  BY <1>5 DEF D

LEMMA InstallStep ==
  ASSUME RefsInv, NEW p \in Procs, pc[p] = "fdalloc", NEW fd0 \in FreeFds(p), NEW fd1 \in FreeFds(p),
         fd0 # fd1, CloseThen(p, <<>>, "user"),
         ofile' = [ofile EXCEPT ![p][fd0] = loc[p].fs[1], ![p][fd1] = loc[p].fs[2]],
         UNCHANGED <<file, pipe, killed, chan>>
  PROVE  RefsInv'
<1> DEFINE rf == loc[p].fs[1]
           wf == loc[p].fs[2]
<1>0. TypeOK /\ Counted /\ FilesSound /\ LocalsOK(p)
  BY DEF RefsInv, LocalsSound
<1>1. /\ loc[p].fs \in Seq(FileIds) /\ Len(loc[p].fs) = 2 /\ IsInjective(loc[p].fs)
      /\ fd0 \in Fds /\ fd1 \in Fds /\ ofile[p][fd0] = Nobody /\ ofile[p][fd1] = Nobody
      /\ Nobody \notin FileIds
  BY ZenonT(60), SMTT(60), <1>0, Sizes DEF TypeOK, LocType, LocalsOK, FreeFds
<1>2. rf \in FileIds /\ wf \in FileIds /\ rf # wf /\ \A g : Lists(p, g) <=> g \in {rf, wf}
  BY <1>1, SMTT(60) DEF IsInjective, Lists, Range
<1> HIDE DEF rf, wf
<1>3. /\ ofile' = [ofile EXCEPT ![p][fd0] = rf, ![p][fd1] = wf]
      /\ ofile \in [Procs -> [Fds -> FileIds \cup {Nobody}]]
  BY <1>0 DEF rf, wf, TypeOK
<1>4. SetsFds(p, fd0, rf, fd1, wf)
  BY <1>1, <1>3, SMTT(60) DEF SetsFds
<1>5. /\ ofile' \in [Procs -> [Fds -> FileIds \cup {Nobody}]]
      /\ \A q \in Procs \ {p} : ofile'[q] = ofile[q]
  BY <1>1, <1>2, <1>3, SMTT(60)
<1>6. /\ loc' \in [Procs -> LocType] /\ pc' \in [Procs -> Labels] /\ Moved(p)
      /\ pc'[p] = "user" /\ loc'[p] = NoLoc /\ loc'[p].fs = <<>>
  <2>1. <<>> \in Seq(FileIds) /\ "user" \in Idle
    BY DEF Idle
  <2> QED
    BY <1>0, <2>1, Closes
<1>7. TypeOK'
  BY <1>0, <1>5, <1>6 DEF TypeOK
<1>8. OnlyMoves(p)
  BY <1>5, <1>6 DEF OnlyMoves, Moved
<1>9. LocalsSound'
  <2>1. LocalsOK(p)'
    BY <1>6, ListOps, SMTT(60) DEF LocalsOK, NoLoc, Idle, Reading, Writing, Allocating
  <2> QED
    BY ZenonT(60), SMTT(60), <1>8, <2>1, LocalsKept DEF RefsInv
<1>10. /\ \A g : ~Lists(p, g)'
       /\ \A q \in Procs \ {p}, g \in FileIds : Lists(q, g)' <=> Lists(q, g)
  BY <1>6, ListOps DEF Lists, Moved
<1>11. file[rf].type = "FD_PIPE" /\ file[wf].type = "FD_PIPE"
  BY <1>0, <1>2 DEF FilesSound, Allocating
<1>12. FilesSound'
  <2>1. ASSUME NEW q \in Procs, NEW d \in Fds, ofile'[q][d] # Nobody
        PROVE  file[ofile'[q][d]].type = "FD_PIPE"
    <3>1. ofile'[q][d] = rf \/ ofile'[q][d] = wf \/ ofile'[q][d] = ofile[q][d]
      <4>1. ofile'[q][d] = IF <<q, d>> = <<p, fd0>> THEN rf
                           ELSE IF <<q, d>> = <<p, fd1>> THEN wf ELSE ofile[q][d]
        BY <1>4 DEF SetsFds
      <4> QED
        BY <4>1
    <3>2. ofile[q][d] # Nobody => file[ofile[q][d]].type = "FD_PIPE"
      BY <1>0 DEF FilesSound
    <3> QED
      BY <1>11, <2>1, <3>1, <3>2
  <2>2. ASSUME NEW q \in Procs, NEW g \in FileIds, pc'[q] \in Allocating, Lists(q, g)'
        PROVE  pc[q] \in Allocating /\ Lists(q, g) /\ pc'[q] = pc[q]
    BY <1>6, <1>10, <2>2 DEF Moved
  <2>3. \A q \in Procs, g \in FileIds : pc'[q] \in Allocating /\ Lists(q, g)' =>
          file[g].ref = 1 /\ (file[g].type = "FD_PIPE" <=> pc'[q] = "fdalloc")
    BY ZenonT(60), SMTT(60), <1>0, <2>2 DEF FilesSound
  <2>4. /\ \A g \in FileIds : file[g].ref = 0 => file[g] = FreeFile
        /\ \A g \in FileIds : file[g].type = "FD_PIPE" => file[g].pipe \in Pages
    BY <1>0 DEF FilesSound
  <2> QED
    BY <2>1, <2>3, <2>4 DEF FilesSound
<1>13. Counted'
  <2> SUFFICES ASSUME NEW g \in FileIds
               PROVE  file'[g].ref = Cardinality(Descriptors(g)') + Cardinality(Pending(g)')
    BY DEF Counted
  <2>1. Cardinality(Pending(g)') = Cardinality(Pending(g)) - One(Lists(p, g))
    <3>1. Cardinality(Pending(g)') = Cardinality(Pending(g)) + One(Lists(p, g)') - One(Lists(p, g))
      BY <1>6, PendingStep DEF Moved
    <3> QED
      BY <1>10, <3>1, FiniteRefs DEF One
  <2>2. Cardinality(Descriptors(g)') = Cardinality(Descriptors(g)) + One(g = rf \/ g = wf)
    BY <1>1, <1>2, <1>4, TwoDescriptors, SMTT(60)
  <2>3. Lists(p, g) <=> g = rf \/ g = wf
    BY <1>2
  <2> QED
    BY <1>0, <2>1, <2>2, <2>3, FiniteRefs DEF Counted, One
<1>14. EndsSound'
  <2>1. \A g \in FileIds, pi \in Pages, w \in BOOLEAN : FileHolds(g, pi, w)' <=> FileHolds(g, pi, w)
    BY DEF FileHolds
  <2>2. \A q \in Procs, pi \in Pages, w \in BOOLEAN : CloserHolds(q, pi, w)' <=> CloserHolds(q, pi, w)
    BY <1>6 DEF CloserHolds, Moved
  <2>3. SameEnds
    BY DEF SameEnds, Open
  <2> QED
    BY <2>1, <2>2, <2>3, EndsKept DEF RefsInv
<1>15. CallsHold'
  <2>1. CallOK(p)'
    BY <1>6 DEF CallOK, Reading, Writing
  <2> QED
    BY <1>8, <2>1, CallsKept DEF RefsInv
<1> QED
  BY <1>7, <1>9, <1>12, <1>13, <1>14, <1>15 DEF RefsInv

LEMMA PipeFdsStep ==
  ASSUME RefsInv, NEW p \in Procs, PipeFds(p)
  PROVE  RefsInv'
<1>1. pc[p] = "fdalloc" /\ loc[p].ret = "user" /\ UNCHANGED <<file, pipe, killed, chan>>
  BY DEF PipeFds, RefsInv, LocalsSound, LocalsOK, Allocating
<1>2. CASE CloseAll(p, loc[p].fs) /\ UNCHANGED ofile
  <2>1. CloseThen(p, loc[p].fs, "user") /\ UNCHANGED <<file, ofile, pipe, killed, chan>>
    BY <1>1, <1>2 DEF CloseAll
  <2> QED
    BY <1>1, <2>1, GiveUp DEF Idle, Allocating
<1>3. CASE ~(CloseAll(p, loc[p].fs) /\ UNCHANGED ofile)
  <2> DEFINE fd0 == Min(FreeFds(p))
             fd1 == Min(FreeFds(p) \ {fd0})
  <2>1. /\ Cardinality(FreeFds(p)) >= 2 /\ CloseThen(p, <<>>, "user")
        /\ ofile' = [ofile EXCEPT ![p][fd0] = loc[p].fs[1], ![p][fd1] = loc[p].fs[2]]
    BY <1>1, <1>3 DEF PipeFds, CloseAll
  <2>2. fd0 \in FreeFds(p) /\ fd1 \in FreeFds(p) /\ fd0 # fd1
    BY <2>1, FreeFdsAre
  <2> HIDE DEF fd0, fd1
  <2> QED
    BY <1>1, <2>1, <2>2, InstallStep
<1> QED
  BY <1>2, <1>3

-----------------------------------------------------------------------------
(* dup(), close(), fork() and exit() *)

\* A process gets copies of descriptors that are in use, and their files count
\* them: nothing else about the files changes.
InUse(f) == \E q \in Procs, e \in Fds : ofile[q][e] = f
Raised(f) == InUse(f) /\ SameFile(f) /\ file'[f].ref > file[f].ref

LEMMA RaiseStep ==
  ASSUME RefsInv, NEW p \in Procs, TypeOK', Counted', UNCHANGED <<pipe, loc>>, OnlyMoves(p),
         loc[p] = NoLoc, pc'[p] = "user", pc[p] \in Idle,
         \A f \in FileIds : file'[f] = file[f] \/ Raised(f),
         \A d \in Fds : ofile'[p][d] # Nobody => InUse(ofile'[p][d])
  PROVE  RefsInv'
<1>0. TypeOK /\ Counted /\ FilesSound
  BY DEF RefsInv
<1>1. \A f \in FileIds : SameFile(f)
  BY DEF SameFile, Raised
<1>2. LocalsSound'
  <2>1. LocalsOK(p)'
    BY ListOps, SMTT(60) DEF LocalsOK, NoLoc, Idle, Reading, Writing, Allocating
  <2> QED
    BY <2>1, LocalsKept DEF RefsInv
<1>3. FilesSound'
  <2>1. ASSUME NEW f \in FileIds, file'[f].ref = 0 PROVE file'[f] = FreeFile
    <3>1. file[f].ref \in Nat /\ file'[f].ref \in Nat
      BY <1>0 DEF TypeOK, FileType
    <3>2. file'[f] = file[f]
      BY <2>1, <3>1 DEF Raised
    <3> QED
      BY <1>0, <2>1, <3>2 DEF FilesSound
  <2>2. ASSUME NEW f \in FileIds, file'[f].type = "FD_PIPE" PROVE file'[f].pipe \in Pages
    BY <1>0, <1>1, <2>2 DEF FilesSound, SameFile
  <2>3. ASSUME NEW q \in Procs, NEW f \in FileIds, pc'[q] \in Allocating, Lists(q, f)'
        PROVE  file'[f].ref = 1 /\ (file'[f].type = "FD_PIPE" <=> pc'[q] = "fdalloc")
    <3>1. q # p /\ pc'[q] = pc[q] /\ Lists(q, f)
      BY <2>3 DEF OnlyMoves, Lists, Allocating
    <3>2. file[f].ref = 1 /\ (file[f].type = "FD_PIPE" <=> pc[q] = "fdalloc")
      BY ZenonT(60), SMTT(60), <1>0, <2>3, <3>1 DEF FilesSound
    <3>3. ~InUse(f)
      BY <1>0, <3>1, <3>2, HasRef, SMTT(60) DEF InUse
    <3> QED
      BY <3>1, <3>2, <3>3 DEF Raised
  <2>4. ASSUME NEW q \in Procs, NEW d \in Fds, ofile'[q][d] # Nobody
        PROVE  file'[ofile'[q][d]].type = "FD_PIPE"
    <3>1. InUse(ofile'[q][d])
      BY <2>4, SMTT(60) DEF OnlyMoves, InUse
    <3>2. PICK r \in Procs, e \in Fds : ofile[r][e] = ofile'[q][d]
      BY <3>1 DEF InUse
    <3>3. ofile[r][e] \in FileIds /\ file[ofile[r][e]].type = "FD_PIPE"
      BY <2>4, <3>2, DescriptorIs
    <3> QED
      BY ZenonT(60), SMTT(60), <1>1, <3>2, <3>3 DEF SameFile
  <2> QED
    BY <2>1, <2>2, <2>3, <2>4 DEF FilesSound
<1>4. \A f \in FileIds, pi \in Pages, w \in BOOLEAN : FileHolds(f, pi, w)' <=> FileHolds(f, pi, w)
  BY <1>1 DEF FileHolds, SameFile
<1>5. EndsSound'
  <2>1. \A q \in Procs, pi \in Pages, w \in BOOLEAN : CloserHolds(q, pi, w)' <=> CloserHolds(q, pi, w)
    BY DEF CloserHolds, OnlyMoves, Idle
  <2>2. SameEnds
    BY DEF SameEnds, Open
  <2> QED
    BY ZenonT(60), SMTT(60), <1>4, <2>1, <2>2, EndsKept DEF RefsInv
<1>6. CallsHold'
  <2>1. ASSUME NEW q \in Procs, NEW w \in BOOLEAN, q # p, HasEnd(q, w) PROVE HasEnd(q, w)'
    <3>1. PICK d \in Fds : ofile[q][d] # Nobody /\ FileHolds(ofile[q][d], loc[q].pi, w)
      BY <2>1 DEF HasEnd
    <3>2. ofile[q][d] \in FileIds /\ ofile'[q][d] = ofile[q][d]
      BY <1>0, <2>1, <3>1, SMTT(60) DEF TypeOK, OnlyMoves
    <3>3. FileHolds(ofile[q][d], loc[q].pi, w)'
      BY <1>1, <3>1, <3>2 DEF FileHolds, SameFile
    <3> QED
      BY <3>1, <3>2, <3>3 DEF HasEnd
  <2>2. ASSUME NEW q \in Procs PROVE CallOK(q)'
    <3>1. CASE q = p
      BY <3>1 DEF CallOK, Reading, Writing
    <3>2. CASE q # p
      BY <2>1, <3>2 DEF RefsInv, CallsHold, CallOK, OnlyMoves
    <3> QED
      BY <3>1, <3>2
  <2> QED
    BY <2>2 DEF CallsHold
<1> QED
  BY ZenonT(60), SMTT(60), <1>2, <1>3, <1>5, <1>6 DEF RefsInv

LEMMA SysDupStep ==
  ASSUME RefsInv, NEW p \in Procs, NEW d \in Fds, SysDup(p, d)
  PROVE  RefsInv'
<1> DEFINE f == ofile[p][d]
           e == Min(FreeFds(p))
           r == [file[f] EXCEPT !.ref = file[f].ref + 1]
<1>0. TypeOK /\ Counted /\ pc[p] = "user" /\ f # Nobody /\ UNCHANGED <<pipe, killed, loc, chan>>
  BY DEF SysDup, InUser, RefsInv
<1>1. f \in FileIds /\ file[f] \in FileType /\ file[f].ref >= 1
  BY <1>0, DescriptorIs
<1>2. e \in FreeFds(p) /\ ofile' = [ofile EXCEPT ![p][e] = f]
  BY FreeFdsAre DEF SysDup
<1>3. e \in Fds /\ ofile[p][e] = Nobody
  BY <1>2 DEF FreeFds
<1>4. pc' = pc /\ file' = [file EXCEPT ![f] = r]
  BY <1>0, <1>1, SMTT(60) DEF SysDup, TypeOK, FileType
<1>5. /\ r \in FileType /\ r.ref = file[f].ref + 1 /\ r.type = file[f].type
      /\ r.writable = file[f].writable /\ r.pipe = file[f].pipe
  BY <1>1, SMTT(60) DEF FileType
<1>6. file[f].ref \in Nat
  BY <1>1 DEF FileType
<1> HIDE DEF r, e
<1>7. TypeOK'
  BY ZenonT(60), SMTT(60), <1>0, <1>1, <1>2, <1>3, <1>4, <1>5 DEF TypeOK
<1>8. /\ file'[f] = r /\ \A g \in FileIds \ {f} : file'[g] = file[g]
      /\ ofile'[p][e] = f /\ \A c \in Fds \ {e} : ofile'[p][c] = ofile[p][c]
      /\ \A q \in Procs \ {p} : ofile'[q] = ofile[q]
  BY ZenonT(60), SMTT(60), <1>0, <1>1, <1>2, <1>3, <1>4 DEF TypeOK
<1>9. Counted'
  <2> SUFFICES ASSUME NEW g \in FileIds
               PROVE  file'[g].ref = Cardinality(Descriptors(g)') + Cardinality(Pending(g)')
    BY DEF Counted
  <2>1. Pending(g)' = Pending(g)
    BY <1>0 DEF Pending
  <2>2. Cardinality(Descriptors(g)') = Cardinality(Descriptors(g)) + One(f = g)
    <3>1. SetsFd(p, e, f)
      BY <1>3, <1>8 DEF SetsFd
    <3>2. Cardinality(Descriptors(g)')
            = Cardinality(Descriptors(g)) + One(f = g) - One(ofile[p][e] = g)
      BY <1>3, <3>1, DescriptorStep, SMTT(60)
    <3> QED
      BY <1>3, <3>2, Sizes, FiniteRefs DEF One
  <2>3. file'[g].ref = file[g].ref + One(f = g)
    BY <1>0, <1>5, <1>8, SMTT(60) DEF TypeOK, FileType, One
  <2> QED
    BY <1>0, <2>1, <2>2, <2>3, FiniteRefs DEF Counted, One
<1>10. \A g \in FileIds : file'[g] = file[g] \/ Raised(g)
  BY <1>5, <1>6, <1>8, SMTT(60) DEF Raised, SameFile, InUse
<1>11. \A c \in Fds : ofile'[p][c] # Nobody => InUse(ofile'[p][c])
  BY <1>8 DEF InUse
<1>12. OnlyMoves(p) /\ pc'[p] = "user" /\ pc[p] \in Idle /\ loc[p] = NoLoc
  BY <1>0, <1>4, <1>8 DEF OnlyMoves, Idle, RefsInv, LocalsSound, LocalsOK
<1> QED
  BY ZenonT(60), SMTT(60), <1>0, <1>7, <1>9, <1>10, <1>11, <1>12, RaiseStep

LEMMA SysCloseStep ==
  ASSUME RefsInv, NEW p \in Procs, NEW d \in Fds, SysClose(p, d)
  PROVE  RefsInv'
<1>1. /\ pc[p] = "user" /\ ofile[p][d] # Nobody /\ UNCHANGED <<file, pipe, killed, chan>>
      /\ ofile' = [ofile EXCEPT ![p][d] = Nobody] /\ CloseThen(p, <<ofile[p][d]>>, loc[p].ret)
  BY DEF SysClose, InUser, CloseAll
<1>2. loc[p].ret = "user"
  BY <1>1, SMTT(60) DEF RefsInv, LocalsSound, LocalsOK, Idle, NoLoc
<1> QED
  BY <1>1, <1>2, DropStep DEF Idle

LEMMA ExitStep ==
  ASSUME RefsInv, NEW p \in Procs, Exit(p)
  PROVE  RefsInv'
<1> DEFINE open == {d \in Fds : ofile[p][d] # Nobody}
           d == Min(open)
<1>1. pc[p] \in {"user", "exit"} /\ UNCHANGED <<file, pipe, killed, chan>>
  BY DEF Exit
<1>2. CASE open = {}
  <2>1. CloseThen(p, <<>>, "none") /\ UNCHANGED ofile /\ HasNone(p)
    BY ZenonT(60), SMTT(60), <1>2 DEF Exit, HasNone
  <2>2. loc[p].fs = <<>>
    BY <1>1, SMTT(60) DEF RefsInv, LocalsSound, LocalsOK, Idle, NoLoc
  <2> QED
    BY <1>1, <2>1, <2>2, GiveUp DEF Idle
<1>3. CASE open # {}
  <2>1. open \in SUBSET Nat
    BY Sizes
  <2>2. d \in open
    <3> HIDE DEF open
    <3> QED
      BY <1>3, <2>1, MinIn
  <2>3. PICK l \in {"none", "exit"} :
          /\ CloseThen(p, <<ofile[p][d]>>, l) /\ ofile' = [ofile EXCEPT ![p][d] = Nobody]
          /\ l = IF open = {d} THEN "none" ELSE "exit"
    BY <1>3 DEF Exit
  <2>4. d \in Fds /\ ofile[p][d] # Nobody /\ (l = "none" => \A e \in Fds \ {d} : ofile[p][e] = Nobody)
    BY <2>2, <2>3
  <2> HIDE DEF d, open
  <2> QED
    BY <1>1, <2>3, <2>4, DropStep DEF Idle
<1> QED
  BY <1>2, <1>3

\* fork(): the child's descriptors are as many as the parent's.
Copies(p, q) ==
  /\ ofile'[q] = ofile[p] /\ \A r \in Procs \ {q} : ofile'[r] = ofile[r]
  /\ \A d \in Fds : ofile[q][d] = Nobody

LEMMA ForkCounts ==
  ASSUME NEW p \in Procs, NEW q \in Procs, p # q, Copies(p, q), NEW f, f # Nobody
  PROVE  /\ Cardinality(Descriptors(f)') = Cardinality(Descriptors(f)) + RefsOf(p, f)
         /\ RefsOf(p, f) \in Nat /\ (RefsOf(p, f) = 0 \/ InUse(f))
<1> DEFINE D == Descriptors(f)
           S == {d \in Fds : ofile[p][d] = f}
<1>1. IsFiniteSet(D) /\ Cardinality(D) \in Nat
  BY FiniteRefs
<1>2. IsFiniteSet(S) /\ Cardinality(S) \in Nat
  <2>1. IsFiniteSet(Fds) /\ S \subseteq Fds
    BY TableAssumption, FS_Interval, SMTT(60) DEF Fds
  <2> HIDE DEF S
  <2> QED
    BY <2>1, FS_Subset, FS_CardinalityType
<1>3. RefsOf(p, f) = Cardinality(S)
  BY DEF RefsOf
<1>4. Descriptors(f)' = D \cup ({q} \X S)
  BY ZenonT(60) DEF Descriptors, Copies
<1>5. D \cap ({q} \X S) = {}
  BY DEF Descriptors, Copies
<1>6. S # {} => InUse(f)
  BY DEF InUse
<1> HIDE DEF D, S
<1>7. IsFiniteSet({q} \X S) /\ Cardinality({q} \X S) = Cardinality(S)
  <2>1. IsFiniteSet({q}) /\ Cardinality({q}) = 1
    BY FS_Singleton
  <2>2. IsFiniteSet({q} \X S) /\ Cardinality({q} \X S) = Cardinality({q}) * Cardinality(S)
    BY <1>2, <2>1, FS_Product
  <2> QED
    BY <1>2, <2>1, <2>2
<1>8. Cardinality(D \cup ({q} \X S)) = Cardinality(D) + Cardinality(S)
  <2>1. Cardinality(D \cup ({q} \X S))
          = Cardinality(D) + Cardinality({q} \X S) - Cardinality(D \cap ({q} \X S))
    BY <1>1, <1>7, FS_Union
  <2>2. Cardinality(D \cap ({q} \X S)) = 0
    BY <1>5, FS_EmptySet
  <2> QED
    BY <1>1, <1>2, <1>7, <2>1, <2>2, SMTT(60)
<1>9. Cardinality(S) = 0 \/ InUse(f)
  BY <1>6, FS_EmptySet
<1> QED
  BY <1>2, <1>3, <1>4, <1>8, <1>9 DEF D

LEMMA ForkStep ==
  ASSUME RefsInv, NEW p \in Procs, NEW q \in Procs, Fork(p, q)
  PROVE  RefsInv'
<1>0. /\ TypeOK /\ Counted /\ LocalsOK(q) /\ pc[p] = "user" /\ pc[q] = "none" /\ p # q
      /\ UNCHANGED <<pipe, loc, chan>>
  BY DEF Fork, InUser, RefsInv, LocalsSound
<1>1. /\ ofile' = [ofile EXCEPT ![q] = ofile[p]] /\ killed' = [killed EXCEPT ![q] = FALSE]
      /\ pc' = [pc EXCEPT ![q] = "user"]
  BY DEF Fork, Goto
<1>2. loc[q] = NoLoc /\ HasNone(q)
  BY <1>0 DEF LocalsOK, Idle
<1>3. Copies(p, q)
  BY <1>0, <1>1, <1>2 DEF Copies, HasNone, TypeOK
<1>4. ASSUME NEW f \in FileIds
      PROVE  /\ Cardinality(Descriptors(f)') = Cardinality(Descriptors(f)) + RefsOf(p, f)
             /\ RefsOf(p, f) \in Nat /\ (RefsOf(p, f) = 0 \/ InUse(f))
  BY <1>0, <1>3, Sizes, ForkCounts
<1>5. ASSUME NEW f \in FileIds
      PROVE  /\ file'[f] \in FileType /\ SameFile(f) /\ file'[f].ref = file[f].ref + RefsOf(p, f)
             /\ (RefsOf(p, f) = 0 => file'[f] = file[f])
  <2> DEFINE n == RefsOf(p, f)
             r == [file[f] EXCEPT !.ref = file[f].ref + n]
  <2>1. file[f] \in FileType /\ n \in Nat
    BY <1>0, <1>4 DEF TypeOK
  <2>2. file'[f] = r
    BY DEF Fork
  <2> HIDE DEF n
  <2>3. /\ r \in FileType /\ r.ref = file[f].ref + n /\ r.type = file[f].type
        /\ r.writable = file[f].writable /\ r.pipe = file[f].pipe /\ (n = 0 => r = file[f])
    BY <2>1, SMTT(60) DEF FileType
  <2> HIDE DEF r
  <2>4. SameFile(f)
    BY <2>2, <2>3 DEF SameFile
  <2> QED
    BY <2>2, <2>3, <2>4 DEF n
<1>6. TypeOK'
  <2>1. file' \in [FileIds -> FileType]
    <3>1. file' = [f \in FileIds |-> file'[f]]
      BY DEF Fork
    <3> QED
      BY <1>5, <3>1
  <2>2. pc' \in [Procs -> Labels]
    BY <1>0, <1>1 DEF TypeOK, Labels, Idle
  <2> QED
    BY <1>0, <1>1, <2>1, <2>2 DEF TypeOK
<1>7. Counted'
  <2>1. \A f \in FileIds : Pending(f)' = Pending(f)
    BY <1>0 DEF Pending
  <2> QED
    BY <1>0, <1>4, <1>5, <2>1, FiniteRefs, SMTT(60) DEF Counted
<1>8. \A f \in FileIds : file'[f] = file[f] \/ Raised(f)
  <2>1. \A f \in FileIds : file[f].ref \in Nat
    BY <1>0 DEF TypeOK, FileType
  <2> QED
    BY <1>4, <1>5, <2>1 DEF Raised
<1>9. \A d \in Fds : ofile'[q][d] # Nobody => InUse(ofile'[q][d])
  BY <1>3 DEF Copies, InUse
<1>10. OnlyMoves(q) /\ pc'[q] = "user" /\ pc[q] \in Idle
  BY <1>0, <1>1 DEF OnlyMoves, TypeOK, Idle
<1> QED
  BY ZenonT(60), SMTT(60), <1>0, <1>2, <1>6, <1>7, <1>8, <1>9, <1>10, RaiseStep

-----------------------------------------------------------------------------
(* fileclose() *)

\* What fileclose() of the first file f of p's list does, whatever comes next.
Closing(p, f) ==
  /\ pc[p] = "close" /\ f = Head(loc[p].fs) /\ loc'[p].fs = Tail(loc[p].fs)
  /\ file' = [file EXCEPT ![f] = Dropped(f)] /\ UNCHANGED <<ofile, pipe, killed, chan>>
  /\ loc' \in [Procs -> LocType] /\ pc' \in [Procs -> Labels] /\ Moved(p)
  /\ pc'[p] \in Idle \cup {"close", "pipeclose"}

LEMMA HeadIs ==
  ASSUME RefsInv, NEW p \in Procs, pc[p] = "close"
  PROVE  LET f == Head(loc[p].fs) IN
         /\ f \in FileIds /\ file[f] \in FileType /\ Lists(p, f) /\ file[f].ref >= 1
         /\ Tail(loc[p].fs) \in Seq(FileIds) /\ IsInjective(Tail(loc[p].fs))
         /\ \A g : g \in Range(Tail(loc[p].fs)) <=> Lists(p, g) /\ g # f
<1>1. loc[p].fs \in Seq(FileIds) /\ loc[p].fs # <<>> /\ IsInjective(loc[p].fs)
  BY DEF RefsInv, TypeOK, LocType, LocalsSound, LocalsOK
<1> DEFINE s == loc[p].fs
<1>2. /\ Head(s) \in FileIds /\ Head(s) \in Range(s) /\ Tail(s) \in Seq(FileIds)
      /\ Range(Tail(s)) = Range(s) \ {Head(s)} /\ IsInjective(Tail(s))
  <2> HIDE DEF s
  <2> QED
    BY <1>1, ListTail DEF s
<1>3. Lists(p, Head(s)) /\ \A g : g \in Range(Tail(s)) <=> Lists(p, g) /\ g # Head(s)
  BY <1>2 DEF Lists
<1>4. file[Head(s)].ref >= 1 /\ file[Head(s)] \in FileType
  <2>1. \E f \in FileIds : f = Head(s)
    BY <1>2
  <2> QED
    BY <1>3, <2>1, HasRef DEF RefsInv, TypeOK
<1> QED
  BY ZenonT(60), SMTT(60), <1>2, <1>3, <1>4

LEMMA ClosingStep ==
  ASSUME RefsInv, NEW p \in Procs, NEW f \in FileIds, Closing(p, f), LocalsOK(p)', EndsSound'
  PROVE  RefsInv'
<1>0. TypeOK /\ Counted /\ FilesSound
  BY DEF RefsInv
<1>1. /\ file[f] \in FileType /\ Lists(p, f) /\ file[f].ref >= 1
      /\ \A g : g \in Range(Tail(loc[p].fs)) <=> Lists(p, g) /\ g # f
  BY HeadIs DEF Closing
<1>2. /\ Dropped(f) \in FileType /\ Dropped(f).ref = file[f].ref - 1
      /\ \/ file[f].ref = 1 /\ Dropped(f) = FreeFile /\ Dropped(f).type = "FD_NONE"
         \/ /\ file[f].ref > 1 /\ Dropped(f).type = file[f].type
            /\ Dropped(f).writable = file[f].writable /\ Dropped(f).pipe = file[f].pipe
  BY <1>1, DroppedIs
<1>3. file[f].ref \in Nat
  BY <1>1 DEF FileType
<1>4. /\ file' \in [FileIds -> FileType] /\ file'[f] = Dropped(f)
      /\ \A g \in FileIds \ {f} : file'[g] = file[g]
  BY <1>0, <1>2 DEF Closing, TypeOK
<1>5. TypeOK'
  BY <1>0, <1>4 DEF TypeOK, Closing
<1>6. OnlyMoves(p)
  BY DEF OnlyMoves, Closing, Moved
<1>7. LocalsSound'
  BY <1>6, LocalsKept DEF RefsInv
<1>8. /\ \A g : Lists(p, g)' <=> Lists(p, g) /\ g # f
      /\ \A q \in Procs \ {p}, g \in FileIds : Lists(q, g)' <=> Lists(q, g)
  BY <1>1 DEF Closing, Lists, Moved
<1>9. \A q \in Procs, d \in Fds : ofile[q][d] = f => file[f].ref > 1
  BY <1>0, <1>1, <1>3, HasRef
<1>10. \A q \in Procs, d \in Fds : ofile[q][d] # Nobody => SameFile(ofile[q][d])
  <2> SUFFICES ASSUME NEW q \in Procs, NEW d \in Fds, ofile[q][d] # Nobody
               PROVE  SameFile(ofile[q][d])
    OBVIOUS
  <2>1. ofile[q][d] \in FileIds
    BY <1>0, SMTT(60) DEF TypeOK
  <2>2. CASE ofile[q][d] = f
    BY <1>2, <1>3, <1>4, <1>9, <2>2, SMTT(60) DEF SameFile
  <2>3. CASE ofile[q][d] # f
    BY <1>4, <2>1, <2>3 DEF SameFile
  <2> QED
    BY <2>2, <2>3
<1>11. FilesSound'
  <2>1. ASSUME NEW g \in FileIds, file'[g].ref = 0 PROVE file'[g] = FreeFile
    BY <1>0, <1>2, <1>3, <1>4, <2>1, SMTT(60) DEF FilesSound
  <2>2. ASSUME NEW g \in FileIds, file'[g].type = "FD_PIPE" PROVE file'[g].pipe \in Pages
    BY <1>0, <1>2, <1>4, <2>2, SMTT(60) DEF FilesSound
  <2>3. ASSUME NEW q \in Procs, NEW g \in FileIds, pc'[q] \in Allocating, Lists(q, g)'
        PROVE  file'[g].ref = 1 /\ (file'[g].type = "FD_PIPE" <=> pc'[q] = "fdalloc")
    <3>1. q # p /\ pc'[q] = pc[q] /\ Lists(q, g)
      BY <1>8, <2>3 DEF Closing, Moved, Allocating, Idle
    <3>2. file[g].ref = 1 /\ (file[g].type = "FD_PIPE" <=> pc[q] = "fdalloc")
      BY <1>0, <2>3, <3>1 DEF FilesSound
    <3>3. g # f
      <4>1. g = f => file[f].ref >= 2
        BY <1>0, <1>1, <3>1, HasRef
      <4> QED
        BY <3>2, <4>1
    <3> QED
      BY ZenonT(60), SMTT(60), <1>4, <3>1, <3>2, <3>3
  <2>4. ASSUME NEW q \in Procs, NEW d \in Fds, ofile'[q][d] # Nobody
        PROVE  file'[ofile'[q][d]].type = "FD_PIPE"
    <3>1. ofile' = ofile
      BY DEF Closing
    <3> QED
      BY <1>0, <1>10, <2>4, <3>1, SMTT(60) DEF FilesSound, SameFile
  <2> QED
    BY ZenonT(60), SMTT(60), <2>1, <2>2, <2>3, <2>4 DEF FilesSound
<1>12. Counted'
  <2> SUFFICES ASSUME NEW g \in FileIds
               PROVE  file'[g].ref = Cardinality(Descriptors(g)') + Cardinality(Pending(g)')
    BY DEF Counted
  <2>1. Cardinality(Pending(g)') = Cardinality(Pending(g)) - One(g = f)
    <3>1. Cardinality(Pending(g)') = Cardinality(Pending(g)) + One(Lists(p, g)') - One(Lists(p, g))
      BY PendingStep DEF Closing, Moved
    <3> QED
      BY <1>1, <1>8, <3>1, FiniteRefs DEF One
  <2>2. Descriptors(g)' = Descriptors(g)
    BY DEF Descriptors, Closing
  <2>3. file'[g].ref = file[g].ref - One(g = f)
    BY <1>0, <1>2, <1>3, <1>4, SMTT(60) DEF TypeOK, FileType, One
  <2> QED
    BY <1>0, <2>1, <2>2, <2>3, FiniteRefs DEF Counted, One
<1>13. CallsHold'
  <2>1. CallOK(p)'
    BY DEF CallOK, Closing, Reading, Writing, Idle
  <2> QED
    BY ZenonT(60), SMTT(60), <1>6, <1>10, <2>1, CallsStill DEF RefsInv
<1> QED
  BY ZenonT(60), SMTT(60), <1>5, <1>7, <1>11, <1>12, <1>13 DEF RefsInv

LEMMA FilecloseStep ==
  ASSUME RefsInv, NEW p \in Procs, Fileclose(p)
  PROVE  RefsInv'
<1> DEFINE f == Head(loc[p].fs)
           rest == Tail(loc[p].fs)
<1>0. TypeOK /\ FilesSound /\ EndsSound /\ LocalsOK(p) /\ pc[p] = "close"
  BY DEF Fileclose, RefsInv, LocalsSound
<1>1. /\ f \in FileIds /\ file[f] \in FileType /\ Lists(p, f) /\ file[f].ref >= 1
      /\ rest \in Seq(FileIds) /\ IsInjective(rest)
  BY <1>0, HeadIs
<1>2. /\ Dropped(f) \in FileType /\ Dropped(f).ref = file[f].ref - 1
      /\ \/ file[f].ref = 1 /\ Dropped(f) = FreeFile /\ Dropped(f).type = "FD_NONE"
         \/ /\ file[f].ref > 1 /\ Dropped(f).type = file[f].type
            /\ Dropped(f).writable = file[f].writable /\ Dropped(f).pipe = file[f].pipe
  <2> HIDE DEF f
  <2> QED
    BY ZenonT(60), SMTT(60), <1>1, DroppedIs
<1>3. file[f].ref \in Nat /\ ~(file[f].ref < 1)
  BY <1>1, SMTT(60) DEF FileType
<1>4. file' = [file EXCEPT ![f] = Dropped(f)] /\ UNCHANGED <<ofile, pipe, killed, chan>>
  BY <1>3 DEF Fileclose
<1>5. file'[f] = Dropped(f) /\ \A g \in FileIds \ {f} : file'[g] = file[g]
  BY <1>0, <1>1, <1>4 DEF TypeOK
<1>6. loc[p] \in LocType /\ loc[p].ret \in Idle
  BY <1>0 DEF TypeOK, LocType, Idle
<1>7. SameEnds
  BY <1>4 DEF SameEnds, Open
<1>8. CASE ~(file[f].ref = 1 /\ file[f].type = "FD_PIPE")
  <2>1. CloseThen(p, rest, loc[p].ret)
    BY <1>3, <1>8 DEF Fileclose, CloseAll
  <2> HIDE DEF f, rest
  <2>2. /\ loc' \in [Procs -> LocType] /\ pc' \in [Procs -> Labels] /\ Moved(p)
        /\ loc'[p].fs = rest
        /\ \/ rest = <<>> /\ pc'[p] = loc[p].ret /\ loc'[p] = NoLoc
           \/ rest # <<>> /\ pc'[p] = "close" /\ loc'[p].ret = loc[p].ret
    BY <1>0, <1>1, <1>6, <2>1, Closes, ZenonT(60)
  <2>3. Closing(p, f)
    BY <1>0, <1>4, <1>6, <2>2 DEF Closing, f, rest
  <2>4. LocalsOK(p)'
    <3>1. pc'[p] = "none" \/ loc'[p].ret = "none" => loc[p].ret = "none"
      BY <2>2 DEF NoLoc
    <3>2. loc[p].ret = "none" => HasNone(p)'
      BY <1>0, <1>4 DEF LocalsOK, HasNone
    <3>3. pc'[p] \in Idle => loc'[p] = NoLoc
      BY <2>2 DEF Idle
    <3>4. pc'[p] = "close" => loc'[p].fs # <<>>
      BY <1>6, <2>2 DEF Idle
    <3>5. pc'[p] \in Idle \cup {"close"} /\ IsInjective(loc'[p].fs)
      BY <1>1, <1>6, <2>2
    <3> QED
      BY ZenonT(60), SMTT(60), <3>1, <3>2, <3>3, <3>4, <3>5, LocalsEnd
  <2>5. \A g \in FileIds, pi \in Pages, w \in BOOLEAN : FileHolds(g, pi, w)' <=> FileHolds(g, pi, w)
    BY <1>2, <1>3, <1>5, <1>8 DEF FileHolds
  <2>6. \A q \in Procs, pi \in Pages, w \in BOOLEAN : CloserHolds(q, pi, w)' <=> CloserHolds(q, pi, w)
    BY ZenonT(60), SMTT(60), <1>0, <1>6, <2>2 DEF CloserHolds, Moved, Idle
  <2>7. EndsSound'
    BY ZenonT(60), SMTT(60), <1>0, <1>7, <2>5, <2>6, EndsKept
  <2> QED
    BY ZenonT(60), SMTT(60), <1>1, <2>3, <2>4, <2>7, ClosingStep
<1>9. CASE file[f].ref = 1 /\ file[f].type = "FD_PIPE"
  <2> DEFINE pj == file[f].pipe
             v == file[f].writable
             r == [loc[p] EXCEPT !.fs = rest, !.pi = pj, !.n = IF v THEN 1 ELSE 0]
  <2>1. pc' = [pc EXCEPT ![p] = "pipeclose"] /\ loc' = [loc EXCEPT ![p] = r]
    BY <1>3, <1>9 DEF Fileclose, Goto, Locals
  <2>2. pj \in Pages /\ v \in BOOLEAN
    BY ZenonT(60), SMTT(60), <1>0, <1>1, <1>9 DEF FilesSound, FileType
  <2> HIDE DEF f, rest, pj, v
  <2>3. /\ r \in LocType /\ r.fs = rest /\ r.pi = pj /\ r.ret = loc[p].ret
        /\ r.n = IF v THEN 1 ELSE 0
    BY ZenonT(60), SMTT(60), <1>1, <1>6, <2>2 DEF LocType
  <2> HIDE DEF r
  <2>4. /\ loc' \in [Procs -> LocType] /\ pc' \in [Procs -> Labels] /\ Moved(p)
        /\ loc'[p] = r /\ pc'[p] = "pipeclose"
    BY ZenonT(60), SMTT(60), <1>0, <2>1, <2>3 DEF TypeOK, Moved, Labels
  <2>5. Closing(p, f)
    BY ZenonT(60), SMTT(60), <1>0, <1>4, <2>3, <2>4 DEF Closing, f, rest
  <2>6. LocalsOK(p)'
    BY ZenonT(60), SMTT(60), <1>0, <1>1, <1>4, <2>2, <2>3, <2>4 DEF LocalsOK, HasNone, Idle, Reading, Writing, Allocating
  <2>7. \A g \in FileIds, pi \in Pages, w \in BOOLEAN :
          FileHolds(g, pi, w)' <=> g # f /\ FileHolds(g, pi, w)
    BY ZenonT(60), SMTT(60), <1>2, <1>3, <1>5, <1>9 DEF FileHolds
  <2>8. \A q \in Procs, pi \in Pages, w \in BOOLEAN :
          CloserHolds(q, pi, w)' <=> IF q = p THEN pi = pj /\ w = v ELSE CloserHolds(q, pi, w)
    BY <2>2, <2>3, <2>4 DEF CloserHolds, Moved
  <2>9. /\ \A pi \in Pages, w \in BOOLEAN : FileHolds(f, pi, w) <=> pi = pj /\ w = v
        /\ \A pi \in Pages, w \in BOOLEAN : ~CloserHolds(p, pi, w)
    BY <1>0, <1>9, <2>2 DEF FileHolds, CloserHolds, pj, v
  <2>10. EndsSound'
    <3> SUFFICES ASSUME NEW pi \in Pages, NEW w \in BOOLEAN
                 PROVE  /\ \A g, h \in FileIds : FileHolds(g, pi, w)' /\ FileHolds(h, pi, w)' => g = h
                        /\ \A q, s \in Procs : CloserHolds(q, pi, w)' /\ CloserHolds(s, pi, w)' => q = s
                        /\ \A g \in FileIds, q \in Procs : ~(FileHolds(g, pi, w)' /\ CloserHolds(q, pi, w)')
                        /\ Open(pi, w)' <=> \/ \E g \in FileIds : FileHolds(g, pi, w)'
                                            \/ \E q \in Procs : CloserHolds(q, pi, w)'
      BY DEF EndsSound
    <3>1. /\ \A g, h \in FileIds : FileHolds(g, pi, w) /\ FileHolds(h, pi, w) => g = h
          /\ \A q, s \in Procs : CloserHolds(q, pi, w) /\ CloserHolds(s, pi, w) => q = s
          /\ \A g \in FileIds, q \in Procs : ~(FileHolds(g, pi, w) /\ CloserHolds(q, pi, w))
          /\ Open(pi, w) <=> \/ \E g \in FileIds : FileHolds(g, pi, w)
                             \/ \E q \in Procs : CloserHolds(q, pi, w)
      BY <1>0 DEF EndsSound
    <3>2. Open(pi, w)' <=> Open(pi, w)
      BY ZenonT(60), SMTT(60), <1>7 DEF SameEnds
    <3>3. /\ \A g, h \in FileIds : FileHolds(g, pi, w)' /\ FileHolds(h, pi, w)' => g = h
          /\ \A q, s \in Procs : CloserHolds(q, pi, w)' /\ CloserHolds(s, pi, w)' => q = s
          /\ \A g \in FileIds, q \in Procs : ~(FileHolds(g, pi, w)' /\ CloserHolds(q, pi, w)')
      BY <1>1, <2>7, <2>8, <2>9, <3>1, SMTT(60)
    <3>4. Open(pi, w)' <=> \/ \E g \in FileIds : FileHolds(g, pi, w)'
                           \/ \E q \in Procs : CloserHolds(q, pi, w)'
      BY ZenonT(60), SMTT(60), <1>1, <2>7, <2>8, <2>9, <3>1, <3>2
    <3> QED
      BY <3>3, <3>4
  <2> QED
    BY ZenonT(60), SMTT(60), <1>1, <2>5, <2>6, <2>10, ClosingStep
<1> QED
  BY <1>8, <1>9

-----------------------------------------------------------------------------
(* References and ends match *)

LEMMA RefsInit == Init => RefsInv
<1> SUFFICES ASSUME Init PROVE RefsInv
  OBVIOUS
<1>1. TypeOK
  BY EmptyRecords, TableAssumption DEF Init, SleepInit, TypeOK, Labels, Idle
<1>2. LocalsSound
  BY ListOps DEF Init, LocalsSound, LocalsOK, HasNone, NoLoc, Idle, Reading, Writing, Allocating
<1>3. FilesSound
  BY Sizes, ListOps DEF Init, FilesSound, Lists, FreeFile, NoLoc
<1>4. Counted
  <2>1. ASSUME NEW f \in FileIds PROVE Descriptors(f) = {} /\ Pending(f) = {}
    BY Sizes, ListOps DEF Init, Descriptors, Pending, NoLoc
  <2>2. ASSUME NEW f \in FileIds PROVE file[f].ref = 0
    BY DEF Init, FreeFile
  <2>3. ASSUME NEW f \in FileIds PROVE file[f].ref = Cardinality(Descriptors(f)) + Cardinality(Pending(f))
    BY <2>1, <2>2, FS_EmptySet, SMTT(60)
  <2> QED
    BY <2>3 DEF Counted
<1>5. EndsSound
  BY SMTT(60) DEF Init, EndsSound, FileHolds, CloserHolds, Open, FreeFile, NoPipe
<1>6. CallsHold
  BY DEF Init, CallsHold, CallOK, Reading, Writing
<1> QED
  BY ZenonT(60), SMTT(60), <1>1, <1>2, <1>3, <1>4, <1>5, <1>6 DEF RefsInv

LEMMA RefsStep == RefsInv /\ [Next]_vars => RefsInv'
<1> SUFFICES ASSUME RefsInv, [Next]_vars PROVE RefsInv'
  OBVIOUS
<1>1. ASSUME NEW p \in Procs, Process(p) PROVE RefsInv'
  <2>1. CASE Fileclose(p) \/ Pipeclose(p) \/ Exit(p) \/ Kill(p)
    BY ZenonT(60), SMTT(60), <2>1, FilecloseStep, PipecloseStep, ExitStep, KillStep
  <2>2. CASE SysPipe(p) \/ PipeallocSecond(p) \/ PipeallocBad(p) \/ PipeallocPage(p) \/ PipeFds(p)
    BY ZenonT(60), SMTT(60), <2>2, SysPipeStep, PipeallocSecondStep, PipeallocBadStep, PipeallocPageStep, PipeFdsStep
  <2>3. CASE \E d \in Fds : SysDup(p, d) \/ SysClose(p, d) \/ SysRead(p, d) \/ SysWrite(p, d)
    BY ZenonT(60), SMTT(60), <2>3, SysDupStep, SysCloseStep, SysCallStep
  <2>4. CASE \E q \in Procs : Fork(p, q)
    BY <2>4, ForkStep
  <2>5. CASE ReadWait(p) \/ ReadSleep(p) \/ ReadCopy(p) \/ ReadReturn(p)
    BY ZenonT(60), SMTT(60), <2>5, ReadWaitStep, SleepSteps, ReadCopyStep, ReadReturnStep
  <2>6. CASE WriteFails(p) \/ WriteWait(p) \/ WriteSleep(p) \/ WriteByte(p) \/ WriteDone(p)
    BY ZenonT(60), SMTT(60), <2>6, WriteReturns, WriteWaitStep, SleepSteps, WriteByteStep
  <2> QED
    BY ZenonT(60), SMTT(60), <1>1, <2>1, <2>2, <2>3, <2>4, <2>5, <2>6 DEF Process
<1>2. CASE UNCHANGED vars
  <2>1. UNCHANGED <<file, ofile, pipe, killed, pc, loc, chan>>
    BY <1>2 DEF vars
  <2>2. TypeOK'
    BY <2>1 DEF RefsInv, TypeOK
  <2>3. (LocalsSound /\ FilesSound)'
    BY ZenonT(60), SMTT(60), <2>1 DEF RefsInv, LocalsSound, LocalsOK, HasNone, FilesSound, Lists
  <2>4. Counted'
    BY <2>1 DEF RefsInv, Counted, Descriptors, Pending
  <2>5. EndsSound'
    BY <2>1, SMTT(60) DEF RefsInv, EndsSound, FileHolds, CloserHolds, Open
  <2>6. CallsHold'
    BY <2>1 DEF RefsInv, CallsHold, CallOK, HasEnd, FileHolds
  <2> QED
    BY ZenonT(60), SMTT(60), <2>2, <2>3, <2>4, <2>5, <2>6 DEF RefsInv
<1> QED
  BY <1>1, <1>2 DEF Next

-----------------------------------------------------------------------------
(* The theorems *)

\* The inductive invariant of the file table, the descriptors and the pipes, for
\* any number of processes, descriptors, files and pipes.
THEOREM FilesInvariant == Spec => []RefsInv
BY RefsInit, RefsStep, PTL DEF Spec

\* For any number of processes, descriptors, files and pipes: ref counts exactly
\* the references to a file, an end of a pipe is open exactly while a file or a
\* fileclose() on its way has it, and no call of fileclose(), filedup(), fileread()
\* or filewrite() panics.
THEOREM RefsMatchHolds == Spec => []RefsMatch
BY FilesInvariant, RefsImply, PTL

\* For any number of processes and pipes and any size of the pipes: who sleeps on a
\* pipe whose lock is free faces a full pipe with a reader or an empty one with a
\* writer, or a killed writer left it there.
THEOREM NoStrandedSleeperHolds == Spec => []NoStrandedSleeper
BY FilesInvariant, SleepStart, SleepNext, SleepImply, PTL DEF Spec
=============================================================================
