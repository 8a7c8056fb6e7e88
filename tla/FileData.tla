------------------------------ MODULE FileData ------------------------------
(***************************************************************************)
(* The contents of files: the block bitmap, an inode's block addresses and *)
(* readi(), writei(), itrunc() of kernel/fs.c, with the calls of           *)
(* kernel/file.c that cut a write into transactions.                       *)
(*                                                                         *)
(* What happens under ilock() inside one begin_op() ... end_op() is one    *)
(* step.  A word of a block is a byte or a block address, so an indirect   *)
(* block holds BSIZE addresses; a block of the bitmap covers BPB blocks.   *)
(***************************************************************************)
EXTENDS Integers, FiniteSets, FiniteSetsExt, SequencesExt

CONSTANTS
  Users,        \* processes, each with one open file
  Inums,
  Opens,        \* which inode each process may have open
  NBLOCKS,      \* data blocks of the disk
  BSIZE,
  NDIRECT,
  BPB,          \* blocks a bitmap block stands for
  MAXOPBLOCKS,
  Texts,        \* what a process writes in one call
  ReadSizes,    \* how much it asks for in one read
  MaxFaults,    \* bound: user addresses that turn out bad
  MaxChanges    \* bound: calls that change a file

VARIABLES
  inode,        \* size and addresses, in the table and on disk alike
  bitmap,       \* the blocks marked in use
  block,        \* what each block contains
  opened,       \* the inode a process has open
  off,          \* the offset of its open file
  job,          \* its write() in progress: the text, how much is done, how much
                \* of it user memory holds
  logged,       \* the blocks the last transaction handed to log_write()
  seen,         \* what the last step returned, if it was a read()
  changes,      \* calls that change a file, so far
  fault         \* bad user addresses met, -1 after panic("freeing free block")

vars == <<inode, bitmap, block, opened, off, job, logged, seen, changes, fault>>

Blocks == 1 .. NBLOCKS
NINDIRECT == BSIZE
MAXFILE == NDIRECT + NINDIRECT
NoBlock == 0
Zeroes == [w \in 0 .. BSIZE - 1 |-> 0]
Empty == [size |-> 0, addrs |-> [i \in 0 .. NDIRECT |-> NoBlock]]
Idle == [text |-> <<>>, i |-> 0, readable |-> 0]

Init ==
  /\ opened \in Opens
  /\ inode = [f \in Inums |-> Empty]
  /\ bitmap = {} /\ block = [b \in Blocks |-> Zeroes]
  /\ off = [u \in Users |-> 0] /\ job = [u \in Users |-> Idle]
  /\ logged = {} /\ seen = <<>> /\ changes = 0 /\ fault = 0

(* balloc() and bmap(): s holds an inode ip, the bitmap, the blocks, the
   blocks logged so far, and what was returned *)

Balloc(s) ==
  LET free == Blocks \ s.bitmap
      b    == Min(free)
  IN  IF free = {} THEN [s EXCEPT !.ret = NoBlock]
      ELSE [s EXCEPT !.ret = b, !.bitmap = @ \cup {b}, !.block[b] = Zeroes,
                     !.logged = @ \cup {<<"bitmap", b \div BPB>>, <<"block", b>>}]

\* The address in slot i of ip->addrs, allocated if there is none.
BmapSlot(s, i) ==
  IF s.ip.addrs[i] # NoBlock THEN [s EXCEPT !.ret = s.ip.addrs[i]]
  ELSE LET n == Balloc(s) IN [n EXCEPT !.ip.addrs[i] = n.ret]

\* The address in word i of indirect block a, allocated if there is none.
BmapIndirect(s, a, i) ==
  IF s.block[a][i] # NoBlock THEN [s EXCEPT !.ret = s.block[a][i]]
  ELSE LET n == Balloc(s)
       IN  IF n.ret = NoBlock THEN n
           ELSE [n EXCEPT !.block[a][i] = n.ret, !.logged = @ \cup {<<"block", a>>}]

Bmap(s, bn) ==
  IF bn < NDIRECT THEN BmapSlot(s, bn)
  ELSE LET n == BmapSlot(s, NDIRECT)
       IN  IF n.ret = NoBlock THEN n ELSE BmapIndirect(n, n.ret, bn - NDIRECT)

(* writei() *)

\* A round of its loop, for the text t of which user memory has the first r bytes.
\* A bad address leaves the bytes before it in the buffer.
WriteRound(s, t, r) ==
  LET n == Bmap(s, s.off \div BSIZE)
      w == s.off % BSIZE
      m == Min({Len(t) - s.tot, BSIZE - w})
      c == Min({m, r - s.tot})
      filled == [n EXCEPT !.block[n.ret] =
                   [j \in DOMAIN @ |-> IF j \in w .. w + c - 1 THEN t[s.tot + j - w + 1] ELSE @[j]]]
  IN  IF s.stop \/ s.tot >= Len(t) THEN s
      ELSE IF n.ret = NoBlock THEN [n EXCEPT !.stop = TRUE]
      ELSE IF c < m THEN [filled EXCEPT !.stop = TRUE]
      ELSE [filled EXCEPT !.tot = @ + m, !.off = @ + m, !.logged = @ \cup {<<"block", n.ret>>}]

\* Seeded fault: the size follows the offset down, too.
SizeAfterAlways(size, o) == o

SizeAfter(size, o) == Max({size, o})

\* writei() refuses: it returns -1 before it does anything.
Refuses(f, o, n) == o > inode[f].size \/ o + n > MAXFILE * BSIZE

\* The end of writei() on inode f at offset o.
Writei(f, o, t, r) ==
  LET s == FoldLeft(LAMBDA a, i : WriteRound(a, t, r),
                    [ip |-> inode[f], bitmap |-> bitmap, block |-> block, logged |-> {},
                     ret |-> NoBlock, off |-> o, tot |-> 0, stop |-> FALSE],
                    [i \in 1 .. Len(t) |-> i])
  IN  [s EXCEPT !.ip.size = SizeAfter(@, s.off), !.logged = @ \cup {<<"inode", f>>}]

(* file.c *)

\* Seeded fault: the blocks an unaligned write needs more are not counted.
ChunkSizeNoSlop == ((MAXOPBLOCKS - 1 - 1) \div 2) * BSIZE

\* How much filewrite() writes in one transaction.
ChunkSize == ((MAXOPBLOCKS - 1 - 1 - 2) \div 2) * BSIZE

\* write() with a text of which r bytes can be read.
Write(u, t, r) ==
  /\ fault >= 0 /\ job[u] = Idle
  /\ changes < MaxChanges /\ changes' = changes + 1
  /\ r = Len(t) \/ fault < MaxFaults
  /\ fault' = IF r = Len(t) THEN fault ELSE fault + 1
  /\ job' = [job EXCEPT ![u] = [text |-> t, i |-> 0, readable |-> r]]
  /\ logged' = {} /\ seen' = <<>>
  /\ UNCHANGED <<inode, bitmap, block, opened, off>>

\* A round of filewrite()'s loop: one transaction.
WriteChunk(u) ==
  LET j == job[u]
      f == opened[u]
      t == SubSeq(j.text, j.i + 1, Min({Len(j.text), j.i + ChunkSize}))
      s == Writei(f, off[u], t, Max({0, j.readable - j.i}))
      more == s.tot = Len(t) /\ j.i + s.tot < Len(j.text)
  IN  /\ fault >= 0 /\ j # Idle
      /\ IF Refuses(f, off[u], Len(t))
         THEN job' = [job EXCEPT ![u] = Idle] /\ logged' = {} /\ UNCHANGED <<inode, bitmap, block, off>>
         ELSE /\ inode' = [inode EXCEPT ![f] = s.ip]
              /\ bitmap' = s.bitmap /\ block' = s.block /\ logged' = s.logged
              /\ off' = [off EXCEPT ![u] = @ + s.tot]
              /\ job' = [job EXCEPT ![u] = IF more THEN [@ EXCEPT !.i = @ + s.tot] ELSE Idle]
      /\ seen' = <<>>
      /\ UNCHANGED <<opened, changes, fault>>

\* The disk block of block bn of inode ip, where bmap() finds one.
AddrOf(ip, bn) ==
  IF bn < NDIRECT THEN ip.addrs[bn]
  ELSE IF ip.addrs[NDIRECT] = NoBlock THEN NoBlock
  ELSE block[ip.addrs[NDIRECT]][bn - NDIRECT]

\* The part of block bn that readi() copies for n bytes at offset o.
ReadRound(ip, bn, o, n) ==
  LET first == Max({o, bn * BSIZE})
      m     == Min({o + n - first, BSIZE - (first % BSIZE)})
  IN  [i \in 1 .. m |-> block[AddrOf(ip, bn)][(first % BSIZE) + i - 1]]

Readi(f, o, n) ==
  LET ip == inode[f]
      n1 == Min({n, ip.size - o})
      bns == [i \in 1 .. (o + n1 - 1) \div BSIZE - o \div BSIZE + 1 |-> o \div BSIZE + i - 1]
  IN  IF o > ip.size \/ n1 = 0 THEN <<>>
      ELSE FlattenSeq([i \in DOMAIN bns |-> ReadRound(ip, bns[i], o, n1)])

\* fileread(); a bad user address makes it return -1 and leave the offset.
Read(u, n) ==
  /\ fault >= 0 /\ job[u] = Idle
  /\ seen' = Readi(opened[u], off[u], n)
  /\ off' = [off EXCEPT ![u] = @ + Len(seen')]
  /\ logged' = {}
  /\ UNCHANGED <<inode, bitmap, block, opened, job, changes, fault>>

(* itrunc() *)

\* How often inode ip refers to each block.
OfInode(ip) ==
  LET ind == ip.addrs[NDIRECT]
  IN  [b \in Blocks |->
         Cardinality({i \in 0 .. NDIRECT : ip.addrs[i] = b})
         + (IF ind = NoBlock THEN 0 ELSE Cardinality({w \in 0 .. NINDIRECT - 1 : block[ind][w] = b}))]

\* Seeded fault: the blocks behind the indirect block are forgotten.
FreedDirect(ip) == {b \in Blocks : \E i \in 0 .. NDIRECT : ip.addrs[i] = b}

\* itrunc() frees what OfInode() counts; bfree() panics on a block that is free.
Freed(ip) == {b \in Blocks : OfInode(ip)[b] > 0}
FreePanics(ip) == \E b \in Blocks : OfInode(ip)[b] > (IF b \in bitmap THEN 1 ELSE 0)

\* open() with O_TRUNC, or the iput() that frees the inode.
Itrunc(f) ==
  /\ fault >= 0 /\ inode[f] # Empty
  /\ changes < MaxChanges /\ changes' = changes + 1
  /\ inode' = [inode EXCEPT ![f] = Empty]
  /\ bitmap' = bitmap \ Freed(inode[f])
  /\ fault' = IF FreePanics(inode[f]) THEN -1 ELSE fault
  /\ logged' = {} /\ seen' = <<>>
  /\ UNCHANGED <<block, opened, off, job>>

Next ==
  \/ \E u \in Users :
       \/ \E t \in Texts : \E r \in 0 .. Len(t) : Write(u, t, r)
       \/ WriteChunk(u)
       \/ \E n \in ReadSizes : Read(u, n)
  \/ \E f \in Inums : Itrunc(f)

Spec == Init /\ [][Next]_vars

-----------------------------------------------------------------------------

\* The bitmap marks exactly the blocks that inodes refer to, and each of them is
\* referred to once, whatever balloc() failed half way and whatever was cut off:
\* no block is lost, shared or freed twice. Every block below the size is there,
\* so that readi() never allocates.
BlocksOwnedOnce ==
  /\ fault >= 0
  /\ \A b \in Blocks :
       FoldSet(LAMBDA f, c : c + OfInode(inode[f])[b], 0, Inums) = IF b \in bitmap THEN 1 ELSE 0
  /\ \A f \in Inums : \A i \in 0 .. inode[f].size - 1 : AddrOf(inode[f], i \div BSIZE) # NoBlock

\* A transaction of filewrite() hands at most MAXOPBLOCKS different blocks to
\* log_write(), which is what begin_op() reserves: the inode, the indirect block,
\* the data blocks of an unaligned piece and a bitmap block for each block that
\* was allocated.
ChunkFits == Cardinality(logged) <= MAXOPBLOCKS

ByteAt(f, i) == block[AddrOf(inode[f], i \div BSIZE)][i % BSIZE]

B == INSTANCE FileBytes WITH
       content <- [f \in Inums |-> [i \in 1 .. inode[f].size |-> ByteAt(f, i - 1)]],
       pos <- off, MaxBytes <- MAXFILE * BSIZE

\* Files behave as sequences of bytes with positions: through direct and indirect
\* blocks, unaligned pieces, a full disk and bad user addresses, a read returns
\* the bytes last written there and a write changes no other byte.
ImplementsBytes == B!Spec
=============================================================================
