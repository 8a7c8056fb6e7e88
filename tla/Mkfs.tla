-------------------------------- MODULE Mkfs --------------------------------
(***************************************************************************)
(* The first disk image: mkfs/mkfs.c writes files into a new file system   *)
(* that the kernel then uses.                                              *)
(*                                                                         *)
(* A sector holds BSIZE words; a word is a byte, a block address or a      *)
(* directory entry, which is the inode number of its file.  The inodes are *)
(* kept apart from the sectors they lie in.  FSSIZE is large enough.       *)
(***************************************************************************)
EXTENDS Integers, FiniteSets, FiniteSetsExt, SequencesExt

CONSTANTS
  FSSIZE,      \* sectors of the image
  NMETA,       \* boot block, super block, log, inodes and bitmap
  BSIZE,
  NDIRECT,
  Argvs    \* the lists of files mkfs may be called with, by their contents

VARIABLES
  sector,      \* what each sector contains
  dinode,      \* the inodes, by number
  freeblock,
  used,        \* the sectors the bitmap marks, {} until it is written
  files,       \* the arguments
  argi,        \* the argument mkfs is at, and how much of it is copied
  mkpc         \* "start", "files", "done", or "abort" after a failed assert()

vars == <<sector, dinode, freeblock, used, files, argi, mkpc>>

ROOTINO == 1
MAXFILE == NDIRECT + BSIZE
Sectors == 0 .. FSSIZE - 1
NewInode == [size |-> 0, addrs |-> [i \in 0 .. NDIRECT |-> 0]]

\* Everything is zero.
Init ==
  /\ sector = [s \in Sectors |-> [w \in 0 .. BSIZE - 1 |-> 0]]
  /\ dinode = <<>> /\ freeblock = NMETA /\ used = {}
  /\ files \in Argvs /\ argi = [file |-> 1, done |-> 0]
  /\ mkpc = "start"

\* The address of block fbn of a file, which is given one if it has none.
Addr(s, fbn) ==
  LET ind  == s.din.addrs[NDIRECT]
      i    == IF ind = 0 THEN s.freeblock ELSE ind
      next == IF ind = 0 THEN s.freeblock + 1 ELSE s.freeblock
      has  == s.sector[i][fbn - NDIRECT]
  IN  IF fbn < NDIRECT
      THEN IF s.din.addrs[fbn] # 0 THEN [s EXCEPT !.x = s.din.addrs[fbn]]
           ELSE [s EXCEPT !.x = s.freeblock, !.din.addrs[fbn] = s.freeblock, !.freeblock = @ + 1]
      ELSE IF has # 0 THEN [s EXCEPT !.x = has]
           ELSE [s EXCEPT !.x = next, !.din.addrs[NDIRECT] = i, !.freeblock = next + 1,
                          !.sector[i][fbn - NDIRECT] = next]

\* A round of iappend()'s loop, for the words p.
AppendRound(s, p) ==
  LET off == s.din.size
      a   == Addr(s, off \div BSIZE)
      n1  == Min({Len(p) - s.done, ((off \div BSIZE) + 1) * BSIZE - off})
  IN  IF s.done >= Len(p) \/ s.abort THEN s
      ELSE IF off \div BSIZE >= MAXFILE THEN [s EXCEPT !.abort = TRUE]
      ELSE [a EXCEPT !.sector[a.x] =
              [w \in DOMAIN @ |-> IF w \in off % BSIZE .. (off % BSIZE) + n1 - 1
                                  THEN p[s.done + w - (off % BSIZE) + 1] ELSE @[w]],
              !.din.size = @ + n1, !.done = @ + n1]

\* iappend(): din.size follows off, and winode() stores both in the end.
Iappend(s, p) ==
  LET r == FoldLeft(LAMBDA a, i : AppendRound(a, p), [s EXCEPT !.done = 0], p)
  IN  IF r.abort THEN [r EXCEPT !.din = s.din] ELSE r

\* A file with inode din, as iappend() starts with it.
Image(din) ==
  [din |-> din, sector |-> sector, freeblock |-> freeblock,
   x |-> 0, done |-> 0, abort |-> FALSE]

\* The root directory with its entries for itself.
MakeRoot ==
  LET s == Iappend(Image(NewInode), <<ROOTINO>>)
      t == Iappend(s, <<ROOTINO>>)
  IN  /\ mkpc = "start"
      /\ dinode' = <<t.din>> /\ sector' = t.sector /\ freeblock' = t.freeblock
      /\ mkpc' = "files"
      /\ UNCHANGED <<used, files, argi>>

\* The next file: an inode and an entry in the root directory.
AddFile ==
  LET inum == Len(dinode) + 1
      s == Iappend(Image(dinode[ROOTINO]), <<inum>>)
  IN  /\ mkpc = "files" /\ argi.done = 0 /\ argi.file <= Len(files)
      /\ dinode' = Append([dinode EXCEPT ![ROOTINO] = s.din], NewInode)
      /\ sector' = s.sector /\ freeblock' = s.freeblock
      /\ argi' = [argi EXCEPT !.done = 1]
      /\ mkpc' = IF s.abort THEN "abort" ELSE mkpc
      /\ UNCHANGED <<used, files>>

\* A read() of at most BSIZE words of the file, and iappend().
CopyFile ==
  LET text == files[argi.file]
      buf  == SubSeq(text, argi.done, Min({Len(text), argi.done + BSIZE - 1}))
      s    == Iappend(Image(dinode[Len(dinode)]), buf)
  IN  /\ mkpc = "files" /\ argi.done > 0
      /\ IF buf = <<>>
         THEN argi' = [file |-> argi.file + 1, done |-> 0] /\ UNCHANGED <<dinode, sector, freeblock, mkpc>>
         ELSE /\ dinode' = [dinode EXCEPT ![Len(dinode)] = s.din]
              /\ sector' = s.sector /\ freeblock' = s.freeblock
              /\ argi' = [argi EXCEPT !.done = @ + Len(buf)]
              /\ mkpc' = IF s.abort THEN "abort" ELSE mkpc
      /\ UNCHANGED <<used, files>>

\* Seeded fault: the last block handed out is not marked.
MarkedLess == 0 .. freeblock - 2

\* The sectors balloc() marks.
Marked == 0 .. freeblock - 1

\* The size of the root directory is rounded, and the bitmap written.
Finish ==
  /\ mkpc = "files" /\ argi.file > Len(files)
  /\ dinode' = [dinode EXCEPT ![ROOTINO].size = ((@ \div BSIZE) + 1) * BSIZE]
  /\ used' = Marked
  /\ mkpc' = "done"
  /\ UNCHANGED <<sector, freeblock, files, argi>>

Next == MakeRoot \/ AddFile \/ CopyFile \/ Finish

Spec == Init /\ [][Next]_vars

-----------------------------------------------------------------------------

\* The image as the kernel reads it.
Kernel == INSTANCE FileData WITH
  inode <- dinode, bitmap <- used, block <- sector, NBLOCKS <- FSSIZE - 1,
  Inums <- {}, Users <- {}, Opens <- {}, BPB <- FSSIZE, MAXOPBLOCKS <- 0, Texts <- {},
  ReadSizes <- {}, MaxFaults <- 0, MaxChanges <- 0,
  opened <- 0, off <- 0, job <- 0, logged <- {}, seen <- <<>>, changes <- 0, fault <- 0

\* A new image is one the kernel can go on with: bmap() and readi() find in each
\* file what was given to mkfs, and in the root directory an entry for each file
\* and then zeroes; the bitmap marks the sectors before the data and the blocks
\* of files, each of which belongs to one file. Only the root directory may lack a
\* block below its size: the last one, when its entries fill their blocks.
ImageIsSound ==
  mkpc = "done" =>
    LET root == <<ROOTINO, ROOTINO>> \o [i \in DOMAIN files |-> ROOTINO + i]
        size == dinode[ROOTINO].size
        lost == Len(root) % BSIZE = 0
    IN  /\ \A i \in DOMAIN files : Kernel!Readi(ROOTINO + i, 0, MAXFILE * BSIZE) = files[i]
        /\ Kernel!Readi(ROOTINO, 0, Len(root)) = root
        /\ IF lost THEN Kernel!AddrOf(dinode[ROOTINO], (size - 1) \div BSIZE) = 0
           ELSE Kernel!Readi(ROOTINO, Len(root), size) = [i \in 1 .. size - Len(root) |-> 0]
        /\ \A b \in 1 .. FSSIZE - 1 :
             FoldSet(LAMBDA f, c : c + Kernel!OfInode(dinode[f])[b], 0, DOMAIN dinode)
             = IF b \in used /\ b >= NMETA THEN 1 ELSE 0
=============================================================================
