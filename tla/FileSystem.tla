----------------------------- MODULE FileSystem -----------------------------
(***************************************************************************)
(* The calls that create, link, open and remove files and directories,     *)
(* kernel/sysfile.c, as threads that interleave on the inode table.        *)
(***************************************************************************)
EXTENDS Inodes

\* Both copies of nlink, after ip->nlink changes by k and iupdate(ip).
Linked(t, s, k) == [t EXCEPT ![s].nlink = @ + k]
Iupdated(d, s, k) == [d EXCEPT ![itable[s].inum].nlink = @ + k]
Nlink(s, k) == itable' = Linked(itable, s, k) /\ disk' = Iupdated(disk, s, k)

\* iunlock() of s and then the rest of r.
UnlockDo(p, s, r) == Releasesleep(s) /\ Do(p, r)

\* iunlockput() of the only inode of the call, which then returns.
UnlockPutReturn(p, s) == UnlockDo(p, s, PutThen(NoLoc, <<s>>, "user"))

-----------------------------------------------------------------------------
(* open(), close(), chdir() *)

\* sys_open() with ip locked: it becomes the open file, or open() fails (a
\* directory opened for writing, no file or no descriptor left).
Open(p) ==
  LET s == loc[p].ip IN
  /\ At(p, "open")
  /\ \/ UnlockDo(p, s, NoLoc) /\ fd' = [fd EXCEPT ![p] = s]
     \/ UnlockPutReturn(p, s) /\ UNCHANGED fd
  /\ UNCHANGED <<calls, itable, disk, cwd>>

Close(p) ==
  /\ At(p, "user") /\ fd[p] # Nobody
  /\ Do(p, PutThen(NoLoc, <<fd[p]>>, "user"))
  /\ fd' = [fd EXCEPT ![p] = Nobody]
  /\ UNCHANGED <<calls, itable, disk, cwd, chan, holder>>

Chdir(p) ==
  LET s == loc[p].ip IN
  /\ At(p, "chdir")
  /\ IF IsDir(s)
     THEN UnlockDo(p, s, PutThen(NoLoc, <<cwd[p]>>, "user")) /\ cwd' = [cwd EXCEPT ![p] = s]
     ELSE UnlockPutReturn(p, s) /\ UNCHANGED cwd
  /\ UNCHANGED <<calls, itable, disk, fd>>

-----------------------------------------------------------------------------
(* create(), for open() with O_CREATE and mkdir() *)

FreeInums == {i \in Inums \ {None} : disk[i].type = "free"}
TypeOf(p) == IF loc[p].op = "mkdir" THEN "dir" ELSE "file"
Name(p) == loc[p].path[1]

\* dp is locked: the name exists, or ialloc() finds a free inode, or not.
Create(p) ==
  LET r == loc[p]  e == Content(r.dp).ents[Name(p)] IN
  /\ At(p, "create")
  /\ IF e # None
     THEN /\ itable' = Igot(e)
          /\ UnlockDo(p, r.dp, LockThen(PutThen([r EXCEPT !.ip = IgetSlot(e), !.dp = Nobody],
                                                <<r.dp>>, "exists"), IgetSlot(e), "exists"))
          /\ UNCHANGED disk
     ELSE IF FreeInums = {} THEN UnlockPutReturn(p, r.dp) /\ UNCHANGED <<itable, disk>>
     ELSE LET i == Min(FreeInums) IN
          /\ disk' = [disk EXCEPT ![i] = [FreeInode EXCEPT !.type = TypeOf(p)]]
          /\ itable' = Igot(i)
          /\ Do(p, LockThen([r EXCEPT !.ip = IgetSlot(i)], IgetSlot(i), "fill"))
          /\ UNCHANGED <<chan, holder>>
  /\ UNCHANGED <<calls, fd, cwd>>

\* The existing inode is locked; only open() of a file is content with it.
CreateExists(p) ==
  LET s == loc[p].ip IN
  /\ At(p, "exists")
  /\ IF TypeOf(p) = "file" /\ ~IsDir(s)
     THEN Goto(p, "open") /\ UNCHANGED <<chan, holder, loc>>
     ELSE UnlockPutReturn(p, s)
  /\ UNCHANGED <<calls, itable, disk, fd, cwd>>

\* dp and the new ip are locked.  The name goes into dp, or dirlink() has no
\* block for it and ip is given up.
CreateFill(p) ==
  LET r == loc[p]  i == itable[r.ip].inum  d == itable[r.dp].inum
      dir == IF r.op = "mkdir" THEN 1 ELSE 0 IN
  /\ At(p, "fill")
  /\ \/ /\ disk' = [disk EXCEPT
             ![i] = [@ EXCEPT !.nlink = 1, !.up = IF dir = 1 THEN d ELSE None],
             ![d] = [@ EXCEPT !.nlink = @ + dir, !.ents[Name(p)] = i]]
        /\ itable' = [itable EXCEPT ![r.ip].nlink = 1, ![r.dp].nlink = @ + dir]
        /\ UnlockDo(p, r.dp, PutThen([r EXCEPT !.dp = Nobody], <<r.dp>>,
                                     IF dir = 1 THEN "made" ELSE "open"))
     \/ /\ UnlockDo(p, r.ip, PutThen([r EXCEPT !.ip = Nobody], <<r.ip>>, "bad"))
        /\ UNCHANGED <<disk, itable>>
  /\ UNCHANGED <<calls, fd, cwd>>

\* sys_mkdir() drops the new directory.
Mkdir(p) ==
  /\ At(p, "made")
  /\ UnlockPutReturn(p, loc[p].ip)
  /\ UNCHANGED <<calls, itable, disk, fd, cwd>>

\* The end of a failed create() or unlink(), with dp still locked.
Bad(p) ==
  /\ At(p, "bad")
  /\ UnlockPutReturn(p, loc[p].dp)
  /\ UNCHANGED <<calls, itable, disk, fd, cwd>>

-----------------------------------------------------------------------------
(* unlink() *)

Unlink(p) ==
  LET r == loc[p]  e == Content(r.dp).ents[Name(p)] IN
  /\ At(p, "unlink")
  /\ IF e = None THEN UnlockPutReturn(p, r.dp) /\ UNCHANGED itable
     ELSE /\ itable' = Igot(e)
          /\ Do(p, LockThen([r EXCEPT !.ip = IgetSlot(e)], IgetSlot(e), "erase"))
          /\ UNCHANGED <<chan, holder>>
  /\ UNCHANGED <<calls, disk, fd, cwd>>

\* dp and ip are locked: the entry goes, and with a directory its ".." link.
UnlinkErase(p) ==
  LET r == loc[p]  d == itable[r.dp].inum  dir == IF IsDir(r.ip) THEN 1 ELSE 0 IN
  /\ At(p, "erase")
  /\ IF itable[r.ip].nlink < 1
     THEN Goto(p, "panic") /\ UNCHANGED <<itable, disk, chan, holder, loc>>
     ELSE IF IsDir(r.ip) /\ Content(r.ip).ents # NoEntries
     THEN /\ UnlockDo(p, r.ip, PutThen([r EXCEPT !.ip = Nobody], <<r.ip>>, "bad"))
          /\ UNCHANGED <<itable, disk>>
     ELSE /\ disk' = [disk EXCEPT ![d] = [@ EXCEPT !.nlink = @ - dir, !.ents[Name(p)] = None]]
          /\ itable' = Linked(itable, r.dp, -dir)
          /\ UnlockDo(p, r.dp, PutThen([r EXCEPT !.dp = Nobody], <<r.dp>>, "drop"))
  /\ UNCHANGED <<calls, fd, cwd>>

\* ip, still locked, loses a link.
UnlinkDrop(p) ==
  LET s == loc[p].ip IN
  /\ At(p, "drop")
  /\ Nlink(s, -1)
  /\ UnlockPutReturn(p, s)
  /\ UNCHANGED <<calls, fd, cwd>>

-----------------------------------------------------------------------------
(* link() *)

\* Seeded fault: the new link is not counted.
LinkOldUncounted(p) ==
  LET r == loc[p] IN
  /\ At(p, "link")
  /\ IF IsDir(r.ip) THEN UnlockPutReturn(p, r.ip)
     ELSE UnlockDo(p, r.ip, [r EXCEPT !.old = r.ip, !.ip = Nobody, !.path = r.new, !.abs = TRUE,
                               !.parent = TRUE, !.next = "namex", !.ret = "dirlink"])
  /\ UNCHANGED <<calls, itable, disk, fd, cwd>>

\* The old inode is locked: its link is counted first, then the new name looked up.
LinkOld(p) ==
  LET r == loc[p] IN
  /\ At(p, "link")
  /\ IF IsDir(r.ip) THEN UnlockPutReturn(p, r.ip) /\ UNCHANGED <<itable, disk>>
     ELSE /\ Nlink(r.ip, 1)
          /\ UnlockDo(p, r.ip, [r EXCEPT !.old = r.ip, !.ip = Nobody, !.path = r.new, !.abs = TRUE,
                                  !.parent = TRUE, !.next = "namex", !.ret = "dirlink"])
  /\ UNCHANGED <<calls, fd, cwd>>

\* dirlink(dp, name, old): fails when the name exists or there is no block.
LinkNew(p) ==
  LET r == loc[p]  d == itable[r.dp].inum IN
  /\ At(p, "dirlink")
  /\ \/ /\ disk[d].ents[Name(p)] = None
        /\ disk' = [disk EXCEPT ![d].ents[Name(p)] = itable[r.old].inum]
        /\ UnlockDo(p, r.dp, PutThen(NoLoc, <<r.dp, r.old>>, "user"))
     \/ UnlockDo(p, r.dp, Failing(r, <<r.dp>>)) /\ UNCHANGED disk
  /\ UNCHANGED <<calls, itable, fd, cwd>>

\* The label bad of sys_link(), with the old inode locked again.
LinkUndo(p) ==
  LET s == loc[p].old IN
  /\ At(p, "undo")
  /\ Nlink(s, -1)
  /\ UnlockPutReturn(p, s)
  /\ UNCHANGED <<calls, fd, cwd>>

-----------------------------------------------------------------------------
Process(p) ==
  \/ Ilock(p) \/ Iput(p) \/ IputFree(p) \/ IputDec(p)
  \/ NamexStart(p) \/ Look(p)
  \/ Open(p) \/ Close(p) \/ Chdir(p)
  \/ Create(p) \/ CreateExists(p) \/ CreateFill(p) \/ Mkdir(p) \/ Bad(p)
  \/ Unlink(p) \/ UnlinkErase(p) \/ UnlinkDrop(p)
  \/ LinkOld(p) \/ LinkNew(p) \/ LinkUndo(p)
  \/ \E c \in calls : Call(p, c)

Next == \E p \in Procs : Process(p)

Spec == Init /\ [][Next]_vars

-----------------------------------------------------------------------------
HeldBy(p, s) ==
  Cardinality({f \in {"ip", "dp", "old"} : loc[p][f] = s
                 /\ ~\E k \in DOMAIN loc[p].puts : loc[p].puts[k] = s})
  + Cardinality({k \in DOMAIN loc[p].puts : loc[p].puts[k] = s})
  + (IF fd[p] = s THEN 1 ELSE 0) + (IF cwd[p] = s THEN 1 ELSE 0)

\* ip->ref counts the open files, current directories and calls in progress
\* that point to the entry, and an inode is in the table once. So no panic is
\* reached: iput() never has to wait for the lock of an inode it is about to
\* free, a directory entry never leads ilock() to a free inode, and unlink() finds
\* a link to remove.
RefsMatch ==
  /\ \A p \in Procs : pc[p] # "panic"
  /\ \A s \in Locks : itable[s].ref = FoldSet(LAMBDA p, n : n + HeldBy(p, s), 0, Procs)
  /\ \A i \in Inums : Cardinality(InTable(i)) <= 1

\* An entry that is valid and not locked agrees with the disk: an inode number
\* freed by one process and allocated again by another is never seen through
\* the old copy.
TableMatchesDisk ==
  \A s \in Locks : itable[s].valid /\ holder[s] = Nobody =>
    /\ itable[s].type = Content(s).type
    /\ itable[s].nlink = Content(s).nlink

LinksTo(i) ==
  Cardinality({x \in Inums \X Names : disk[x[1]].ents[x[2]] = i})
  + Cardinality({d \in Inums \ {ROOTINO} : disk[d].type = "dir" /\ disk[d].nlink > 0
                                           /\ disk[d].up = i})

Quiet == \A p \in Procs : pc[p] = "user"

\* No directory entry leads to a free inode, and when no call is in progress,
\* which is when the log commits, no inode has more links than it is counted for.
TreeIsSound ==
  /\ \A d \in Inums, n \in Names :
       disk[d].ents[n] # None => disk[disk[d].ents[n]].type # "free"
  /\ Quiet => \A i \in Inums : disk[i].type # "free" => disk[i].nlink >= LinksTo(i)
=============================================================================
