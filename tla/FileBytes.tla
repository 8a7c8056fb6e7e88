----------------------------- MODULE FileBytes ------------------------------
(***************************************************************************)
(* What open files are to the processes that use them: a file is a         *)
(* sequence of bytes and an open file a position in one.  A read returns   *)
(* the bytes from the position on and moves it.  A write replaces bytes    *)
(* from there on and may extend the file, in one piece or in several with  *)
(* other steps between; when it fails, the position counts what is sure to *)
(* be written.  A file can be emptied under an open position.              *)
(***************************************************************************)
EXTENDS Integers, Sequences

CONSTANTS
  Users,
  Inums,
  Texts,      \* what is written in one call
  MaxBytes    \* the longest file

VARIABLES
  opened,     \* the file each process has open
  content,
  pos,
  seen        \* what a step returned to a reader

vars == <<opened, content, pos, seen>>

Init ==
  /\ opened \in [Users -> Inums]
  /\ content = [f \in Inums |-> <<>>] /\ pos = [u \in Users |-> 0] /\ seen = <<>>

\* Bytes b over file c from position p on.
Over(c, p, b) ==
  [i \in 1 .. (IF p + Len(b) > Len(c) THEN p + Len(b) ELSE Len(c)) |->
     IF i \in p + 1 .. p + Len(b) THEN b[i - p] ELSE c[i]]

\* Bytes i to j of text t go to the file of u.
Write(u, t) ==
  \E i, j \in 1 .. Len(t), n \in 0 .. Len(t) :
    /\ i <= j /\ n <= j - i + 1
    /\ pos[u] <= Len(content[opened[u]]) /\ pos[u] + (j - i + 1) <= MaxBytes
    /\ content' = [content EXCEPT ![opened[u]] = Over(@, pos[u], SubSeq(t, i, j))]
    /\ pos' = [pos EXCEPT ![u] = @ + n] /\ seen' = <<>>
    /\ UNCHANGED opened

Read(u) ==
  /\ \E n \in 0 .. MaxBytes :
       LET c == content[opened[u]]
           e == IF pos[u] + n > Len(c) THEN Len(c) ELSE pos[u] + n
       IN  seen' = SubSeq(c, pos[u] + 1, e)
  /\ pos' = [pos EXCEPT ![u] = @ + Len(seen')]
  /\ UNCHANGED <<opened, content>>

\* A step that returns no bytes: a failed call, or a file emptied.
Other ==
  /\ seen' = <<>>
  /\ content' = content \/ \E f \in Inums : content' = [content EXCEPT ![f] = <<>>]
  /\ UNCHANGED <<opened, pos>>

Next == Other \/ \E u \in Users : Read(u) \/ \E t \in Texts : Write(u, t)

Spec == Init /\ [][Next]_vars
=============================================================================
