----------------------------- MODULE LineEditor -----------------------------
(***************************************************************************)
(* What the console promises its readers.  Keys are collected in a line    *)
(* that the user can still edit; a newline, control-D or a full buffer     *)
(* makes it ready.  Readers take ready characters in order, each once, at  *)
(* most one line a read, and control-D ends a read without being read.     *)
(***************************************************************************)
EXTENDS Naturals, SequencesExt

CONSTANTS
  Procs, Letters, BufSize

VARIABLES
  ready,   \* characters readers may take
  line,    \* the line being edited
  got      \* what each read in progress has taken

EditorInit ==
  /\ ready = <<>> /\ line = <<>>
  /\ got = [p \in Procs |-> <<>>]

Type(c) ==
  LET l == Append(line, c) IN
  /\ Len(ready) + Len(line) < BufSize
  /\ IF c \in {"nl", "^D"} \/ Len(ready) + Len(l) = BufSize
     THEN ready' = ready \o l /\ line' = <<>>
     ELSE line' = l /\ UNCHANGED ready
  /\ UNCHANGED got

KillLine == line' = <<>> /\ UNCHANGED <<ready, got>>
EraseChar == line # <<>> /\ line' = Front(line) /\ UNCHANGED <<ready, got>>

Take(p) ==
  /\ ready # <<>> /\ Head(ready) # "^D"
  /\ got[p] # <<>> => Last(got[p]) # "nl"
  /\ ready' = Tail(ready)
  /\ got' = [got EXCEPT ![p] = Append(@, Head(ready))]
  /\ UNCHANGED line

\* A character the reader's memory cannot take is lost with the read.
Drop(p) ==
  /\ ready # <<>> /\ Head(ready) # "^D"
  /\ ready' = Tail(ready)
  /\ got' = [got EXCEPT ![p] = <<>>]
  /\ UNCHANGED line

\* End of file is consumed by a read that returns nothing.
EndOfFile(p) ==
  /\ ready # <<>> /\ Head(ready) = "^D" /\ got[p] = <<>>
  /\ ready' = Tail(ready)
  /\ UNCHANGED <<line, got>>

Return(p) ==
  /\ got' = [got EXCEPT ![p] = <<>>]
  /\ UNCHANGED <<ready, line>>

EditorNext ==
  \/ \E c \in Letters \cup {"nl", "^D"} : Type(c)
  \/ KillLine \/ EraseChar
  \/ \E p \in Procs : Take(p) \/ Drop(p) \/ EndOfFile(p) \/ Return(p)

EditorSpec == EditorInit /\ [][EditorNext]_<<ready, line, got>>
=============================================================================
