-------------------------------- MODULE Shell -------------------------------
(***************************************************************************)
(* A command line of user/sh.c: parsecmd() makes a tree of it, and         *)
(* runcmd() runs the tree in processes joined by pipes.                    *)
(*                                                                         *)
(* A process runs a sequence of system calls, which is what runcmd() does  *)
(* for its command.  A program reads its standard input to the end and     *)
(* then ends.                                                              *)
(***************************************************************************)
EXTENDS Integers, FiniteSets, FiniteSetsExt, SequencesExt, ShellParser

CONSTANTS
  NOFILE,
  Rooms,       \* how many processes there is room for, the shell included
  Commands,    \* the commands a line may stand for
  Malformed    \* lines that are no commands

VARIABLES
  line,        \* the line, and the command it stands for
  room,
  sh,          \* the processes, 1 is the shell
  started,     \* the programs that have been started
  ended,       \* and those that have ended
  noFork       \* a fork() has failed

vars == <<line, room, sh, started, ended, noFork>>

-----------------------------------------------------------------------------
(* runcmd() as a sequence of calls *)

Call(f) == [call |-> f]
Close(fd) == [call |-> "close", fd |-> fd]
Closep(i) == [call |-> "closep", i |-> i]
Dup(i) == [call |-> "dup", i |-> i]
Open(file) == [call |-> "open", file |-> file]
Fork(child) == [call |-> "fork", child |-> child]
Run(c) == [call |-> "run", cmd |-> c]

\* The first program of a command; a pipe is called after it.
RECURSIVE First(_)
First(c) ==
  CASE c.type = "EXEC" -> IF c.argv = <<>> THEN "" ELSE c.argv[1]
    [] c.type \in {"REDIR", "BACK"} -> First(c.cmd)
    [] OTHER -> First(c.left)

\* Seeded fault: the pipe is closed after the children have ended.
PipeParentLate == <<Call("wait"), Call("wait"), Closep(1), Closep(2), Call("exit")>>

\* What the process that made a pipe does after both forks.
PipeParent == <<Closep(1), Closep(2), Call("wait"), Call("wait"), Call("exit")>>

\* Seeded fault: standard output is not closed first.
PipeChildOpen(i) == <<Dup(i), Closep(1), Closep(2)>>

\* A child puts end i of the pipe in place of its standard input or output.
PipeChild(i) == <<Close(i - 1), Dup(i), Closep(1), Closep(2)>>

Runcmd(c) ==
  CASE c.type = "EXEC" -> IF c.argv = <<>> THEN <<Call("exit")>> ELSE <<[call |-> "exec", prog |-> c.argv[1]]>>
    [] c.type = "REDIR" -> <<Close(c.fd), Open(c.file), Run(c.cmd)>>
    [] c.type = "LIST" -> <<Fork(<<Run(c.left)>>), Call("wait"), Run(c.right)>>
    [] c.type = "PIPE" ->
         <<[call |-> "pipe", of |-> First(c)], Fork(PipeChild(2) \o <<Run(c.left)>>),
           Fork(PipeChild(1) \o <<Run(c.right)>>)>> \o PipeParent
    [] c.type = "BACK" -> <<Fork(<<Run(c.cmd)>>), Call("exit")>>

\* A process does not stop at runcmd() itself.
From(code) == IF code # <<>> /\ code[1].call = "run" THEN Runcmd(code[1].cmd) ELSE code

-----------------------------------------------------------------------------
(* Processes *)

Fds == 0 .. NOFILE - 1
End(kind, of) == [kind |-> kind, of |-> of]
Shut == End("shut", "")
Console == End("console", "")
NoProc == [state |-> "unused", parent |-> 0, fd |-> [f \in Fds |-> Shut], p |-> <<0, 0>>, code |-> <<>>]

\* main(): the shell reads a line and forks; the child parses and runs it.
ShellCode(text) ==
  LET c == Parsecmd(text)
  IN  <<Fork(IF c.ok THEN <<Run(c.cmd)>> ELSE <<Call("exit")>>), Call("wait")>>

\* The shell has its three open files, as main() sees to.
Init ==
  /\ line \in {[text |-> LineOf(c), cmd |-> c] : c \in Commands}
                \cup {[text |-> t, cmd |-> Execcmd(<<>>)] : t \in Malformed}
  /\ room \in Rooms
  /\ sh = [p \in 1 .. room |->
             IF p = 1 THEN [NoProc EXCEPT !.state = "used", !.code = ShellCode(line.text),
                                          !.fd = [f \in Fds |-> IF f < 3 THEN Console ELSE Shut]]
             ELSE NoProc]
  /\ started = {} /\ ended = {} /\ noFork = FALSE

Procs == DOMAIN sh
Does(p, f) == sh[p].state = "used" /\ sh[p].code # <<>> /\ sh[p].code[1].call = f
Top(p) == sh[p].code[1]
Rest(p) == From(Tail(sh[p].code))
Free(q) == {f \in Fds : q.fd[f] = Shut}
Then(p, q) == sh' = [sh EXCEPT ![p] = [q EXCEPT !.code = Rest(p)]]

\* exit(): files are closed, and children go to init.
Exited(p) ==
  [q \in Procs |->
     IF q = p THEN [NoProc EXCEPT !.state = "zombie", !.parent = sh[p].parent]
     ELSE IF sh[q].state # "unused" /\ sh[q].parent = p THEN [sh[q] EXCEPT !.parent = 0] ELSE sh[q]]

CloseFd(p) ==
  /\ Does(p, "close") \/ Does(p, "closep")
  /\ LET f == IF Does(p, "close") THEN Top(p).fd ELSE sh[p].p[Top(p).i]
     IN  Then(p, [sh[p] EXCEPT !.fd[f] = Shut])
  /\ UNCHANGED <<line, room, started, ended, noFork>>

DupFd(p) ==
  /\ Does(p, "dup")
  /\ Then(p, [sh[p] EXCEPT !.fd[Min(Free(sh[p]))] = sh[p].fd[sh[p].p[Top(p).i]]])
  /\ UNCHANGED <<line, room, started, ended, noFork>>

\* A file called "none" cannot be opened.
OpenFile(p) ==
  /\ Does(p, "open")
  /\ IF Top(p).file = "none" THEN sh' = Exited(p)
     ELSE Then(p, [sh[p] EXCEPT !.fd[Min(Free(sh[p]))] = End("file", Top(p).file)])
  /\ UNCHANGED <<line, room, started, ended, noFork>>

MakePipe(p) ==
  /\ Does(p, "pipe")
  /\ LET r == Min(Free(sh[p]))
         w == Min(Free(sh[p]) \ {r})
     IN  IF Cardinality(Free(sh[p])) < 2 THEN sh' = Exited(p)
         ELSE Then(p, [sh[p] EXCEPT !.p = <<r, w>>, !.fd[r] = End("read", Top(p).of),
                                    !.fd[w] = End("write", Top(p).of)])
  /\ UNCHANGED <<line, room, started, ended, noFork>>

\* fork1(): without a process the caller exits.
Fork1(p) ==
  LET unused == {q \in Procs : sh[q].state = "unused"}
  IN  /\ Does(p, "fork")
      /\ IF unused = {} THEN sh' = Exited(p)
         ELSE sh' = [sh EXCEPT ![p].code = Rest(p),
                               ![Min(unused)] = [sh[p] EXCEPT !.parent = p, !.code = From(Top(p).child)]]
      /\ noFork' = (noFork \/ unused = {})
      /\ UNCHANGED <<line, room, started, ended>>

Children(p) == {q \in Procs : sh[q].state # "unused" /\ sh[q].parent = p}
Dead(p) == {q \in Children(p) : sh[q].state = "zombie"}

\* wait(0), which returns at once if there are no children.
Wait(p) ==
  /\ Does(p, "wait")
  /\ \/ \E q \in Dead(p) : sh' = [sh EXCEPT ![p].code = Rest(p), ![q] = NoProc]
     \/ Children(p) = {} /\ Then(p, sh[p])
  /\ UNCHANGED <<line, room, started, ended, noFork>>

\* exec(); there is no program called "bad".
Exec(p) ==
  /\ Does(p, "exec")
  /\ IF Top(p).prog = "bad" THEN sh' = Exited(p) /\ UNCHANGED started
     ELSE /\ sh' = [sh EXCEPT ![p].code = <<[call |-> "program", prog |-> Top(p).prog]>>]
          /\ started' = started \cup {Top(p).prog}
  /\ UNCHANGED <<line, room, ended, noFork>>

Exit(p) ==
  /\ Does(p, "exit")
  /\ sh' = Exited(p)
  /\ UNCHANGED <<line, room, started, ended, noFork>>

\* A pipe's reader meets the end of the file when nobody can write to the pipe.
AtEnd(p) ==
  sh[p].fd[0].kind = "read" =>
    \A q \in Procs : \A f \in Fds : sh[q].fd[f] # End("write", sh[p].fd[0].of)

Program(p) ==
  /\ Does(p, "program") /\ AtEnd(p)
  /\ sh' = Exited(p)
  /\ ended' = ended \cup {Top(p).prog}
  /\ UNCHANGED <<line, room, started, noFork>>

\* init waits for the processes it was given.
InitReaps(p) ==
  /\ sh[p].state = "zombie" /\ sh[p].parent = 0
  /\ sh' = [sh EXCEPT ![p] = NoProc]
  /\ UNCHANGED <<line, room, started, ended, noFork>>

Next == \E p \in Procs :
  \/ CloseFd(p) \/ DupFd(p) \/ OpenFile(p) \/ MakePipe(p) \/ Fork1(p) \/ Wait(p)
  \/ Exec(p) \/ Exit(p) \/ Program(p) \/ InitReaps(p)

Spec == Init /\ [][Next]_vars

-----------------------------------------------------------------------------
(* What a command means *)

RECURSIVE Meaning(_, _, _), Before(_), Foreground(_)

\* The programs of a command with their standard input and output.
Meaning(c, in, out) ==
  CASE c.type = "EXEC" ->
         IF c.argv = <<>> \/ c.argv[1] = "bad" THEN {} ELSE {[prog |-> c.argv[1], in |-> in, out |-> out]}
    [] c.type = "REDIR" ->
         IF c.file = "none" THEN {}
         ELSE IF c.fd = 0 THEN Meaning(c.cmd, End("file", c.file), out)
         ELSE Meaning(c.cmd, in, End("file", c.file))
    [] c.type = "PIPE" ->
         Meaning(c.left, in, End("write", First(c))) \cup Meaning(c.right, End("read", First(c)), out)
    [] c.type = "LIST" -> Meaning(c.left, in, out) \cup Meaning(c.right, in, out)
    [] c.type = "BACK" -> Meaning(c.cmd, in, out)

Progs(c) == {m.prog : m \in Meaning(c, Console, Console)}

\* The programs that a command waits for.
Foreground(c) ==
  CASE c.type = "EXEC" -> Progs(c)
    [] c.type = "REDIR" -> IF c.file = "none" THEN {} ELSE Foreground(c.cmd)
    [] c.type = "BACK" -> {}
    [] OTHER -> Foreground(c.left) \cup Foreground(c.right)

\* The programs that must have ended when another one starts.
Before(c) ==
  CASE c.type = "EXEC" -> {}
    [] c.type \in {"REDIR", "BACK"} -> Before(c.cmd)
    [] OTHER -> Before(c.left) \cup Before(c.right)
                \cup (IF c.type = "LIST" THEN Foreground(c.left) \X Progs(c.right) ELSE {})

IsPipe(e) == e.kind \in {"read", "write"}
Prompt == sh[1].state = "used" /\ sh[1].code = <<>>

\* A line runs as it is written: every program that parsecmd() and runcmd() start
\* has the standard input and output the line gives it and no end of a pipe
\* besides; and unless a fork() failed, the programs after a ";" start when
\* those before it have ended, the prompt returns when those in the foreground
\* have, and in the end every program has been started.
RunsAsWritten ==
  /\ \A p \in Procs : Does(p, "program") =>
       /\ [prog |-> Top(p).prog, in |-> sh[p].fd[0], out |-> sh[p].fd[1]] \in Meaning(line.cmd, Console, Console)
       /\ \A f \in Fds \ {0, 1} : ~ IsPipe(sh[p].fd[f])
  /\ ~ noFork =>
       /\ \A b \in Before(line.cmd) : b[2] \in started => b[1] \in ended
       /\ Prompt => Foreground(line.cmd) \subseteq ended
       /\ (\A p \in Procs \ {1} : sh[p].state = "unused") /\ Prompt => started = Progs(line.cmd)

\* Some process of a line can go on until the shell is back at its prompt and no
\* other process is left: no reader of a pipe waits for an end of file that a
\* descriptor left open by runcmd() keeps away, no wait() for a child that
\* cannot end; after a failed fork(), too.
PromptReturns ==
  \/ \E p \in Procs :
       \/ sh[p].state = "zombie" /\ sh[p].parent = 0
       \/ sh[p].state = "used" /\ sh[p].code # <<>>
          /\ (Does(p, "wait") => Dead(p) # {} \/ Children(p) = {})
          /\ (Does(p, "program") => AtEnd(p))
  \/ Prompt /\ \A p \in Procs \ {1} : sh[p].state = "unused"
=============================================================================
