----------------------------- MODULE ShellParser ----------------------------
(***************************************************************************)
(* The commands of user/sh.c, their text, and the parser that makes a      *)
(* command of a line.  A token is a string: a symbol or a word.            *)
(***************************************************************************)
EXTENDS Integers, SequencesExt

CONSTANT MAXARGS

-----------------------------------------------------------------------------
(* Commands and their text *)

Execcmd(argv) == [type |-> "EXEC", argv |-> argv]
Redircmd(c, file, fd) == [type |-> "REDIR", cmd |-> c, file |-> file, fd |-> fd]
Pipecmd(l, r) == [type |-> "PIPE", left |-> l, right |-> r]
Listcmd(l, r) == [type |-> "LIST", left |-> l, right |-> r]
Backcmd(c) == [type |-> "BACK", cmd |-> c]

RECURSIVE LineOf(_), BackOf(_), PipeOf(_), ExecOf(_)

\* The text of a command, with parentheses where the grammar needs them.
LineOf(c) ==
  IF c.type = "LIST" THEN BackOf(c.left) \o <<";">> \o LineOf(c.right) ELSE BackOf(c)
BackOf(c) == IF c.type = "BACK" THEN BackOf(c.cmd) \o <<"&">> ELSE PipeOf(c)
PipeOf(c) ==
  IF c.type = "PIPE" THEN ExecOf(c.left) \o <<"|">> \o PipeOf(c.right) ELSE ExecOf(c)
ExecOf(c) ==
  CASE c.type = "EXEC" -> c.argv
    [] c.type = "REDIR" -> ExecOf(c.cmd) \o <<IF c.fd = 0 THEN "<" ELSE ">", c.file>>
    [] OTHER -> <<"(">> \o LineOf(c) \o <<")">>

-----------------------------------------------------------------------------
(* The parser; i is the place of the next token *)

Symbols == {"|", "&", ";", "(", ")", "<", ">", ""}
Gettoken(s, i) == IF i <= Len(s) THEN s[i] ELSE ""
Peek(s, i, toks) == Gettoken(s, i) \in toks
Word(s, i) == Gettoken(s, i) \notin Symbols

RECURSIVE Parseredirs(_, _), Parseargs(_, _), Parseline(_, _), Parseback(_, _), Parsepipe(_, _)

\* parseredirs(): the redirections that follow, each around the ones before.
Parseredirs(s, r) ==
  IF ~ r.ok \/ ~ Peek(s, r.i, {"<", ">"}) THEN r
  ELSE IF ~ Word(s, r.i + 1) THEN [r EXCEPT !.ok = FALSE]
  ELSE Parseredirs(s, [r EXCEPT !.i = @ + 2,
         !.redirs = Append(@, [file |-> s[r.i + 1], fd |-> IF s[r.i] = "<" THEN 0 ELSE 1])])

Wrapped(c, redirs) == FoldLeft(LAMBDA a, r : Redircmd(a, r.file, r.fd), c, redirs)

\* The arguments of parseexec(), with redirections among them.
Parseargs(s, r) ==
  IF ~ r.ok \/ Peek(s, r.i, {"|", ")", "&", ";", ""}) THEN r
  ELSE IF ~ Word(s, r.i) \/ Len(r.argv) + 1 >= MAXARGS THEN [r EXCEPT !.ok = FALSE]
  ELSE Parseargs(s, Parseredirs(s, [r EXCEPT !.i = @ + 1, !.argv = Append(@, s[r.i])]))

\* parseblock().
Parseblock(s, i) ==
  LET l == Parseline(s, i + 1)
      r == Parseredirs(s, [redirs |-> <<>>, i |-> l.i + 1, ok |-> l.ok /\ Peek(s, l.i, {")"})])
  IN  [cmd |-> Wrapped(l.cmd, r.redirs), i |-> r.i, ok |-> r.ok]

Parseexec(s, i) ==
  LET r == Parseargs(s, Parseredirs(s, [argv |-> <<>>, redirs |-> <<>>, i |-> i, ok |-> TRUE]))
  IN  IF Peek(s, i, {"("}) THEN Parseblock(s, i)
      ELSE [cmd |-> Wrapped(Execcmd(r.argv), r.redirs), i |-> r.i, ok |-> r.ok]

Parsepipe(s, i) ==
  LET l == Parseexec(s, i)
      r == Parsepipe(s, l.i + 1)
  IN  IF ~ l.ok \/ ~ Peek(s, l.i, {"|"}) THEN l ELSE [r EXCEPT !.cmd = Pipecmd(l.cmd, @)]

\* The loop of parseline().
Parseback(s, l) ==
  IF ~ l.ok \/ ~ Peek(s, l.i, {"&"}) THEN l
  ELSE Parseback(s, [l EXCEPT !.cmd = Backcmd(@), !.i = @ + 1])

Parseline(s, i) ==
  LET l == Parseback(s, Parsepipe(s, i))
      r == Parseline(s, l.i + 1)
  IN  IF ~ l.ok \/ ~ Peek(s, l.i, {";"}) THEN l ELSE [r EXCEPT !.cmd = Listcmd(l.cmd, @)]

Parsecmd(s) == LET l == Parseline(s, 1) IN [l EXCEPT !.ok = @ /\ l.i > Len(s)]
=============================================================================
