---------------------------- MODULE MCFileSystem ----------------------------
(* An instance of FileSystem for TLC. *)
EXTENDS FileSystem

Do1(op, abs, path) == [op |-> op, abs |-> abs, path |-> path, new |-> <<>>]
Link(old, new) == [op |-> "link", abs |-> TRUE, path |-> old, new |-> new]

\* Names of a file that come and go.
FileCalls ==
  {Do1("creat", TRUE, <<"x">>), Do1("open", TRUE, <<"x">>), Link(<<"x">>, <<"y">>),
   Do1("unlink", TRUE, <<"x">>), Do1("unlink", TRUE, <<"y">>)}

\* A directory that is made, entered, filled and removed.
DirCalls ==
  {Do1("mkdir", TRUE, <<"x">>), Do1("chdir", TRUE, <<"x">>), Do1("creat", FALSE, <<"y">>),
   Do1("unlink", TRUE, <<"x", "y">>), Do1("unlink", TRUE, <<"x">>)}

\* A name that is a file or a directory.
TypeCalls ==
  {Do1("creat", TRUE, <<"x">>), Do1("mkdir", TRUE, <<"x">>), Do1("chdir", TRUE, <<"x">>),
   Do1("open", TRUE, <<"x", "y">>), Do1("mkdir", TRUE, <<>>), Link(<<"x">>, <<"y">>)}

SmallMixes == {FileCalls, DirCalls, TypeCalls}

Symmetry == Permutations(Procs)
=============================================================================
