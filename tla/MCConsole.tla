----------------------------- MODULE MCConsole -----------------------------
(* An instance of Console for TLC. *)
EXTENDS Console

Text == <<"x", "y">>

\* Two readers; one reader while lines are edited; or two writers while keys are
\* echoed.
Job(cs, keys) == [call |-> cs, keys |-> keys]
SmallJobs ==
  {Job([p \in Procs |-> "read"], {"a", "nl", "^D"}),
   Job([p \in Procs |-> "write"], {"a"})}
  \cup {Job([p \in Procs |-> IF p = q THEN "read" ELSE "none"], {"a", "nl", "^D", "^U", "^H"})
        : q \in Procs}

Symmetry == Permutations(Procs)
=============================================================================
