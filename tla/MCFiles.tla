------------------------------ MODULE MCFiles ------------------------------
(* An instance of Files for TLC, and what its pipes implement. *)
EXTENDS Files

Texts == {<<"a", "b", "c">>}

Pipes == INSTANCE Channel WITH
  Bytes <- UNION {Range(m) : m \in Messages},
  queue <- [pi \in Pages |->
             [k \in 1 .. Count(pi) |-> pipe[pi].data[(pipe[pi].nread + k - 1) % PIPESIZE]]],
  got <- [p \in Procs |-> IF pc[p] = "copied" THEN loc[p].msg ELSE <<>>],
  ends <- [pi \in Pages |-> (IF pipe[pi].readopen THEN {"r"} ELSE {})
                            \cup (IF pipe[pi].writeopen THEN {"w"} ELSE {})]

\* Pipes implement Channel: bytes arrive in order, each once, whatever calls,
\* closes, kills and counter wrap-arounds come in between.
ImplementsChannel == Pipes!ChannelSpec
=============================================================================
