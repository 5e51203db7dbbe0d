--------------------------- MODULE MCBlockManager ---------------------------
(* Two instances of BlockManager for TLC in one run: an engine that serves *)
(* local requests with incremental allocation, and a P/D decode worker     *)
(* without.  Blocks have two tokens, so that every boundary of the code    *)
(* (first, full, last and appended block) occurs with sequences of at most *)
(* six tokens.                                                             *)
EXTENDS BlockManager, TLC

VARIABLE engine  \* "local" or "worker"

\* Local requests have one prompt of a full and a half block, so that they
\* share the full one; imported ones end on a block boundary or behind it.
SharedPrompts == {<<1, 1, 1>>}
ImportPrompts == {<<1, 1>>, <<1, 1, 1>>}

Worker == INSTANCE BlockManager WITH
  Prompts <- ImportPrompts, MaxLen <- 5, Incremental <- FALSE, AllowImport <- TRUE

MCInit == Init /\ engine \in {"local", "worker"}

\* The runner never adds a request to the decode worker.
Added(s) == status[s] = "idle" /\ status'[s] = "waiting"

MCNext ==
  \/ engine = "local" /\ Next /\ UNCHANGED engine
  \/ engine = "worker" /\ Worker!Next /\ UNCHANGED engine /\ \A s \in Seqs : ~ Added(s)
MCSpec == MCInit /\ [][MCNext]_<<vars, engine>>

SeqSymmetry == Permutations(Seqs)
=============================================================================
