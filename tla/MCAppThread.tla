---------------------------- MODULE MCAppThread -----------------------------
(***************************************************************************)
(* Finite instances of AppThread for TLC.                                  *)
(***************************************************************************)
EXTENDS AppThread, TLC

\* What createThread ingests.
Genesis == <<"participant", "created">>

\* A log exported after its decision had been contested: the vendored examples
\* and the demos are ingested like it.
Contested ==
  Genesis \o <<"request", "merge", "objection", "trigger">>

GenesisOnly == {Genesis}

AnyBatch == {Genesis, Contested}

RequestSymmetry == Permutations(Request)
=============================================================================
