---------------------------- MODULE MCThreadHub -----------------------------
(***************************************************************************)
(* Finite instances of ThreadHub for TLC.                                  *)
(***************************************************************************)
EXTENDS ThreadHub, TLC

ProcessSymmetry == Permutations(Process)

ThreadSymmetry == Permutations(Thread) \cup Permutations(Slug)

=============================================================================
