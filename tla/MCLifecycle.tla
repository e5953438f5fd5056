----------------------------- MODULE MCLifecycle ----------------------------
(***************************************************************************)
(* Instances of Lifecycle: participants are alike.                         *)
(***************************************************************************)
EXTENDS Lifecycle, TLC

Alike == Permutations(Participant)
=============================================================================
