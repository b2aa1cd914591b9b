------------------------------- MODULE MCSync -------------------------------
(***************************************************************************)
(* Instances for model-checking Sync.                                      *)
(***************************************************************************)
EXTENDS Sync, TLC

Symmetry == Permutations(Replica) \cup Permutations(Op)
=============================================================================
