----------------------------- MODULE MCWanHealth -----------------------------
(* Instances of WanHealth for the model checker. *)
EXTENDS WanHealthProperties, TLC

LinkSymmetry == Permutations(Links)
=============================================================================
