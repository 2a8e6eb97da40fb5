---------------------------- MODULE MCNodeLiveness ----------------------------
(* Instances of NodeLiveness for TLC. *)
EXTENDS NodeLiveness, TLC

(* The replicas that may fail are alike. *)
UnsteadySymmetry == Permutations(Replica \ Steady)
=============================================================================
