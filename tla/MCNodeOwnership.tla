--------------------------- MODULE MCNodeOwnership ---------------------------
(* Instances of NodeOwnership for TLC. *)
EXTENDS NodeOwnership, TLC

ReplicaSymmetry == Permutations(Replica)
=============================================================================
