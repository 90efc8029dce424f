---------------------------- MODULE MCMeshLease ----------------------------
(* Instances of MeshLease for TLC: two nodes contending for one key.       *)
EXTENDS MeshLease, TLC

CallSymmetry == Permutations(Calls)
=============================================================================
