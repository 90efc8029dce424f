-------------------------- MODULE MCMeshSessionOwner --------------------------
EXTENDS MeshSessionOwner, TLC

(* Nodes and call slots are interchangeable. *)
Symmetry == Permutations(Nodes) \cup Permutations(Calls)
=============================================================================
