------------------------------ MODULE MCMeshJoin ------------------------------
EXTENDS MeshJoin, TLC

(* Nodes, tokens and call slots are interchangeable. *)
Symmetry == Permutations(Nodes) \cup Permutations(Tokens) \cup Permutations(Calls)
=============================================================================
