---------------------------- MODULE MCNodeService ----------------------------
(* Instances of NodeService for TLC. *)
EXTENDS NodeService, TLC

Symmetry == Permutations(Threads) \cup Permutations(Targets) \cup Permutations(Paths)
=============================================================================
