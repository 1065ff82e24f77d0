------------------------- MODULE MCSvcProvisioning --------------------------
(* Instances of SvcProvisioning for TLC. *)
EXTENDS SvcProvisioning, TLC

\* The threads are alike, and so are the names other than that of the source.
Symmetry == Permutations(Threads) \cup Permutations(Names \ {Source})
=============================================================================
