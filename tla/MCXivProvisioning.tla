------------------------ MODULE MCXivProvisioning ---------------------------
(* Instances of XivProvisioning for TLC. *)
EXTENDS XivProvisioning

\* The threads are alike, and so are the names other than that of the source.
Symmetry == Permutations(Threads) \cup Permutations(Names \ {Source})
=============================================================================
