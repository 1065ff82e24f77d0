------------------------ MODULE MCDs8kProvisioning --------------------------
(* Instances of Ds8kProvisioning for TLC. *)
EXTENDS Ds8kProvisioning, TLC

\* The threads are alike, and so are the names other than that of the source.
Symmetry == Permutations(Threads) \cup Permutations(Names \ {Source})
=============================================================================
