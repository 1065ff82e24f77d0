-------------------------- MODULE MCConnectionPool --------------------------
(***************************************************************************)
(* ConnectionPool for TLC.                                                 *)
(***************************************************************************)
EXTENDS ConnectionPool, TLC

\* The threads and the mediators are interchangeable.
Symmetry == Permutations(Threads) \cup Permutations(Conns)
=============================================================================
