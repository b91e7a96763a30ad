-------------------------- MODULE MCConnectionPool --------------------------
(***************************************************************************)
(* Instances of ConnectionPool for TLC: model values for threads and       *)
(* handles, which the runs without liveness may permute.                   *)
(***************************************************************************)
EXTENDS ConnectionPool, TLC

Symmetric == Permutations(Threads) \cup Permutations(Conns)

=============================================================================
