---------------------------- MODULE MCThreadPool ----------------------------
(***************************************************************************)
(* Instances of ThreadPool for TLC.  Requests and workers are model        *)
(* values; the runs that check invariants only may permute them.           *)
(***************************************************************************)
EXTENDS ThreadPool, TLC

Symmetric == Permutations(Workers) \cup Permutations(Requests)

=============================================================================
