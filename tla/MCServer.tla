------------------------------ MODULE MCServer ------------------------------
(***************************************************************************)
(* Instances of Server for TLC.  Workers may be permuted in the runs       *)
(* without liveness.                                                       *)
(***************************************************************************)
EXTENDS Server, TLC

Symmetric == Permutations(Workers)

=============================================================================
