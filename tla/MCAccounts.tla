----------------------------- MODULE MCAccounts -----------------------------
(***************************************************************************)
(* Instances of Accounts for TLC: workers, names and passwords may be      *)
(* permuted in the run without liveness.                                   *)
(***************************************************************************)
EXTENDS Accounts, TLC

Symmetric ==
  Permutations(Workers) \cup Permutations(Names) \cup Permutations(Passwords)

=============================================================================
