---------------------------- MODULE MCTimerList ----------------------------
(***************************************************************************)
(* Instances of TimerList for TLC: addresses may be permuted in the runs   *)
(* without liveness.                                                       *)
(***************************************************************************)
EXTENDS TimerList, TLC

Symmetric == Permutations(Timers)

=============================================================================
