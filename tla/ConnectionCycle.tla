-------------------------- MODULE ConnectionCycle --------------------------
(***************************************************************************)
(* What the server promises about its http_conn objects, without threads,  *)
(* events, buffers or timers.  An object waits for a request, is worked    *)
(* on, has a response to write, and waits again; its connection may be     *)
(* closed, but not while it is worked on, unless there is no answer to the *)
(* request.  No object stays in work for ever, and none that is lost, with *)
(* its request dropped or its peer gone, stays open for ever.              *)
(***************************************************************************)
CONSTANTS Objects, Refusing    \* are there requests without an answer?

VARIABLES phase, stopped

cycle == <<phase, stopped>>

CInit ==
  /\ phase \in [Objects -> {"closed", "idle"}]
  /\ stopped = FALSE

Go(o, from, to) ==
  /\ ~stopped /\ UNCHANGED stopped
  /\ phase[o] \in from
  /\ phase' = [phase EXCEPT ![o] = to]

Accept(o) == Go(o, {"closed"}, "idle")
Begin(o)  == Go(o, {"idle"}, "work")
Drop(o)   == Go(o, {"idle"}, "lost")
Await(o)  == Go(o, {"work"}, "idle")      \* the request is not complete yet
Reply(o)  == Go(o, {"work"}, "reply")
Sent(o)   == Go(o, {"reply"}, "idle")
Refuse(o) == Refusing /\ Go(o, {"work"}, "closed")
Close(o)  == Go(o, {"idle", "reply", "lost"}, "closed")

\* Several peers may be found gone at a time.
HangUp(S) ==
  /\ ~stopped /\ UNCHANGED stopped
  /\ \A o \in S : phase[o] \in {"idle", "reply"}
  /\ phase' = [o \in Objects |-> IF o \in S THEN "lost" ELSE phase[o]]

Stop ==
  /\ ~stopped /\ stopped' = TRUE
  /\ phase' = [o \in Objects |-> "closed"]

CNext ==
  \/ \E o \in Objects :
       \/ Accept(o) \/ Begin(o) \/ Drop(o) \/ Await(o) \/ Reply(o) \/ Sent(o)
       \/ Refuse(o) \/ Close(o)
  \/ \E S \in SUBSET Objects : HangUp(S)
  \/ Stop

Progress ==
  \A o \in Objects :
    /\ phase[o] = "work" ~> phase[o] # "work"
    /\ phase[o] = "lost" ~> phase[o] = "closed"

CSpec == CInit /\ [][CNext]_cycle /\ Progress

=============================================================================
