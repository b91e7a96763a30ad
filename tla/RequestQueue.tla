---------------------------- MODULE RequestQueue ----------------------------
(***************************************************************************)
(* What the thread pool promises to main.cpp and to the workers: requests  *)
(* are handed to workers first come, first served, none is lost, none is   *)
(* handed out twice, and a waiting request is taken in the end unless the  *)
(* pool is stopped.                                                        *)
(***************************************************************************)
EXTENDS Naturals, Sequences

CONSTANTS Workers, Requests, NoRequest, Capacity

VARIABLES
  queue,     \* the requests accepted and not yet taken
  serving,   \* the request each worker is processing, or NoRequest
  stopped    \* was the pool stopped?

qvars == <<queue, serving, stopped>>

QInit ==
  /\ queue = << >>
  /\ serving = [w \in Workers |-> NoRequest]
  /\ stopped = FALSE

Submit(r) ==
  /\ Len(queue) < Capacity
  /\ queue' = Append(queue, r)
  /\ UNCHANGED serving
  /\ stopped' = stopped

TakeNext(w) ==
  /\ serving[w] = NoRequest
  /\ queue # << >>
  /\ serving' = [serving EXCEPT ![w] = Head(queue)]
  /\ queue' = Tail(queue)
  /\ stopped' = stopped

Finish(w) ==
  /\ serving[w] # NoRequest
  /\ serving' = [serving EXCEPT ![w] = NoRequest]
  /\ UNCHANGED queue
  /\ stopped' = stopped

Stop ==
  /\ stopped' = TRUE
  /\ UNCHANGED <<queue, serving>>

QNext ==
  \/ \E r \in Requests : Submit(r)
  \/ \E w \in Workers : TakeNext(w) \/ Finish(w)
  \/ Stop

QSpec == QInit /\ [][QNext]_qvars

\* As long as the pool is not stopped, some worker takes the waiting
\* request; each worker finishes its own.
QFairSpec ==
  /\ QSpec
  /\ WF_qvars(~stopped /\ \E w \in Workers : TakeNext(w))
  /\ \A w \in Workers : WF_qvars(Finish(w))

=============================================================================
