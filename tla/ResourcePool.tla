---------------------------- MODULE ResourcePool ----------------------------
(***************************************************************************)
(* What the connection pool promises: each resource is free or belongs to  *)
(* one thread, a thread owns one resource at a time, and gives back the    *)
(* one it owns.                                                            *)
(***************************************************************************)
EXTENDS Naturals

CONSTANTS Threads, Resources, Nothing

VARIABLES
  free,     \* the set of the resources nobody owns
  owned     \* the resource of each thread, or Nothing

rvars == <<free, owned>>

RInit ==
  /\ free = Resources
  /\ owned = [t \in Threads |-> Nothing]

Acquire(t) ==
  /\ owned[t] = Nothing
  /\ \E r \in free :
       /\ owned' = [owned EXCEPT ![t] = r]
       /\ free' = free \ {r}

Release(t) ==
  /\ owned[t] # Nothing
  /\ owned' = [owned EXCEPT ![t] = Nothing]
  /\ free' = free \cup {owned[t]}

RNext == \E t \in Threads : Acquire(t) \/ Release(t)

RSpec == RInit /\ [][RNext]_rvars

=============================================================================
