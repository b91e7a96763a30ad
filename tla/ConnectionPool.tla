--------------------------- MODULE ConnectionPool ---------------------------
(***************************************************************************)
(* CGImysql/sql_connection_pool.cpp: the list of open database connections *)
(* that a worker takes one from for each request (connectionRAII, at       *)
(* threadpool.h:129).  lock protects the list, reserve counts what is in   *)
(* it.                                                                     *)
(*                                                                         *)
(* The body of a critical section is one action.  DestroyPool breaks the   *)
(* mutex; when that, or front() of an empty list, makes the C++ program's  *)
(* behaviour undefined, the thread goes to "undefined" and the model stops *)
(* there.                                                                  *)
(***************************************************************************)
EXTENDS Locker, Sequences, FiniteSets

CONSTANTS
  Threads,         \* the threads that use the pool
  Main,            \* the thread that leaves main() and destroys it
  Conns,           \* the MYSQL handles that init() opened
  NoConn,          \* NULL
  UIntMax,         \* the largest unsigned int
  SignalsHit,      \* may a signal handler run on a thread of the pool?
  MayDestroy       \* may main() return?

ASSUME PoolAssumption ==
  /\ IsFiniteSet(Threads)
  /\ IsFiniteSet(Conns)
  /\ NoConn \notin Conns
  /\ Main \notin Threads
  /\ Nobody \notin Threads \cup {Main}
  /\ UIntMax \in Nat
  /\ Cardinality(Conns) <= UIntMax
  /\ SignalsHit \in BOOLEAN
  /\ MayDestroy \in BOOLEAN

VARIABLES
  connList, reserve, lock, FreeConn, CurConn,
  con,             \* the connection each thread was given, or NULL
  closed,          \* the handles given to mysql_close
  pc

vars == <<connList, reserve, lock, FreeConn, CurConn, con, closed, pc>>
counters == <<FreeConn, CurConn>>

Users == Threads \cup {Main}

Elements(list) == {list[i] : i \in 1..Len(list)}

Injective(list) ==
  \A i, j \in 1..Len(list) : list[i] = list[j] => i = j

Undefined == \E t \in Threads : pc[t] = "undefined"

GoTo(t, from, to) ==
  /\ ~Undefined
  /\ pc[t] = from
  /\ pc' = [pc EXCEPT ![t] = to]

Increment(n) == IF n = UIntMax THEN 0 ELSE n + 1
Decrement(n) == IF n = 0 THEN UIntMax ELSE n - 1

\* After init(): every connection is open and in the list (an init() that
\* fails to open one ends the process), and reserve was made with FreeConn.
Init ==
  /\ connList \in {list \in [1..Cardinality(Conns) -> Conns] : Injective(list)}
  /\ reserve = Cardinality(Conns)
  /\ lock = Nobody
  /\ FreeConn = Cardinality(Conns)
  /\ CurConn = 0
  /\ con = [t \in Threads |-> NoConn]
  /\ closed = {}
  /\ pc = [t \in Users |-> IF t = Main THEN "serving" ELSE "idle"]

-----------------------------------------------------------------------------
(***************************************************************************)
(* GetConnection, called by the constructor of connectionRAII              *)
(***************************************************************************)

\* The size of the list is read before the lock is taken; when it is 0 the
\* caller gets NULL.
TestEmpty(t) ==
  /\ GoTo(t, "idle", IF connList = << >> THEN "use" ELSE "wait")
  /\ UNCHANGED <<connList, reserve, lock, counters, con, closed>>

Wait(t) ==
  /\ GoTo(t, "wait", "lock")
  /\ SemWait(reserve)
  /\ UNCHANGED <<connList, lock, counters, con, closed>>

\* The result of wait() is not looked at.
Interrupted(t) ==
  /\ SignalsHit
  /\ GoTo(t, "wait", "lock")
  /\ SemInterrupted(reserve)
  /\ UNCHANGED <<connList, lock, counters, con, closed>>

LockToTake(t) ==
  /\ GoTo(t, "lock", "take")
  /\ MutexLock(lock, t)
  /\ UNCHANGED <<connList, reserve, counters, con, closed>>

Owns(t) == lock = t

\* Slip: the connection handed out stays in the list.
Take_NoPop(t) ==
  /\ GoTo(t, "take", "use")
  /\ connList # << >> /\ Owns(t)
  /\ con' = [con EXCEPT ![t] = Head(connList)]
  /\ FreeConn' = Decrement(FreeConn)
  /\ CurConn' = Increment(CurConn)
  /\ MutexUnlock(lock)
  /\ UNCHANGED <<connList, reserve, closed>>

Take(t) ==
  /\ GoTo(t, "take", "use")
  /\ connList # << >> /\ Owns(t)
  /\ con' = [con EXCEPT ![t] = Head(connList)]
  /\ connList' = Tail(connList)
  /\ FreeConn' = Decrement(FreeConn)
  /\ CurConn' = Increment(CurConn)
  /\ MutexUnlock(lock)
  /\ UNCHANGED <<reserve, closed>>

-----------------------------------------------------------------------------
(***************************************************************************)
(* ReleaseConnection, called by the destructor of connectionRAII           *)
(***************************************************************************)

\* NULL is not given back.
ReleaseNull(t) ==
  /\ GoTo(t, "use", "idle")
  /\ con[t] = NoConn
  /\ UNCHANGED <<connList, reserve, lock, counters, con, closed>>

LockToGive(t) ==
  /\ GoTo(t, "use", "give")
  /\ con[t] # NoConn
  /\ MutexLock(lock, t)
  /\ UNCHANGED <<connList, reserve, counters, con, closed>>

Give(t) ==
  /\ GoTo(t, "give", "post")
  /\ Owns(t)
  /\ connList' = Append(connList, con[t])
  /\ con' = [con EXCEPT ![t] = NoConn]
  /\ FreeConn' = Increment(FreeConn)
  /\ CurConn' = Decrement(CurConn)
  /\ MutexUnlock(lock)
  /\ UNCHANGED <<reserve, closed>>

\* Slip: the unit is not given back.
Post_NoPost(t) ==
  /\ GoTo(t, "post", "idle")
  /\ UNCHANGED <<connList, reserve, lock, counters, con, closed>>

Post(t) ==
  /\ GoTo(t, "post", "idle")
  /\ SemPost(reserve)
  /\ UNCHANGED <<connList, lock, counters, con, closed>>

-----------------------------------------------------------------------------
(***************************************************************************)
(* DestroyPool, called by the destructor of the static pool when main()    *)
(* has returned; the workers are detached and still run.                   *)
(***************************************************************************)
DestroyLock ==
  /\ MayDestroy
  /\ GoTo(Main, "serving", "destroy")
  /\ MutexLock(lock, Main)
  /\ UNCHANGED <<connList, reserve, counters, con, closed>>

\* Slip: the list keeps the connections that were closed.
DestroyClear_KeepList ==
  /\ GoTo(Main, "destroy", "unlock")
  /\ IF connList # << >>
     THEN /\ closed' = closed \cup Elements(connList)
          /\ FreeConn' = 0 /\ CurConn' = 0
          /\ MutexUnlock(lock)
     ELSE UNCHANGED <<counters, closed, lock>>
  /\ UNCHANGED <<connList, reserve, con>>

DestroyClear ==
  /\ GoTo(Main, "destroy", "unlock")
  /\ IF connList # << >>
     THEN /\ closed' = closed \cup Elements(connList)
          /\ connList' = << >>
          /\ FreeConn' = 0 /\ CurConn' = 0
          /\ MutexUnlock(lock)
     ELSE UNCHANGED <<connList, counters, closed, lock>>
  /\ UNCHANGED <<reserve, con>>

\* The mutex is unlocked again, whoever holds it by now.
DestroyUnlock ==
  /\ GoTo(Main, "unlock", "gone")
  /\ MutexUnlock(lock)
  /\ UNCHANGED <<connList, reserve, counters, con, closed>>

\* front() of an empty list, or a critical section that is not exclusive.
GoWrong(t) ==
  /\ \/ GoTo(t, "take", "undefined") /\ (connList = << >> \/ ~Owns(t))
     \/ GoTo(t, "give", "undefined") /\ ~Owns(t)
  /\ UNCHANGED <<connList, reserve, lock, counters, con, closed>>

-----------------------------------------------------------------------------
Get(t) ==
  \/ TestEmpty(t) \/ Wait(t) \/ Interrupted(t) \/ LockToTake(t) \/ Take(t)

Release(t) == ReleaseNull(t) \/ LockToGive(t) \/ Give(t) \/ Post(t)

DestroyPool == DestroyLock \/ DestroyClear \/ DestroyUnlock

Next ==
  \/ \E t \in Threads : Get(t) \/ Release(t) \/ GoWrong(t)
  \/ DestroyPool

Spec == Init /\ [][Next]_vars

(***************************************************************************)
(* A thread runs on between its blocking calls, and gives back in the end  *)
(* the connection it uses; both blocking calls are asked for again and     *)
(* again by few threads, so none is passed over for ever.                  *)
(***************************************************************************)
Fairness ==
  \A t \in Threads :
    /\ WF_vars(Take(t)) /\ WF_vars(Give(t)) /\ WF_vars(Post(t))
    /\ WF_vars(ReleaseNull(t)) /\ WF_vars(GoWrong(t))
    /\ SF_vars(Wait(t)) /\ SF_vars(LockToTake(t)) /\ SF_vars(LockToGive(t))

FairSpec == Spec /\ Fairness

-----------------------------------------------------------------------------
Labels ==
  {"idle", "wait", "lock", "take", "use", "give", "post", "undefined"}

\* The list holds connections of the pool, and the semaphore is not negative.
TypeOK ==
  /\ connList \in Seq(Conns)
  /\ reserve \in Nat
  /\ lock \in Users \cup {Nobody}
  /\ FreeConn \in 0..UIntMax /\ CurConn \in 0..UIntMax
  /\ con \in [Threads -> Conns \cup {NoConn}]
  /\ closed \subseteq Conns
  /\ pc \in [Users -> Labels \cup {"serving", "destroy", "unlock", "gone"}]
  /\ \A t \in Threads : pc[t] \in Labels
  /\ pc[Main] \in {"serving", "destroy", "unlock", "gone"}

\* No connection is in the list twice, in the list and in use, or in use by
\* two threads: a MYSQL handle must not be used by two threads at a time.
OneHolder ==
  /\ Injective(connList)
  /\ \A t \in Threads : con[t] \notin Elements(connList)
  /\ \A t, u \in Threads : con[t] = con[u] /\ con[t] # NoConn => t = u

\* The counters that the class reports agree with the list.
CountersAgree ==
  /\ FreeConn = Len(connList)
  /\ CurConn = Cardinality(Conns) - Len(connList)

\* The threads that have taken a unit of reserve and not given it back.
Busy == {t \in Threads : \/ pc[t] \in {"lock", "take", "give", "post", "undefined"}
                         \/ pc[t] = "use" /\ con[t] # NoConn}

\* A unit of reserve per connection that no thread has claimed, although the
\* list and the semaphore change in different steps (lines 77-82, 98-104).
UnitsConserved == reserve + Cardinality(Busy) = Cardinality(Conns)

\* With as many connections as threads, no thread gets NULL or blocks in
\* wait(), and none takes from an empty list: until the pool is destroyed, the
\* unlocked test of the list cannot see it empty (lines 74-77).
NeverStarved ==
  pc[Main] = "serving" =>
    \A t \in Threads :
      /\ pc[t] = "use" => con[t] # NoConn
      /\ pc[t] = "wait" => reserve > 0
      /\ pc[t] = "take" => connList # << >>

\* No thread works on a connection that was closed.
NoClosedInUse == \A t \in Threads : con[t] \notin closed

Pool == INSTANCE ResourcePool WITH
  Resources <- Conns, Nothing <- NoConn,
  free <- Elements(connList), owned <- con

\* The list, the mutex and the semaphore implement a pool of resources that
\* each belong to one thread at a time.
IsResourcePool == Pool!RSpec

\* A thread that found the list not empty gets a connection in the end, with
\* fewer connections than threads too, unless an interrupted wait leads a
\* thread to take from an empty list.
GetsConnection ==
  \A t \in Threads : pc[t] = "wait" ~> (con[t] # NoConn \/ Undefined)

=============================================================================
