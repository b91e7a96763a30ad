----------------------------- MODULE ThreadPool -----------------------------
(***************************************************************************)
(* threadpool/threadpool.h: the main thread appends requests to            *)
(* m_workqueue, worker threads take them.  m_queuelocker protects the      *)
(* list, m_queuestat counts the requests to be taken.                      *)
(*                                                                         *)
(* A thread is at the label pc[t]; an action runs from one blocking call   *)
(* or shared access to the next.  The body of a critical section is one    *)
(* action, because everything it touches is accessed under the mutex only. *)
(***************************************************************************)
EXTENDS Locker, Sequences, FiniteSets

CONSTANTS
  Main,            \* the thread of main.cpp that calls append()
  Workers,         \* the threads the constructor creates
  Requests,        \* the values of T* that main appends
  NoRequest,       \* the content of a request variable between two uses
  MaxRequests,     \* m_max_requests
  SignalsHitWorkers, \* may SIGALRM or SIGTERM be handled by a worker thread?
  MayStop          \* may main leave its loop and delete the pool?

ASSUME ThreadsAssumption ==
  /\ IsFiniteSet(Workers)
  /\ Main \notin Workers
  /\ Nobody \notin Workers \cup {Main}

\* The constructor throws when max_requests <= 0 (threadpool.h:38-39).
ASSUME SizeAssumption ==
  /\ MaxRequests \in Nat \ {0}
  /\ NoRequest \notin Requests
  /\ SignalsHitWorkers \in BOOLEAN
  /\ MayStop \in BOOLEAN

VARIABLES
  m_workqueue,     \* the list of requests, first to be taken first
  m_queuelocker,   \* the mutex
  m_queuestat,     \* the value of the semaphore
  m_stop,          \* is the pool stopping?
  pc,              \* where each thread is
  request          \* the variable request of append() and of run()

vars == <<m_workqueue, m_queuelocker, m_queuestat, m_stop, pc, request>>

Threads == Workers \cup {Main}

MainLabels   == {"serving", "append", "post", "gone"}
WorkerLabels == {"loop", "wait", "lock", "take", "process", "exited"}

GoTo(t, from, to) == pc[t] = from /\ pc' = [pc EXCEPT ![t] = to]

Init ==
  /\ m_workqueue = << >>
  /\ m_queuelocker = Nobody
  /\ m_queuestat = 0
  /\ m_stop = FALSE
  /\ pc = [t \in Threads |-> IF t = Main THEN "serving" ELSE "loop"]
  /\ request = [t \in Threads |-> NoRequest]

-----------------------------------------------------------------------------
(***************************************************************************)
(* append(), run by the main thread                                        *)
(***************************************************************************)

\* main.cpp:350 calls append(r), which locks the queue.
AppendLock(r) ==
  /\ GoTo(Main, "serving", "append")
  /\ MutexLock(m_queuelocker, Main)
  /\ request' = [request EXCEPT ![Main] = r]
  /\ UNCHANGED <<m_workqueue, m_queuestat, m_stop>>

Full == Len(m_workqueue) > MaxRequests

\* Slip: the early return keeps the mutex.
AppendReject_NoUnlock ==
  /\ GoTo(Main, "append", "serving")
  /\ Full
  /\ request' = [request EXCEPT ![Main] = NoRequest]
  /\ UNCHANGED <<m_workqueue, m_queuelocker, m_queuestat, m_stop>>

\* Too many requests wait: append() unlocks and returns false, which main
\* ignores; the request is forgotten.
AppendReject ==
  /\ GoTo(Main, "append", "serving")
  /\ Full
  /\ MutexUnlock(m_queuelocker)
  /\ request' = [request EXCEPT ![Main] = NoRequest]
  /\ UNCHANGED <<m_workqueue, m_queuestat, m_stop>>

\* The request is queued and the mutex released; the semaphore is not
\* posted yet.
AppendPush ==
  /\ GoTo(Main, "append", "post")
  /\ ~Full
  /\ m_workqueue' = Append(m_workqueue, request[Main])
  /\ MutexUnlock(m_queuelocker)
  /\ UNCHANGED <<m_queuestat, m_stop, request>>

\* Slip: the post is forgotten.
AppendPost_NoPost ==
  /\ GoTo(Main, "post", "serving")
  /\ request' = [request EXCEPT ![Main] = NoRequest]
  /\ UNCHANGED <<m_workqueue, m_queuelocker, m_queuestat, m_stop>>

AppendPost ==
  /\ GoTo(Main, "post", "serving")
  /\ SemPost(m_queuestat)
  /\ request' = [request EXCEPT ![Main] = NoRequest]
  /\ UNCHANGED <<m_workqueue, m_queuelocker, m_stop>>

\* ~threadpool(), called when main has left its loop (main.cpp:413).  The
\* workers are detached: they go on using the members, which the deleted
\* object still holds until the process exits.
Destroy ==
  /\ MayStop
  /\ GoTo(Main, "serving", "gone")
  /\ m_stop' = TRUE
  /\ UNCHANGED <<m_workqueue, m_queuelocker, m_queuestat, request>>

-----------------------------------------------------------------------------
(***************************************************************************)
(* run(), by each worker                                                   *)
(***************************************************************************)

TestStop(w) ==
  /\ GoTo(w, "loop", IF m_stop THEN "exited" ELSE "wait")
  /\ UNCHANGED <<m_workqueue, m_queuelocker, m_queuestat, m_stop, request>>

Wait(w) ==
  /\ GoTo(w, "wait", "lock")
  /\ SemWait(m_queuestat)
  /\ UNCHANGED <<m_workqueue, m_queuelocker, m_stop, request>>

\* run() does not look at the result of wait(): after an interrupted wait
\* the worker goes on as if it had been given a request.
Interrupted(w) ==
  /\ SignalsHitWorkers
  /\ GoTo(w, "wait", "lock")
  /\ SemInterrupted(m_queuestat)
  /\ UNCHANGED <<m_workqueue, m_queuelocker, m_stop, request>>

Lock(w) ==
  /\ GoTo(w, "lock", "take")
  /\ MutexLock(m_queuelocker, w)
  /\ UNCHANGED <<m_workqueue, m_queuestat, m_stop, request>>

FindEmpty(w) ==
  /\ GoTo(w, "take", "loop")
  /\ m_workqueue = << >>
  /\ MutexUnlock(m_queuelocker)
  /\ UNCHANGED <<m_workqueue, m_queuestat, m_stop, request>>

Take(w) ==
  /\ GoTo(w, "take", "process")
  /\ m_workqueue # << >>
  /\ request' = [request EXCEPT ![w] = Head(m_workqueue)]
  /\ m_workqueue' = Tail(m_workqueue)
  /\ MutexUnlock(m_queuelocker)
  /\ UNCHANGED <<m_queuestat, m_stop>>

\* The connection of the pool is taken, process() runs and returns, the
\* connection is given back.
Process(w) ==
  /\ GoTo(w, "process", "loop")
  /\ request' = [request EXCEPT ![w] = NoRequest]
  /\ UNCHANGED <<m_workqueue, m_queuelocker, m_queuestat, m_stop>>

-----------------------------------------------------------------------------
MainStep ==
  \/ \E r \in Requests : AppendLock(r)
  \/ AppendReject
  \/ AppendPush
  \/ AppendPost
  \/ Destroy

WorkerStep(w) ==
  \/ TestStop(w)
  \/ Wait(w)
  \/ Interrupted(w)
  \/ Lock(w)
  \/ FindEmpty(w)
  \/ Take(w)
  \/ Process(w)

Next == MainStep \/ \E w \in Workers : WorkerStep(w)

Spec == Init /\ [][Next]_vars

(***************************************************************************)
(* main appends when it likes, but finishes the append it has begun; a     *)
(* worker keeps running.  The mutex is free whenever its holder leaves a   *)
(* short critical section, so a worker that keeps asking for it gets it:   *)
(* hence strong fairness for Lock and, for the semaphore, Wait.            *)
(***************************************************************************)
Fairness ==
  /\ WF_vars(AppendReject) /\ WF_vars(AppendPush) /\ WF_vars(AppendPost)
  /\ \A w \in Workers :
       /\ WF_vars(TestStop(w)) /\ WF_vars(FindEmpty(w))
       /\ WF_vars(Take(w)) /\ WF_vars(Process(w))
       /\ SF_vars(Wait(w)) /\ SF_vars(Lock(w))

FairSpec == Spec /\ Fairness

-----------------------------------------------------------------------------
\* The semaphore is not negative, main and the workers stay in their own code.
TypeOK ==
  /\ m_workqueue \in Seq(Requests)
  /\ m_queuelocker \in Threads \cup {Nobody}
  /\ m_queuestat \in Nat
  /\ m_stop \in BOOLEAN
  /\ pc \in [Threads -> MainLabels \cup WorkerLabels]
  /\ pc[Main] \in MainLabels /\ \A w \in Workers : pc[w] \in WorkerLabels
  /\ request \in [Threads -> Requests \cup {NoRequest}]

\* A thread's request variable is set exactly from the moment it is given
\* a request to the moment it is done with it.
RequestHeld ==
  \A t \in Threads :
    request[t] # NoRequest <=> pc[t] \in {"append", "post", "process"}

\* The mutex names the one thread that is between lock() and unlock():
\* every path through append() and run(), the early returns too, gives the
\* mutex back, and no thread gives back what it does not hold.
LockOwner ==
  \A t \in Threads : pc[t] \in {"append", "take"} <=> m_queuelocker = t

\* The workers that were woken for a request they have not taken yet.
Awake == {w \in Workers : pc[w] \in {"lock", "take"}}

\* What is left to bring a worker to the queue: semaphore units, workers
\* already on their way, and the post that append() still owes.
Wakeups ==
  m_queuestat + Cardinality(Awake) + (IF pc[Main] = "post" THEN 1 ELSE 0)

\* No wake-up is lost: although push_back and post() are two steps, and
\* interrupted workers take requests they were not woken for, every queued
\* request has a wake-up of its own (threadpool.h:89-91, 111-124).
NoLostWakeup == Len(m_workqueue) <= Wakeups

\* append() stops accepting at m_max_requests + 1 waiting requests.
Handoff == INSTANCE RequestQueue WITH
  queue    <- m_workqueue,
  serving  <- [w \in Workers |-> request[w]],
  Capacity <- MaxRequests + 1,
  stopped  <- m_stop

\* The pool is a first-come first-served hand-over that loses and
\* duplicates nothing, and, unless it is stopped, takes every request in the
\* end, also when signals interrupt the waits of the workers: append() and
\* run() implement RequestQueue, fairness included.
HandsOver == Handoff!QFairSpec
HandsOverSafely == Handoff!QSpec

=============================================================================
