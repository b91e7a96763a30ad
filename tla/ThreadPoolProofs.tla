-------------------------- MODULE ThreadPoolProofs --------------------------
(***************************************************************************)
(* Proofs about ThreadPool, for any finite set of workers, any requests    *)
(* and any limit, with and without signals and a stop.                     *)
(***************************************************************************)
EXTENDS ThreadPool, FiniteSetTheorems, TLAPS

\* The inductive invariant of the control state.
Control == TypeOK /\ RequestHeld /\ LockOwner

LEMMA ControlInit == Init => Control
<1> SUFFICES ASSUME Init PROVE Control
  OBVIOUS
<1> USE DEF Init
<1>1. TypeOK
  <2>1. m_workqueue \in Seq(Requests)
    OBVIOUS
  <2>2. pc \in [Threads -> MainLabels \cup WorkerLabels]
    BY DEF MainLabels, WorkerLabels
  <2>3. pc[Main] \in MainLabels /\ \A w \in Workers : pc[w] \in WorkerLabels
    BY ThreadsAssumption DEF MainLabels, WorkerLabels, Threads
  <2> QED
    BY <2>1, <2>2, <2>3 DEF TypeOK
<1>2. RequestHeld /\ LockOwner
  BY ThreadsAssumption DEF RequestHeld, LockOwner, Threads
<1> QED
  BY <1>1, <1>2 DEF Control

LEMMA ControlStep == Control /\ [Next]_vars => Control'
<1> SUFFICES ASSUME Control, [Next]_vars PROVE Control'
  OBVIOUS
<1> USE ThreadsAssumption, SizeAssumption
    DEF Control, TypeOK, RequestHeld, LockOwner, Threads, MainLabels,
        WorkerLabels, GoTo, MutexLock, MutexUnlock
<1>1. ASSUME NEW r \in Requests, AppendLock(r) PROVE Control'
  BY <1>1 DEF AppendLock
<1>2. CASE AppendReject
  BY <1>2 DEF AppendReject
<1>3. CASE AppendPush
  <2>1. request[Main] \in Requests
    BY <1>3 DEF AppendPush
  <2> QED
    BY <1>3, <2>1 DEF AppendPush
<1>4. CASE AppendPost
  BY <1>4 DEF AppendPost, SemPost
<1>5. CASE Destroy
  BY <1>5 DEF Destroy
<1>6. ASSUME NEW w \in Workers, TestStop(w) PROVE Control'
  BY <1>6 DEF TestStop
<1>7. ASSUME NEW w \in Workers, Wait(w) PROVE Control'
  BY <1>7 DEF Wait, SemWait
<1>8. ASSUME NEW w \in Workers, Interrupted(w) PROVE Control'
  BY <1>8 DEF Interrupted, SemInterrupted
<1>9. ASSUME NEW w \in Workers, Lock(w) PROVE Control'
  BY <1>9 DEF Lock
<1>10. ASSUME NEW w \in Workers, FindEmpty(w) PROVE Control'
  BY <1>10 DEF FindEmpty
<1>11. ASSUME NEW w \in Workers, Take(w) PROVE Control'
  BY <1>11 DEF Take
<1>12. ASSUME NEW w \in Workers, Process(w) PROVE Control'
  BY <1>12 DEF Process
<1>13. CASE UNCHANGED vars
  BY <1>13 DEF vars
<1> QED
  BY <1>1, <1>2, <1>3, <1>4, <1>5, <1>6, <1>7, <1>8, <1>9, <1>10, <1>11,
     <1>12, <1>13 DEF Next, MainStep, WorkerStep

\* Every variable keeps its type: the queue holds requests, the semaphore does
\* not go below zero, and main and the workers stay in their own code.
THEOREM TypeCorrect == Spec => []TypeOK
<1>1. Control => TypeOK
  BY DEF Control
<1> QED
  BY <1>1, ControlInit, ControlStep, PTL DEF Spec

\* The queue's mutex is held by at most one thread, the one that is between
\* lock() and unlock().
THEOREM MutualExclusion == Spec => []LockOwner
<1>1. Control => LockOwner
  BY DEF Control
<1> QED
  BY <1>1, ControlInit, ControlStep, PTL DEF Spec

-----------------------------------------------------------------------------
(***************************************************************************)
(* No lost wake-up: the steps change the number of workers awake by one    *)
(* at most, in step with the queue and the semaphore.                      *)
(***************************************************************************)
LEMMA AwakeFinite == IsFiniteSet(Awake) /\ Cardinality(Awake) \in Nat
<1>1. Awake \subseteq Workers
  BY DEF Awake
<1> QED
  BY <1>1, ThreadsAssumption, FS_Subset, FS_CardinalityType

\* A worker that starts to look for a request is one more awake.
LEMMA WakesUp ==
  ASSUME Control, NEW w \in Workers, GoTo(w, "wait", "lock")
  PROVE  Cardinality(Awake') = Cardinality(Awake) + 1
<1>1. Awake' = Awake \cup {w} /\ w \notin Awake
  BY ThreadsAssumption DEF Control, TypeOK, Awake, GoTo, Threads
<1> QED
  BY <1>1, AwakeFinite, FS_AddElement

\* A worker that leaves the critical section is one fewer.
LEMMA StopsLooking ==
  ASSUME Control, NEW w \in Workers, NEW to \in {"loop", "process"},
         GoTo(w, "take", to)
  PROVE  Cardinality(Awake') = Cardinality(Awake) - 1
<1>1. Awake' = Awake \ {w} /\ w \in Awake
  BY ThreadsAssumption DEF Control, TypeOK, Awake, GoTo, Threads
<1> QED
  BY <1>1, AwakeFinite, FS_RemoveElement

LEMMA WakeupInit == Init => NoLostWakeup
<1>1. ASSUME Init PROVE Len(m_workqueue) = 0 /\ m_queuestat = 0
  BY <1>1 DEF Init
<1> QED
  BY <1>1, AwakeFinite DEF NoLostWakeup, Wakeups

LEMMA WakeupStep ==
  Control /\ NoLostWakeup /\ [Next]_vars => NoLostWakeup'
<1> SUFFICES ASSUME Control, NoLostWakeup, [Next]_vars PROVE NoLostWakeup'
  OBVIOUS
<1> DEFINE owed == IF pc[Main] = "post" THEN 1 ELSE 0
           c == Cardinality(Awake)
<1>a. /\ c \in Nat /\ m_queuestat \in Nat /\ Len(m_workqueue) \in Nat
      /\ Len(m_workqueue) <= m_queuestat + c + owed
  BY AwakeFinite DEF NoLostWakeup, Wakeups, Control, TypeOK
\* Steps that leave the set of the workers awake alone.
<1>b. ASSUME Awake' = Awake, owed' \in Nat, m_queuestat' \in Nat,
             Len(m_workqueue') <= m_queuestat' + c + owed'
      PROVE  NoLostWakeup'
  BY <1>b DEF NoLostWakeup, Wakeups
<1>c. ASSUME pc' = pc, m_queuestat' = m_queuestat, m_workqueue' = m_workqueue
      PROVE  NoLostWakeup'
  BY <1>a, <1>b, <1>c DEF Awake
<1>d. ASSUME NEW to, NEW from, GoTo(Main, from, to) PROVE Awake' = Awake
  BY <1>d, ThreadsAssumption DEF Awake, GoTo, Control, TypeOK, Threads
<1>e. ASSUME NEW w \in Workers, pc[w] \notin {"lock", "take"},
             NEW to \in {"loop", "wait", "exited"}, pc' = [pc EXCEPT ![w] = to],
             m_queuestat' = m_queuestat, m_workqueue' = m_workqueue
      PROVE  NoLostWakeup'
  <2>1. Awake' = Awake /\ owed' = owed
    BY <1>e, ThreadsAssumption DEF Awake, Control, TypeOK, Threads
  <2> QED
    BY <1>a, <1>b, <1>e, <2>1
<1>1. ASSUME NEW r \in Requests, AppendLock(r) PROVE NoLostWakeup'
  <2>1. Awake' = Awake /\ owed' = 0 /\ owed = 0
    BY <1>1, <1>d DEF AppendLock, GoTo, Control, TypeOK, Threads
  <2> QED
    BY <1>1, <1>a, <1>b, <2>1 DEF AppendLock
<1>2. CASE AppendReject
  <2>1. Awake' = Awake /\ owed' = 0 /\ owed = 0
    BY <1>2, <1>d DEF AppendReject, GoTo, Control, TypeOK, Threads
  <2> QED
    BY <1>2, <1>a, <1>b, <2>1 DEF AppendReject
<1>3. CASE AppendPush
  <2>1. Awake' = Awake /\ owed' = 1 /\ owed = 0
    BY <1>3, <1>d DEF AppendPush, GoTo, Control, TypeOK, Threads
  <2>2. request[Main] \in Requests
    BY <1>3 DEF AppendPush, GoTo, Control, TypeOK, RequestHeld, Threads
  <2>3. Len(m_workqueue') = Len(m_workqueue) + 1
    BY <1>3, <2>2 DEF AppendPush, Control, TypeOK
  <2> QED
    BY <1>3, <1>a, <1>b, <2>1, <2>3 DEF AppendPush
<1>4. CASE AppendPost
  <2>1. Awake' = Awake /\ owed' = 0 /\ owed = 1
    BY <1>4, <1>d DEF AppendPost, GoTo, Control, TypeOK, Threads
  <2> QED
    BY <1>4, <1>a, <1>b, <2>1 DEF AppendPost, SemPost
<1>5. CASE Destroy
  <2>1. Awake' = Awake /\ owed' = 0 /\ owed = 0
    BY <1>5, <1>d DEF Destroy, GoTo, Control, TypeOK, Threads
  <2> QED
    BY <1>5, <1>a, <1>b, <2>1 DEF Destroy
<1>6. ASSUME NEW w \in Workers, TestStop(w) PROVE NoLostWakeup'
  BY <1>6, <1>e DEF TestStop, GoTo
<1>7. ASSUME NEW w \in Workers, Wait(w) PROVE NoLostWakeup'
  <2>1. Cardinality(Awake') = c + 1 /\ owed' = owed
    BY <1>7, WakesUp, ThreadsAssumption DEF Wait, GoTo, Control, TypeOK, Threads
  <2>2. m_workqueue' = m_workqueue /\ m_queuestat' = m_queuestat - 1
    BY <1>7 DEF Wait, SemWait
  <2> QED
    BY <1>a, <2>1, <2>2 DEF NoLostWakeup, Wakeups
<1>8. ASSUME NEW w \in Workers, Interrupted(w) PROVE NoLostWakeup'
  <2>1. Cardinality(Awake') = c + 1 /\ owed' = owed
    BY <1>8, WakesUp, ThreadsAssumption
       DEF Interrupted, GoTo, Control, TypeOK, Threads
  <2>2. m_workqueue' = m_workqueue /\ m_queuestat' = m_queuestat
    BY <1>8 DEF Interrupted, SemInterrupted
  <2> QED
    BY <1>a, <2>1, <2>2 DEF NoLostWakeup, Wakeups
<1>9. ASSUME NEW w \in Workers, Lock(w) PROVE NoLostWakeup'
  <2>1. Awake' = Awake /\ owed' = owed
    BY <1>9, ThreadsAssumption DEF Lock, GoTo, Awake, Control, TypeOK, Threads
  <2> QED
    BY <1>9, <1>a, <1>b, <2>1 DEF Lock
<1>10. ASSUME NEW w \in Workers, FindEmpty(w) PROVE NoLostWakeup'
  <2>1. Cardinality(Awake') = c - 1 /\ Len(m_workqueue') = 0
        /\ m_queuestat' = m_queuestat
    BY <1>10, StopsLooking DEF FindEmpty
  <2>2. Cardinality(Awake') \in Nat
    BY AwakeFinite, StopsLooking, <1>10, FS_CardinalityType, FS_Subset,
       ThreadsAssumption DEF Awake
  <2> QED
    BY <1>a, <2>1, <2>2 DEF NoLostWakeup, Wakeups
<1>11. ASSUME NEW w \in Workers, Take(w) PROVE NoLostWakeup'
  <2>1. Cardinality(Awake') = c - 1 /\ owed' = owed
    BY <1>11, StopsLooking, ThreadsAssumption
       DEF Take, GoTo, Control, TypeOK, Threads
  <2>2. Len(m_workqueue') = Len(m_workqueue) - 1 /\ m_queuestat' = m_queuestat
    BY <1>11 DEF Take, Control, TypeOK
  <2> QED
    BY <1>a, <2>1, <2>2 DEF NoLostWakeup, Wakeups
<1>12. ASSUME NEW w \in Workers, Process(w) PROVE NoLostWakeup'
  BY <1>12, <1>e DEF Process, GoTo
<1>13. CASE UNCHANGED vars
  BY <1>13, <1>c DEF vars
<1> QED
  BY <1>1, <1>2, <1>3, <1>4, <1>5, <1>6, <1>7, <1>8, <1>9, <1>10, <1>11,
     <1>12, <1>13 DEF Next, MainStep, WorkerStep

\* Every queued request has a wake-up of its own, whatever the number of
\* workers, the order of post() and wait(), and the signals.
THEOREM WakeupsSuffice == Spec => []NoLostWakeup
BY ControlInit, ControlStep, WakeupInit, WakeupStep, PTL DEF Spec

-----------------------------------------------------------------------------
(***************************************************************************)
(* The pool implements the hand-over of RequestQueue.                      *)
(***************************************************************************)
LEMMA HandoffInit == Init => Handoff!QInit
BY ThreadsAssumption DEF Init, Handoff!QInit, Threads

LEMMA HandoffStep ==
  Control /\ [Next]_vars => [Handoff!QNext]_(Handoff!qvars)
<1> SUFFICES ASSUME Control, [Next]_vars
             PROVE  Handoff!QNext \/ UNCHANGED Handoff!qvars
  BY DEF Handoff!qvars
<1> DEFINE serving == [w \in Workers |-> request[w]]
\* What the main thread does to its own request variable is not seen.
<1>a. ASSUME NEW v, request' = [request EXCEPT ![Main] = v]
      PROVE  serving' = serving
  BY <1>a, ThreadsAssumption DEF Control, TypeOK, Threads
<1>b. ASSUME m_workqueue' = m_workqueue, serving' = serving, m_stop' = m_stop
      PROVE  UNCHANGED Handoff!qvars
  BY <1>b DEF Handoff!qvars
<1>1. ASSUME NEW r \in Requests, AppendLock(r) PROVE UNCHANGED Handoff!qvars
  BY <1>1, <1>a, <1>b DEF AppendLock
<1>2. CASE AppendReject
  BY <1>2, <1>a, <1>b DEF AppendReject
<1>3. ASSUME AppendPush PROVE Handoff!QNext
  <2>1. request[Main] \in Requests
    BY <1>3 DEF AppendPush, GoTo, Control, TypeOK, RequestHeld, Threads
  <2>2. Len(m_workqueue) < MaxRequests + 1
    BY <1>3, SizeAssumption DEF AppendPush, Full, Control, TypeOK
  <2>3. Handoff!Submit(request[Main])
    BY <1>3, <2>2 DEF AppendPush, Handoff!Submit
  <2> QED
    BY <2>1, <2>3 DEF Handoff!QNext
<1>4. CASE AppendPost
  BY <1>4, <1>a, <1>b DEF AppendPost
<1>5. ASSUME Destroy PROVE Handoff!QNext
  <2>1. Handoff!Stop
    BY <1>5 DEF Destroy, Handoff!Stop
  <2> QED
    BY <2>1 DEF Handoff!QNext
<1>6. ASSUME NEW w \in Workers,
             TestStop(w) \/ Wait(w) \/ Interrupted(w) \/ Lock(w) \/ FindEmpty(w)
      PROVE  UNCHANGED Handoff!qvars
  BY <1>6, <1>b DEF TestStop, Wait, Interrupted, Lock, FindEmpty
<1>7. ASSUME NEW w \in Workers, Take(w) PROVE Handoff!QNext
  <2>1. request[w] = NoRequest
    BY <1>7 DEF Take, GoTo, Control, RequestHeld, Threads
  <2>2. serving' = [serving EXCEPT ![w] = Head(m_workqueue)]
    BY <1>7, ThreadsAssumption DEF Take, Control, TypeOK, Threads
  <2>3. Handoff!TakeNext(w)
    BY <1>7, <2>1, <2>2 DEF Take, Handoff!TakeNext
  <2> QED
    BY <2>3 DEF Handoff!QNext
<1>8. ASSUME NEW w \in Workers, Process(w) PROVE Handoff!QNext
  <2>1. request[w] # NoRequest
    BY <1>8 DEF Process, GoTo, Control, RequestHeld, Threads
  <2>2. serving' = [serving EXCEPT ![w] = NoRequest]
    BY <1>8, ThreadsAssumption DEF Process, Control, TypeOK, Threads
  <2>3. Handoff!Finish(w)
    BY <1>8, <2>1, <2>2 DEF Process, Handoff!Finish
  <2> QED
    BY <2>3 DEF Handoff!QNext
<1>9. CASE UNCHANGED vars
  BY <1>9, <1>b DEF vars
<1> QED
  BY <1>1, <1>2, <1>3, <1>4, <1>5, <1>6, <1>7, <1>8, <1>9
     DEF Next, MainStep, WorkerStep

\* append() and run() hand the accepted requests to the workers first come,
\* first served, each exactly once, and never hold more than
\* MaxRequests + 1 of them.
THEOREM ImplementsHandoff == Spec => HandsOverSafely
BY ControlInit, ControlStep, HandoffInit, HandoffStep, PTL
   DEF Spec, HandsOverSafely, Handoff!QSpec

=============================================================================
