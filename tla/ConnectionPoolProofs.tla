------------------------ MODULE ConnectionPoolProofs ------------------------
(***************************************************************************)
(* Proofs about ConnectionPool, for any finite sets of threads and         *)
(* connections, interrupted waits and the destruction of the pool          *)
(* included where a hypothesis does not exclude them.                      *)
(***************************************************************************)
EXTENDS ConnectionPool, FiniteSetTheorems, SequenceTheorems, TLAPS

\* A thread has a connection from the moment it takes it to the moment it
\* puts it back.
HoldsWhileUsed ==
  \A t \in Threads :
    /\ con[t] # NoConn => pc[t] \in {"use", "give", "undefined"}
    /\ pc[t] = "give" => con[t] # NoConn

\* What DestroyPool closed has left the list, and nobody holds it.
ClosedIsGone == Elements(connList) \cap closed = {} /\ NoClosedInUse

\* The inductive invariant of who holds what.
Ownership == TypeOK /\ HoldsWhileUsed /\ OneHolder /\ ClosedIsGone

\* DestroyPool has not begun.
Serving == pc[Main] = "serving"

LEMMA OwnershipInit == Init => Ownership
<1> SUFFICES ASSUME Init PROVE Ownership
  OBVIOUS
<1>1. Cardinality(Conns) \in Nat
  BY PoolAssumption, FS_CardinalityType
<1>2. connList \in Seq(Conns) /\ Injective(connList)
  BY <1>1 DEF Init
<1>2a. Cardinality(Conns) \in 0..UIntMax /\ 0 \in 0..UIntMax
  BY <1>1, PoolAssumption
<1>3. TypeOK
  <2>1. /\ pc \in [Users -> Labels \cup {"serving", "destroy", "unlock", "gone"}]
        /\ \A t \in Threads : pc[t] \in Labels
        /\ pc[Main] = "serving"
    BY PoolAssumption DEF Init, Users, Labels
  <2> QED
    BY <1>1, <1>2, <1>2a, <2>1, PoolAssumption DEF Init, TypeOK
<1>4. HoldsWhileUsed /\ ClosedIsGone
  BY PoolAssumption DEF Init, HoldsWhileUsed, Users, ClosedIsGone, NoClosedInUse
<1>5. OneHolder
  <2>1. con = [t \in Threads |-> NoConn] /\ NoConn \notin Conns
    BY PoolAssumption DEF Init
  <2>2. \A i \in 1..Len(connList) : connList[i] \in Conns
    BY <1>2
  <2>3. NoConn \notin Elements(connList)
    BY <2>1, <2>2 DEF Elements
  <2> QED
    BY <1>2, <2>1, <2>3 DEF OneHolder
<1> QED
  BY <1>3, <1>4, <1>5 DEF Ownership

LEMMA ListInConns ==
  ASSUME TypeOK PROVE Elements(connList) \subseteq Conns
<1>1. \A i \in 1..Len(connList) : connList[i] \in Conns
  BY DEF TypeOK
<1> QED
  BY <1>1 DEF Elements

LEMMA OwnershipStep == Ownership /\ [Next]_vars => Ownership'
<1> SUFFICES ASSUME Ownership, [Next]_vars PROVE Ownership'
  OBVIOUS
<1> USE PoolAssumption DEF Ownership
\* A step of one thread that touches neither the list nor a connection.
<1>a. ASSUME NEW t \in Threads, NEW from \in Labels, NEW to \in Labels,
             GoTo(t, from, to),
             con[t] # NoConn => to \in {"use", "give", "undefined"},
             to = "give" => con[t] # NoConn,
             UNCHANGED <<connList, counters, con, closed>>,
             reserve' \in Nat, lock' \in Users \cup {Nobody}
      PROVE  Ownership'
  <2>1. TypeOK'
    BY <1>a DEF TypeOK, GoTo, Users, counters
  <2>2. HoldsWhileUsed'
    BY <1>a DEF TypeOK, GoTo, Users, HoldsWhileUsed, Labels
  <2>3. OneHolder' /\ ClosedIsGone'
    BY <1>a, SMTT(30)
       DEF OneHolder, Injective, Elements, ClosedIsGone, NoClosedInUse
  <2> QED
    BY <2>1, <2>2, <2>3
<1> USE DEF Labels
<1>1. ASSUME NEW t \in Threads, TestEmpty(t) PROVE Ownership'
  BY <1>1, <1>a DEF TestEmpty, GoTo, TypeOK, HoldsWhileUsed
<1>2. ASSUME NEW t \in Threads, Wait(t) PROVE Ownership'
  <2>1. reserve' \in Nat /\ lock' \in Users \cup {Nobody}
    BY <1>2 DEF Wait, SemWait, TypeOK
  <2>2. con[t] = NoConn
    BY <1>2 DEF Wait, GoTo, HoldsWhileUsed
  <2> QED
    BY <1>2, <1>a, <2>1, <2>2 DEF Wait
<1>3. ASSUME NEW t \in Threads, Interrupted(t) PROVE Ownership'
  BY <1>3, <1>a DEF Interrupted, SemInterrupted, GoTo, TypeOK, HoldsWhileUsed
<1>4. ASSUME NEW t \in Threads, LockToTake(t) PROVE Ownership'
  BY <1>4, <1>a DEF LockToTake, MutexLock, GoTo, TypeOK, HoldsWhileUsed, Users
<1>5. ASSUME NEW t \in Threads, Take(t) PROVE Ownership'
  <2>1. /\ connList # << >> /\ connList \in Seq(Conns)
        /\ connList' = Tail(connList)
        /\ con' = [con EXCEPT ![t] = connList[1]]
        /\ Len(connList') = Len(connList) - 1
        /\ \A i \in 1..Len(connList') : connList'[i] = connList[i + 1]
    BY <1>5 DEF Take, TypeOK
  <2>2. Head(connList) \in Conns
    BY <2>1
  <2>3. TypeOK'
    <3>1. FreeConn' \in 0..UIntMax /\ CurConn' \in 0..UIntMax
      BY <1>5 DEF Take, TypeOK, Increment, Decrement
    <3>2. connList' \in Seq(Conns)
      BY <2>1
    <3> QED
      BY <1>5, <2>2, <3>1, <3>2 DEF Take, TypeOK, GoTo, Users, MutexUnlock
  <2>4. HoldsWhileUsed'
    BY <1>5, <2>2 DEF Take, TypeOK, GoTo, Users, HoldsWhileUsed
  <2>5. Injective(connList)'
    BY <2>1 DEF OneHolder, Injective
  <2>6. Elements(connList') \subseteq Elements(connList)
    BY <2>1 DEF Elements
  <2>7. connList[1] \in Elements(connList) /\ connList[1] \notin Elements(connList')
    BY <2>1 DEF OneHolder, Injective, Elements
  <2>8. OneHolder'
    BY <2>1, <2>5, <2>6, <2>7 DEF OneHolder, TypeOK
  <2>9. ClosedIsGone'
    <3>1. closed' = closed
      BY <1>5, SMTT(30) DEF Take
    <3> QED
      BY <2>1, <2>6, <2>7, <3>1 DEF ClosedIsGone, NoClosedInUse, TypeOK
  <2> QED
    BY <2>3, <2>4, <2>8, <2>9
<1>6. ASSUME NEW t \in Threads, ReleaseNull(t) PROVE Ownership'
  BY <1>6, <1>a DEF ReleaseNull, GoTo, TypeOK
<1>7. ASSUME NEW t \in Threads, LockToGive(t) PROVE Ownership'
  BY <1>7, <1>a DEF LockToGive, MutexLock, GoTo, TypeOK, Users
<1>8. ASSUME NEW t \in Threads, Give(t) PROVE Ownership'
  <2>1. con[t] \in Conns /\ con[t] # NoConn
    BY <1>8 DEF Give, GoTo, TypeOK, HoldsWhileUsed
  <2>2. /\ connList \in Seq(Conns)
        /\ connList' = Append(connList, con[t])
        /\ con' = [con EXCEPT ![t] = NoConn]
        /\ Len(connList') = Len(connList) + 1
        /\ \A i \in 1..Len(connList) : connList'[i] = connList[i]
        /\ connList'[Len(connList) + 1] = con[t]
    BY <1>8, <2>1 DEF Give, TypeOK
  <2>3. TypeOK'
    <3>1. FreeConn' \in 0..UIntMax /\ CurConn' \in 0..UIntMax
      BY <1>8 DEF Give, TypeOK, Increment, Decrement
    <3>2. connList' \in Seq(Conns)
      BY <2>1, <2>2
    <3> QED
      BY <1>8, <3>1, <3>2 DEF Give, TypeOK, GoTo, Users, MutexUnlock
  <2>4. HoldsWhileUsed'
    BY <1>8 DEF Give, TypeOK, GoTo, Users, HoldsWhileUsed
  <2>5. con[t] \notin Elements(connList)
    BY DEF OneHolder
  <2>6. Injective(connList)'
    BY <2>2, <2>5 DEF OneHolder, Injective, Elements
  <2>7. Elements(connList') = Elements(connList) \cup {con[t]}
    <3>1. ASSUME NEW i \in 1..Len(connList') PROVE i \in 1..Len(connList) \/ i = Len(connList) + 1
      BY <2>2
    <3>2. 1..Len(connList) \subseteq 1..Len(connList') /\ Len(connList) + 1 \in 1..Len(connList')
      BY <2>2
    <3> QED
      BY <2>2, <3>1, <3>2 DEF Elements
  <2>8. NoConn \notin Elements(connList')
    BY <2>1, <2>2, <2>7 DEF Elements
  <2>9. OneHolder'
    BY <2>1, <2>2, <2>6, <2>7, <2>8 DEF OneHolder, TypeOK
  <2>10. ClosedIsGone'
    <3>1. closed' = closed /\ NoConn \notin closed
      BY <1>8 DEF Give, TypeOK
    <3> QED
      BY <2>2, <2>7, <3>1 DEF ClosedIsGone, NoClosedInUse, TypeOK
  <2> QED
    BY <2>3, <2>4, <2>9, <2>10
<1>9. ASSUME NEW t \in Threads, Post(t) PROVE Ownership'
  <2>1. reserve' \in Nat /\ lock' \in Users \cup {Nobody}
    BY <1>9 DEF Post, SemPost, TypeOK
  <2>2. con[t] = NoConn
    BY <1>9 DEF Post, GoTo, HoldsWhileUsed
  <2> QED
    BY <1>9, <1>a, <2>1, <2>2 DEF Post
<1>10. ASSUME NEW t \in Threads, GoWrong(t) PROVE Ownership'
  <2>1. reserve' \in Nat /\ lock' \in Users \cup {Nobody}
        /\ UNCHANGED <<connList, counters, con, closed>>
    BY <1>10 DEF GoWrong, TypeOK
  <2>2. CASE GoTo(t, "take", "undefined")
    BY <2>1, <2>2, <1>a
  <2>3. CASE GoTo(t, "give", "undefined")
    BY <2>1, <2>3, <1>a
  <2> QED
    BY <1>10, <2>2, <2>3 DEF GoWrong
\* A step of DestroyPool that touches neither the list nor a connection.
<1>b. ASSUME NEW from \in {"serving", "unlock"}, NEW to \in {"destroy", "gone"},
             GoTo(Main, from, to), lock' \in Users \cup {Nobody},
             UNCHANGED <<connList, reserve, counters, con, closed>>
      PROVE  Ownership'
  <2>1. TypeOK'
    BY <1>b DEF TypeOK, GoTo, Users, counters
  <2>2. HoldsWhileUsed'
    BY <1>b DEF TypeOK, GoTo, Users, HoldsWhileUsed
  <2>3. OneHolder' /\ ClosedIsGone'
    BY <1>b DEF OneHolder, Injective, Elements, ClosedIsGone, NoClosedInUse
  <2> QED
    BY <2>1, <2>2, <2>3
<1>11. CASE DestroyLock
  BY <1>11, <1>b DEF DestroyLock, MutexLock, Users
<1>12. CASE DestroyClear
  <2>0. 0 \in 0..UIntMax
    OBVIOUS
  <2>1. Elements(connList) \subseteq Conns
    BY ListInConns
  <2>2. TypeOK'
    <3>1. connList' \in Seq(Conns) /\ closed' \subseteq Conns
      <4>1. connList \in Seq(Conns) /\ << >> \in Seq(Conns) /\ closed \subseteq Conns
        BY DEF TypeOK
      <4>2. connList' = connList \/ connList' = << >>
        BY <1>12 DEF DestroyClear
      <4>3. closed' = closed \/ closed' = closed \cup Elements(connList)
        BY <1>12 DEF DestroyClear
      <4> QED
        BY <2>1, <4>1, <4>2, <4>3
    <3> QED
      BY <1>12, <2>0, <3>1
         DEF DestroyClear, TypeOK, GoTo, Users, MutexUnlock, counters
  <2>3. HoldsWhileUsed'
    BY <1>12 DEF DestroyClear, TypeOK, GoTo, Users, HoldsWhileUsed
  <2>4. CASE connList = << >>
    <3>1. UNCHANGED <<connList, con, closed>>
      BY <1>12, <2>4 DEF DestroyClear
    <3> QED
      BY <2>2, <2>3, <3>1
         DEF OneHolder, Injective, Elements, ClosedIsGone, NoClosedInUse
  <2>5. CASE connList # << >>
    <3>1. /\ connList' = << >> /\ con' = con
          /\ closed' = closed \cup Elements(connList)
      BY <1>12, <2>5 DEF DestroyClear
    <3>2. Elements(connList') = {} /\ Injective(connList')
      BY <3>1 DEF Elements, Injective
    <3> QED
      BY <2>2, <2>3, <3>1, <3>2 DEF OneHolder, ClosedIsGone, NoClosedInUse
  <2> QED
    BY <2>4, <2>5
<1>13. CASE DestroyUnlock
  BY <1>13, <1>b DEF DestroyUnlock, MutexUnlock, Users
<1>14. CASE UNCHANGED vars
  BY <1>14 DEF vars, counters, TypeOK, HoldsWhileUsed, OneHolder, Injective,
               Elements, ClosedIsGone, NoClosedInUse
<1> QED
  BY <1>1, <1>2, <1>3, <1>4, <1>5, <1>6, <1>7, <1>8, <1>9, <1>10, <1>11,
     <1>12, <1>13, <1>14 DEF Next, Get, Release, DestroyPool

\* Once DestroyPool has begun, it is not undone.
LEMMA ServingBefore ==
  ASSUME Ownership, [Next]_vars, Serving' PROVE Serving /\ ~DestroyPool
<1> USE PoolAssumption DEF Serving
<1>1. ASSUME NEW t \in Threads, NEW from, NEW to, GoTo(t, from, to) PROVE Serving
  BY <1>1 DEF GoTo, Ownership, TypeOK, Users
<1>2. ASSUME NEW t \in Threads, Get(t) \/ Release(t) \/ GoWrong(t) PROVE Serving
  BY <1>1, <1>2 DEF Get, Release, TestEmpty, Wait, Interrupted, LockToTake, Take,
                    ReleaseNull, LockToGive, Give, Post, GoWrong
<1>3. ~DestroyPool
  BY DEF DestroyPool, DestroyLock, DestroyClear, DestroyUnlock, GoTo, Ownership,
         TypeOK, Users
<1> QED
  BY <1>2, <1>3 DEF Next, vars

LEMMA ServingStep ==
  ASSUME ~MayDestroy PROVE Ownership /\ Serving /\ [Next]_vars => Serving'
<1> SUFFICES ASSUME Ownership, Serving, [Next]_vars PROVE Serving'
  OBVIOUS
<1> USE PoolAssumption DEF Serving
<1>1. ASSUME NEW t \in Threads, NEW from, NEW to, GoTo(t, from, to) PROVE Serving'
  BY <1>1 DEF GoTo, Ownership, TypeOK, Users
<1>2. ASSUME NEW t \in Threads, Get(t) \/ Release(t) \/ GoWrong(t) PROVE Serving'
  BY <1>1, <1>2 DEF Get, Release, TestEmpty, Wait, Interrupted, LockToTake, Take,
                    ReleaseNull, LockToGive, Give, Post, GoWrong
<1>3. ~DestroyPool
  BY DEF DestroyPool, DestroyLock, DestroyClear, DestroyUnlock, GoTo
<1> QED
  BY <1>2, <1>3 DEF Next, vars

\* Every variable keeps its type: the list holds handles of the pool, the
\* semaphore never goes below zero and the counters wrap as unsigned ints.
THEOREM TypeCorrect == Spec => []TypeOK
<1>1. Ownership => TypeOK
  BY DEF Ownership
<1> QED
  BY <1>1, OwnershipInit, OwnershipStep, PTL DEF Spec

\* No thread works on a connection that DestroyPool closed, although the
\* workers are detached and run on while main() destroys the pool.
THEOREM ClosedAreFree == Spec => []NoClosedInUse
<1>1. Ownership => NoClosedInUse
  BY DEF Ownership, ClosedIsGone
<1> QED
  BY <1>1, OwnershipInit, OwnershipStep, PTL DEF Spec

\* A connection is in the list once or belongs to one thread, whatever the
\* threads, the connections and the signals, and whether or not the pool is
\* being destroyed.
THEOREM Exclusive == Spec => []OneHolder
<1>1. Ownership => OneHolder
  BY DEF Ownership
<1> QED
  BY <1>1, OwnershipInit, OwnershipStep, PTL DEF Spec

-----------------------------------------------------------------------------
(***************************************************************************)
(* The list, the mutex and the semaphore implement ResourcePool.           *)
(***************************************************************************)
LEMMA PoolInit == Init => Pool!RInit
<1> SUFFICES ASSUME Init PROVE Elements(connList) = Conns
  BY DEF Init, Pool!RInit
<1> DEFINE n == Cardinality(Conns)
<1>1. n \in Nat /\ IsFiniteSet(Conns)
  BY PoolAssumption, FS_CardinalityType
<1>2. connList \in [1..n -> Conns] /\ \A i, j \in 1..n : connList[i] = connList[j] => i = j
  BY <1>1 DEF Init, Injective
<1>3. Len(connList) = n
  BY <1>1, <1>2
<1>4. connList \in Injection(1..n, Conns)
  BY <1>2 DEF Injection, IsInjective
<1>5. IsFiniteSet(1..n) /\ Cardinality(1..n) = n
  BY <1>1, FS_Interval
<1>6. connList \in Surjection(1..n, Conns)
  BY <1>1, <1>4, <1>5, FS_Injection
<1> QED
  BY <1>2, <1>3, <1>6 DEF Elements, Surjection

LEMMA PoolStep ==
  ASSUME ~MayDestroy
  PROVE  Ownership /\ Serving /\ [Next]_vars => [Pool!RNext]_(Pool!rvars)
<1> SUFFICES ASSUME Ownership, Serving, [Next]_vars
             PROVE  Pool!RNext \/ UNCHANGED Pool!rvars
  BY DEF Pool!rvars
<1> USE DEF Ownership
<1>1. ASSUME NEW t \in Threads, Take(t) PROVE Pool!RNext
  <2>1. /\ connList # << >> /\ connList \in Seq(Conns)
        /\ connList' = Tail(connList)
        /\ con' = [con EXCEPT ![t] = connList[1]]
        /\ Len(connList') = Len(connList) - 1
        /\ \A i \in 1..Len(connList') : connList'[i] = connList[i + 1]
    BY <1>1 DEF Take, TypeOK
  <2>2. con[t] = NoConn
    BY <1>1 DEF Take, GoTo, HoldsWhileUsed
  <2>3. Elements(connList)' = Elements(connList) \ {connList[1]}
    <3>1. ASSUME NEW i \in 1..Len(connList), connList[i] # connList[1]
          PROVE  i - 1 \in 1..Len(connList') /\ connList'[i - 1] = connList[i]
      BY <2>1, <3>1
    <3>2. ASSUME NEW i \in 1..Len(connList')
          PROVE  connList'[i] = connList[i + 1] /\ connList[i + 1] # connList[1]
                 /\ i + 1 \in 1..Len(connList)
      BY <2>1, <3>2 DEF OneHolder, Injective
    <3> QED
      BY <3>1, <3>2 DEF Elements
  <2>4. connList[1] \in Elements(connList)
    BY <2>1 DEF Elements
  <2>5. Pool!Acquire(t)
    BY <2>1, <2>2, <2>3, <2>4 DEF Pool!Acquire
  <2> QED
    BY <2>5 DEF Pool!RNext
<1>2. ASSUME NEW t \in Threads, Give(t) PROVE Pool!RNext
  <2>1. con[t] \in Conns /\ con[t] # NoConn
    BY <1>2 DEF Give, GoTo, TypeOK, HoldsWhileUsed
  <2>2. /\ connList \in Seq(Conns)
        /\ connList' = Append(connList, con[t])
        /\ con' = [con EXCEPT ![t] = NoConn]
        /\ Len(connList') = Len(connList) + 1
        /\ \A i \in 1..Len(connList) : connList'[i] = connList[i]
        /\ connList'[Len(connList) + 1] = con[t]
    BY <1>2, <2>1 DEF Give, TypeOK
  <2>3. Elements(connList)' = Elements(connList) \cup {con[t]}
    <3>1. ASSUME NEW i \in 1..Len(connList')
          PROVE  i \in 1..Len(connList) \/ i = Len(connList) + 1
      BY <2>2
    <3>2. /\ 1..Len(connList) \subseteq 1..Len(connList')
          /\ Len(connList) + 1 \in 1..Len(connList')
      BY <2>2
    <3> QED
      BY <2>2, <3>1, <3>2 DEF Elements
  <2>4. Pool!Release(t)
    BY <2>1, <2>2, <2>3 DEF Pool!Release
  <2> QED
    BY <2>4 DEF Pool!RNext
<1>3. ASSUME UNCHANGED <<connList, con>> PROVE UNCHANGED Pool!rvars
  BY <1>3 DEF Pool!rvars, Elements
<1>4. ASSUME NEW t \in Threads,
             \/ TestEmpty(t) \/ Wait(t) \/ Interrupted(t) \/ LockToTake(t)
             \/ ReleaseNull(t) \/ LockToGive(t) \/ Post(t) \/ GoWrong(t)
      PROVE  UNCHANGED Pool!rvars
  BY <1>3, <1>4 DEF TestEmpty, Wait, Interrupted, LockToTake, ReleaseNull,
                    LockToGive, Post, GoWrong
<1>5. ~DestroyPool
  BY DEF DestroyPool, DestroyLock, DestroyClear, DestroyUnlock, GoTo, Serving
<1>6. CASE UNCHANGED vars
  BY <1>3, <1>6 DEF vars
<1> QED
  BY <1>1, <1>2, <1>4, <1>5, <1>6 DEF Next, Get, Release

\* GetConnection and ReleaseConnection implement a pool of resources that
\* each belong to one thread at a time, as long as the pool is not destroyed.
THEOREM ImplementsResourcePool ==
  ASSUME ~MayDestroy PROVE Spec => IsResourcePool
<1>1. Init => Serving
  BY DEF Init, Serving, Users
<1> QED
  BY <1>1, OwnershipInit, OwnershipStep, ServingStep, PoolInit, PoolStep, PTL
   DEF Spec, IsResourcePool, Pool!RSpec

-----------------------------------------------------------------------------
(***************************************************************************)
(* Counting: the threads that have a connection against the list, and the  *)
(* threads that have a unit of reserve against the semaphore.              *)
(***************************************************************************)
Holders == {t \in Threads : con[t] # NoConn}

ListConserved == Len(connList) + Cardinality(Holders) = Cardinality(Conns)

\* No wait is ever interrupted: there are no signals, or no thread blocks.
Calm == ~SignalsHit \/ Cardinality(Threads) <= Cardinality(Conns)

LEMMA Sizes ==
  /\ IsFiniteSet(Busy) /\ Cardinality(Busy) \in Nat
  /\ IsFiniteSet(Holders) /\ Cardinality(Holders) \in Nat
  /\ Cardinality(Conns) \in Nat /\ Cardinality(Threads) \in Nat
<1>1. Busy \subseteq Threads /\ Holders \subseteq Threads
  BY DEF Busy, Holders
<1> QED
  BY <1>1, PoolAssumption, FS_Subset, FS_CardinalityType

\* A set that some thread is not in has fewer members than there are threads.
LEMMA NotAll ==
  ASSUME NEW t \in Threads, NEW S \in SUBSET Threads, t \notin S
  PROVE  Cardinality(S) < Cardinality(Threads)
<1>1. IsFiniteSet(Threads \ {t}) /\ Cardinality(Threads \ {t}) = Cardinality(Threads) - 1
  BY PoolAssumption, FS_RemoveElement
<1>2. S \subseteq Threads \ {t}
  OBVIOUS
<1>3. Cardinality(S) <= Cardinality(Threads \ {t})
  BY <1>1, <1>2, FS_Subset
<1>4. Cardinality(S) \in Nat /\ Cardinality(Threads) \in Nat
  BY <1>1, <1>2, FS_Subset, FS_CardinalityType, PoolAssumption
<1> QED
  BY <1>1, <1>3, <1>4

LEMMA CountsInit == Init => ListConserved /\ CountersAgree /\ UnitsConserved
<1> SUFFICES ASSUME Init PROVE ListConserved /\ CountersAgree /\ UnitsConserved
  OBVIOUS
<1>1. Holders = {} /\ Busy = {}
  BY PoolAssumption DEF Init, Holders, Busy, Users
<1>2. Len(connList) = Cardinality(Conns)
  BY Sizes DEF Init
<1>3. Cardinality({}) = 0
  BY FS_EmptySet
<1> QED
  BY <1>1, <1>2, <1>3, Sizes DEF Init, ListConserved, CountersAgree, UnitsConserved

\* Until DestroyPool begins, the list and the counters agree.
Counted == Serving => ListConserved /\ CountersAgree

LEMMA ListStep == Ownership /\ Counted /\ [Next]_vars => Counted'
<1> SUFFICES ASSUME Ownership, Counted, [Next]_vars, Serving'
             PROVE  ListConserved' /\ CountersAgree'
  BY DEF Counted
<1> USE DEF Ownership
<1>s. ListConserved /\ CountersAgree /\ ~DestroyPool
  BY ServingBefore DEF Counted
<1>0. Len(connList) \in Nat /\ Len(connList) <= Cardinality(Conns)
      /\ Cardinality(Conns) <= UIntMax /\ UIntMax \in Nat
  BY <1>s, Sizes, PoolAssumption DEF TypeOK, ListConserved
<1>1. ASSUME NEW t \in Threads, Take(t)
      PROVE  ListConserved' /\ CountersAgree'
  <2>1. /\ Len(connList') = Len(connList) - 1 /\ Len(connList) > 0
        /\ Head(connList) \in Conns /\ con' = [con EXCEPT ![t] = Head(connList)]
    BY <1>1 DEF Take, TypeOK
  <2>2. con[t] = NoConn
    BY <1>1 DEF Take, GoTo, HoldsWhileUsed
  <2>3. Holders' = Holders \cup {t} /\ t \notin Holders
    BY <2>1, <2>2, PoolAssumption DEF Holders, TypeOK
  <2>4. Cardinality(Holders)' = Cardinality(Holders) + 1
    BY <2>3, Sizes, FS_AddElement
  <2>5. FreeConn' = FreeConn - 1 /\ CurConn' = CurConn + 1
    BY <1>s, <1>0, <1>1, <2>1, Sizes DEF Take, Increment, Decrement, CountersAgree
  <2>6. ListConserved'
    BY <1>s, <1>0, <2>1, <2>4, Sizes DEF ListConserved
  <2>7. CountersAgree'
    BY <1>s, <1>0, <2>1, <2>5, Sizes, SMTT(30) DEF CountersAgree
  <2> QED
    BY <2>6, <2>7
<1>2. ASSUME NEW t \in Threads, Give(t)
      PROVE  ListConserved' /\ CountersAgree'
  <2>1. con[t] \in Conns /\ con[t] # NoConn
    BY <1>2 DEF Give, GoTo, TypeOK, HoldsWhileUsed
  <2>2. Len(connList') = Len(connList) + 1 /\ con' = [con EXCEPT ![t] = NoConn]
    BY <1>2, <2>1 DEF Give, TypeOK
  <2>3. Holders' = Holders \ {t} /\ t \in Holders
    BY <2>1, <2>2 DEF Holders, TypeOK
  <2>4. Cardinality(Holders)' = Cardinality(Holders) - 1
    BY <2>3, Sizes, FS_RemoveElement
  <2>5. Cardinality(Holders)' \in Nat
    BY <2>3, Sizes, FS_RemoveElement, FS_CardinalityType
  <2>6. Len(connList) < Cardinality(Conns)
    BY <1>s, <1>0, <2>4, <2>5, Sizes DEF ListConserved
  <2>7. FreeConn' = FreeConn + 1 /\ CurConn' = CurConn - 1
    BY <1>s, <1>0, <1>2, <2>6, Sizes, SMTT(30)
       DEF Give, Increment, Decrement, CountersAgree
  <2>8. ListConserved'
    BY <1>s, <1>0, <2>2, <2>4, Sizes DEF ListConserved
  <2>9. CountersAgree'
    BY <1>s, <1>0, <2>2, <2>7, Sizes, SMTT(30) DEF CountersAgree
  <2> QED
    BY <2>8, <2>9
<1>3. ASSUME UNCHANGED <<connList, con, counters>>
      PROVE  ListConserved' /\ CountersAgree'
  BY <1>s, <1>3 DEF counters, ListConserved, CountersAgree, Holders
<1>4. ASSUME NEW t \in Threads,
             \/ TestEmpty(t) \/ Wait(t) \/ Interrupted(t) \/ LockToTake(t)
             \/ ReleaseNull(t) \/ LockToGive(t) \/ Post(t) \/ GoWrong(t)
      PROVE  ListConserved' /\ CountersAgree'
  BY <1>3, <1>4 DEF TestEmpty, Wait, Interrupted, LockToTake, ReleaseNull,
                    LockToGive, Post, GoWrong
<1>5. CASE UNCHANGED vars
  BY <1>3, <1>5 DEF vars, counters
<1> QED
  BY <1>s, <1>1, <1>2, <1>4, <1>5 DEF Next, Get, Release

LEMMA UnitsStep ==
  ASSUME Calm
  PROVE  Ownership /\ UnitsConserved /\ [Next]_vars => UnitsConserved'
<1> SUFFICES ASSUME Ownership, UnitsConserved, [Next]_vars
             PROVE  UnitsConserved'
  OBVIOUS
<1> USE DEF Ownership
<1>a. ASSUME Busy' = Busy, reserve' = reserve PROVE UnitsConserved'
  BY <1>a DEF UnitsConserved
<1>b. ASSUME NEW t \in Threads, NEW from, NEW to, GoTo(t, from, to), con' = con
      PROVE  \A u \in Threads \ {t} : u \in Busy' <=> u \in Busy
  BY <1>b DEF GoTo, TypeOK, Users, Busy
<1>1. ASSUME NEW t \in Threads,
             TestEmpty(t) \/ LockToTake(t) \/ ReleaseNull(t) \/ LockToGive(t)
             \/ GoWrong(t)
      PROVE  UnitsConserved'
  <2>1. con' = con /\ reserve' = reserve
    BY <1>1 DEF TestEmpty, LockToTake, ReleaseNull, LockToGive, GoWrong
  <2>2. \A u \in Threads \ {t} : u \in Busy' <=> u \in Busy
    BY <1>1, <1>b, <2>1
       DEF TestEmpty, LockToTake, ReleaseNull, LockToGive, GoWrong
  <2>3. t \in Busy' <=> t \in Busy
    BY <1>1, <2>1 DEF TestEmpty, LockToTake, ReleaseNull, LockToGive, GoWrong,
                      GoTo, TypeOK, Users, HoldsWhileUsed, Busy
  <2>4. Busy' = Busy
    BY <2>2, <2>3 DEF Busy
  <2> QED
    BY <1>a, <2>1, <2>4
<1>2. ASSUME NEW t \in Threads, Wait(t) PROVE UnitsConserved'
  <2>1. con' = con /\ reserve' = reserve - 1 /\ reserve \in Nat
    BY <1>2 DEF Wait, SemWait, TypeOK
  <2>2. t \notin Busy /\ t \in Busy'
    BY <1>2 DEF Wait, GoTo, TypeOK, Users, Busy
  <2>3. \A u \in Threads \ {t} : u \in Busy' <=> u \in Busy
    BY <1>2, <1>b, <2>1 DEF Wait
  <2>4. Busy' = Busy \cup {t}
    BY <2>2, <2>3 DEF Busy
  <2>5. Cardinality(Busy)' = Cardinality(Busy) + 1
    BY <2>2, <2>4, Sizes, FS_AddElement
  <2> QED
    BY <2>1, <2>5, Sizes DEF UnitsConserved
<1>3. ASSUME NEW t \in Threads, Interrupted(t) PROVE FALSE
  <2>1. t \notin Busy /\ reserve = 0 /\ SignalsHit
    BY <1>3 DEF Interrupted, SemInterrupted, GoTo, Busy
  <2>2. Cardinality(Busy) < Cardinality(Threads)
    BY <2>1, NotAll DEF Busy
  <2> QED
    BY <2>1, <2>2, Sizes DEF Calm, UnitsConserved
<1>4. ASSUME NEW t \in Threads, Take(t) \/ Give(t) PROVE UnitsConserved'
  <2>1. reserve' = reserve
    BY <1>4 DEF Take, Give
  <2>2. \A u \in Threads \ {t} : con'[u] = con[u] /\ pc'[u] = pc[u]
    BY <1>4 DEF Take, Give, GoTo, TypeOK, Users
  <2>3. t \in Busy
    BY <1>4 DEF Take, Give, GoTo, Busy
  <2>4. t \in Busy'
    <3>1. CASE Take(t)
      <4>1. Head(connList) \in Conns
        BY <3>1 DEF Take, TypeOK
      <4> QED
        BY <3>1, <4>1, PoolAssumption DEF Take, GoTo, TypeOK, Users, Busy
    <3>2. CASE Give(t)
      BY <3>2 DEF Give, GoTo, TypeOK, Users, Busy
    <3> QED
      BY <1>4, <3>1, <3>2
  <2>5. Busy' = Busy
    BY <2>2, <2>3, <2>4 DEF Busy
  <2> QED
    BY <1>a, <2>1, <2>5
<1>5. ASSUME NEW t \in Threads, Post(t) PROVE UnitsConserved'
  <2>1. con' = con /\ reserve' = reserve + 1 /\ reserve \in Nat
    BY <1>5 DEF Post, SemPost, TypeOK
  <2>2. t \in Busy /\ t \notin Busy'
    BY <1>5 DEF Post, GoTo, TypeOK, Users, Busy
  <2>3. \A u \in Threads \ {t} : u \in Busy' <=> u \in Busy
    BY <1>5, <1>b, <2>1 DEF Post
  <2>4. Busy' = Busy \ {t}
    BY <2>2, <2>3 DEF Busy
  <2>5. Cardinality(Busy)' = Cardinality(Busy) - 1
    BY <2>2, <2>4, Sizes, FS_RemoveElement
  <2> QED
    BY <2>1, <2>5, Sizes DEF UnitsConserved
<1>6. CASE DestroyPool
  <2>1. con' = con /\ reserve' = reserve
    BY <1>6 DEF DestroyPool, DestroyLock, DestroyClear, DestroyUnlock
  <2>2. \A u \in Threads : pc'[u] = pc[u]
    BY <1>6, PoolAssumption
       DEF DestroyPool, DestroyLock, DestroyClear, DestroyUnlock, GoTo, TypeOK, Users
  <2>3. Busy' = Busy
    BY <2>1, <2>2 DEF Busy
  <2> QED
    BY <1>a, <2>1, <2>3
<1>7. CASE UNCHANGED vars
  BY <1>7, <1>a DEF vars, Busy
<1> QED
  BY <1>1, <1>2, <1>3, <1>4, <1>5, <1>6, <1>7 DEF Next, Get, Release

\* The units of the semaphore agree with the threads that claim a connection,
\* destruction of the pool included, when no wait is ever interrupted.
THEOREM UnitsAgree == ASSUME Calm PROVE Spec => []UnitsConserved
BY OwnershipInit, OwnershipStep, CountsInit, UnitsStep, PTL DEF Spec

\* Until DestroyPool begins, the counters agree with the list, interrupted
\* waits or not.
THEOREM CountersFollow == Spec => [](Serving => CountersAgree)
<1>1. Init => Counted
  BY CountsInit DEF Counted
<1>2. Counted => (Serving => CountersAgree)
  BY DEF Counted
<1> QED
  BY <1>1, <1>2, OwnershipInit, OwnershipStep, ListStep, PTL DEF Spec

-----------------------------------------------------------------------------
(***************************************************************************)
(* Enough connections for every thread                                     *)
(***************************************************************************)
Ample == Cardinality(Threads) <= Cardinality(Conns)

\* Until DestroyPool begins, a thread in use of a connection has one; a thread
\* that asks for one finds the list not empty.
NeverNull ==
  Serving => \A t \in Threads : pc[t] = "use" => con[t] # NoConn

LEMMA NeverNullInit == Init => NeverNull
BY PoolAssumption DEF Init, Users, NeverNull

LEMMA ListNotEmpty ==
  ASSUME Ample, Ownership, ListConserved,
         NEW t \in Threads, con[t] = NoConn
  PROVE  connList # << >>
<1>1. Cardinality(Holders) < Cardinality(Threads)
  BY NotAll DEF Holders
<1> QED
  BY <1>1, Sizes DEF Ample, ListConserved, Ownership, TypeOK

LEMMA NeverNullStep ==
  ASSUME Ample
  PROVE  Ownership /\ Counted /\ [Next]_vars /\ NeverNull => NeverNull'
<1> SUFFICES ASSUME Ownership, Counted, [Next]_vars, NeverNull, Serving',
                    NEW t \in Threads, pc'[t] = "use"
             PROVE  con'[t] # NoConn
  BY DEF NeverNull
<1> USE DEF Ownership, TypeOK, Users
<1>s. /\ ListConserved /\ ~DestroyPool
      /\ \A u \in Threads : pc[u] = "use" => con[u] # NoConn
  BY ServingBefore DEF Counted, NeverNull
<1>1. ASSUME NEW u \in Threads, TestEmpty(u) PROVE con'[t] # NoConn
  <2>1. con[u] = NoConn
    BY <1>1 DEF TestEmpty, GoTo, HoldsWhileUsed
  <2>2. connList # << >>
    BY <1>s, <2>1, ListNotEmpty
  <2> QED
    BY <1>s, <1>1, <2>2 DEF TestEmpty, GoTo
<1>2. ASSUME NEW u \in Threads, Take(u) PROVE con'[t] # NoConn
  <2>1. Head(connList) # NoConn
    BY <1>2, PoolAssumption DEF Take
  <2> QED
    BY <1>s, <1>2, <2>1 DEF Take, GoTo
<1>3. ASSUME NEW u \in Threads, Give(u) PROVE con'[t] # NoConn
  BY <1>s, <1>3 DEF Give, GoTo
<1>4. ASSUME NEW u \in Threads,
             \/ Wait(u) \/ Interrupted(u) \/ LockToTake(u)
             \/ ReleaseNull(u) \/ LockToGive(u) \/ Post(u) \/ GoWrong(u)
      PROVE  con'[t] # NoConn
  BY <1>s, <1>4 DEF Wait, Interrupted, LockToTake, ReleaseNull, LockToGive, Post,
                    GoWrong, GoTo
<1>5. CASE UNCHANGED vars
  BY <1>s, <1>5 DEF vars
<1> QED
  BY <1>s, <1>1, <1>2, <1>3, <1>4, <1>5 DEF Next, Get, Release

\* With at least as many connections as threads, GetConnection never returns
\* NULL, never blocks, and never takes from an empty list, although it tests
\* the list before it locks it and although signals may come at any time, as
\* long as main() has not begun to destroy the pool.
THEOREM AmpleNeverStarves == ASSUME Ample PROVE Spec => []NeverStarved
<1>1. Calm
  BY DEF Calm, Ample
<1>2. ASSUME Ownership, Counted, UnitsConserved, NeverNull, Serving
      PROVE  NeverStarved
  <2>0. ListConserved /\ \A t \in Threads : pc[t] = "use" => con[t] # NoConn
    BY <1>2 DEF Counted, NeverNull
  <2>1. ASSUME NEW t \in Threads, pc[t] = "wait" PROVE reserve > 0
    <3>1. Cardinality(Busy) < Cardinality(Threads)
      BY <2>1, NotAll DEF Busy
    <3> QED
      BY <1>2, <3>1, Sizes DEF Ample, UnitsConserved, Ownership, TypeOK
  <2>2. ASSUME NEW t \in Threads, pc[t] = "take" PROVE connList # << >>
    BY <1>2, <2>0, <2>2, ListNotEmpty DEF Ownership, HoldsWhileUsed
  <2> QED
    BY <2>0, <2>1, <2>2 DEF NeverStarved
<1>3. ~Serving => NeverStarved
  BY DEF Serving, NeverStarved
<1>4. Init => Counted
  BY CountsInit DEF Counted
<1> QED
  BY <1>1, <1>2, <1>3, <1>4, NeverNullInit, NeverNullStep, OwnershipInit,
     OwnershipStep, CountsInit, ListStep, UnitsStep, PTL DEF Spec

=============================================================================
