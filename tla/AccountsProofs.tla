--------------------------- MODULE AccountsProofs ---------------------------
(***************************************************************************)
(* Proofs about Accounts, for any finite set of workers, any names and     *)
(* passwords, any number of requests and restarts, and INSERTs that may    *)
(* fail.                                                                   *)
(***************************************************************************)
EXTENDS Accounts, FiniteSetTheorems, SequenceTheorems, TLAPS

Busy(w) == pc[w] \in {"lock", "query", "insert"}

InTable(a) == \E i \in 1..Len(table) : table[i] = a

\* A worker that is not idle has an account to work on.
HasJob == \A w \in Workers : pc[w] # "idle" => job[w] \in Accts

\* The INSERT and the change of the map are made with m_lock held.
UnderLock == \A w \in Workers : pc[w] \in {"query", "insert"} => m_lock = w

\* What mysql_query returned is true of the table.
ResultIsTrue ==
  \A w \in Workers : pc[w] \in {"insert", "answer"} =>
    IF res[w] THEN job[w] \in failed ELSE InTable(job[w])

\* Two workers register a name at a time only if the name is raced.
RacesAreSeen ==
  \A v, w \in Workers :
    v # w /\ Busy(v) /\ Busy(w) /\ Name(v) = Name(w) => Name(w) \in raced

\* The name that was free when it was looked up is free until the map is
\* changed.
StillFree ==
  \A w \in Workers : Busy(w) /\ Name(w) \notin raced => users[Name(w)] = None

\* A name that the map does not have has no row, except for the moment
\* between the INSERT and the change of the map.
FreeHasNoRow ==
  \A n \in Names \ raced : users[n] = None =>
    \/ Rows(n) = {}
    \/ \E w \in Workers : pc[w] = "insert" /\ Name(w) = n

\* OneRowPerName, said of two rows.
UniqueRows ==
  \A i, j \in 1..Len(table) :
    table[i][1] = table[j][1] /\ table[i][1] \notin raced => i = j

\* Until its worker answers, a new account is in the map.
AnswerIsDue ==
  \A w \in Workers :
    pc[w] = "answer" /\ ~res[w] /\ Name(w) \notin raced => LogsIn(job[w])

ConfirmedHasRow == \A a \in confirmed : InTable(a)

\* The inductive invariant, without and with the races.
Backed == TypeOK /\ HasJob /\ ResultIsTrue /\ LoginIsBacked

Registered ==
  /\ Backed
  /\ UnderLock /\ RacesAreSeen /\ StillFree /\ FreeHasNoRow /\ UniqueRows
  /\ AnswerIsDue /\ ConfirmedHasRow /\ ConfirmedLogsIn

-----------------------------------------------------------------------------
(***************************************************************************)
(* The invariant without the races.                                        *)
(***************************************************************************)
LEMMA BackedInit == Init => Backed
<1> SUFFICES ASSUME Init PROVE Backed
  OBVIOUS
<1>1. TypeOK
  BY AccountsAssumption DEF Init, TypeOK, Accts
<1>2. HasJob /\ ResultIsTrue
  BY DEF Init, HasJob, ResultIsTrue
<1>3. LoginIsBacked
  BY AccountsAssumption DEF Init, LoginIsBacked, LogsIn, Accts
<1> QED
  BY <1>1, <1>2, <1>3 DEF Backed

\* What a row more or a step that leaves the table alone keeps.
LEMMA RowsStay ==
  ASSUME TypeOK, NEW a \in Accts,
         table' = table \/ table' = Append(table, a)
  PROVE  /\ table' \in Seq(Accts)
         /\ Len(table) <= Len(table')
         /\ \A i \in 1..Len(table) : table'[i] = table[i]
         /\ \A b : InTable(b) => InTable(b)'
<1>1. table \in Seq(Accts)
  BY DEF TypeOK
<1>2. /\ table' \in Seq(Accts)
      /\ Len(table') \in {Len(table), Len(table) + 1}
      /\ \A i \in 1..Len(table) : table'[i] = table[i]
  BY <1>1
<1>3. 1..Len(table) \subseteq 1..Len(table')
  BY <1>1, <1>2
<1> QED
  BY <1>1, <1>2, <1>3 DEF InTable

LEMMA BackedStep == Backed /\ [Next]_vars => Backed'
<1> SUFFICES ASSUME Backed, [Next]_vars PROVE Backed'
  OBVIOUS
<1> USE AccountsAssumption DEF Backed
<1>a. \A w \in Workers : pc[w] # "idle" =>
        job[w] \in Accts /\ Name(w) \in Names /\ Password(w) \in Passwords
  BY DEF HasJob, Name, Password, Accts
\* A step that only moves one worker, which has a job afterwards, and changes
\* what it got from the database or the races at most.
<1>b. ASSUME NEW w \in Workers, NEW to \in {"find", "login", "lock", "query"},
             NEW from \in {"idle", "find", "lock", "query"},
             GoTo(w, from, to),
             NEW a \in Accts, job' = [job EXCEPT ![w] = a],
             UNCHANGED <<users, table, res, failed, confirmed>>,
             TypeOK'
      PROVE  Backed'
  <2>1. HasJob'
    BY <1>b DEF HasJob, GoTo, TypeOK
  <2>2. ResultIsTrue'
    BY <1>b DEF ResultIsTrue, GoTo, TypeOK, Name, InTable
  <2>3. LoginIsBacked'
    BY <1>b DEF LoginIsBacked, LogsIn
  <2> QED
    BY <1>b, <2>1, <2>2, <2>3
\* A step with which a worker is idle again.
<1>c. ASSUME NEW w \in Workers, NEW from \in {"find", "answer", "login"},
             Done(w, from), UNCHANGED <<users, table, m_lock, failed, raced>>,
             confirmed' \subseteq Accts
      PROVE  Backed'
  <2>1. TypeOK'
    BY <1>c DEF Done, GoTo, TypeOK, bounds
  <2>2. HasJob'
    BY <1>c DEF HasJob, Done, GoTo, TypeOK
  <2>3. ResultIsTrue'
    BY <1>c DEF ResultIsTrue, Done, GoTo, TypeOK, Name, InTable
  <2>4. LoginIsBacked'
    BY <1>c DEF LoginIsBacked, LogsIn
  <2> QED
    BY <2>1, <2>2, <2>3, <2>4
<1>1. ASSUME NEW w \in Workers, Request(w) PROVE Backed'
  <2>1. PICK a \in Accts, to \in {"find", "login"} : Begin(w, a, to)
    BY <1>1 DEF Request
  <2>2. TypeOK'
    BY <2>1 DEF Begin, GoTo, TypeOK, ghosts
  <2> QED
    BY <2>1, <2>2, <1>b DEF Begin, ghosts
<1>2. ASSUME NEW w \in Workers, Refuse(w) PROVE Backed'
  BY <1>2, <1>c DEF Refuse, ghosts, TypeOK
<1>3. ASSUME NEW w \in Workers, FindFree(w) PROVE Backed'
  <2>1. job' = [job EXCEPT ![w] = job[w]] /\ job[w] \in Accts
    BY <1>3, <1>a DEF FindFree, GoTo, TypeOK
  <2>2. TypeOK'
    BY <1>3, <1>a DEF FindFree, GoTo, TypeOK, bounds
  <2> QED
    BY <1>3, <1>b, <2>1, <2>2 DEF FindFree
<1>4. ASSUME NEW w \in Workers, Lock(w) PROVE Backed'
  <2>1. job' = [job EXCEPT ![w] = job[w]] /\ job[w] \in Accts
    BY <1>4, <1>a DEF Lock, GoTo, TypeOK
  <2>2. TypeOK'
    BY <1>4 DEF Lock, GoTo, TypeOK, bounds, ghosts, MutexLock
  <2> QED
    BY <1>4, <1>b, <2>1, <2>2 DEF Lock, ghosts
<1>5. ASSUME NEW w \in Workers, Query(w) PROVE Backed'
  <2>1. /\ table \in Seq(Accts) /\ table' = Append(table, job[w])
        /\ job[w] \in Accts
    BY <1>5, <1>a DEF Query, GoTo, TypeOK
  <2>2. \A b : InTable(b) => InTable(b)'
    BY <2>1, RowsStay
  <2>3. InTable(job[w])'
    <3>1. /\ Len(table') = Len(table) + 1 /\ Len(table) \in Nat
          /\ table'[Len(table) + 1] = job[w]
      BY <2>1
    <3> QED
      BY <3>1, <1>5 DEF InTable, Query
  <2>4. TypeOK'
    BY <1>5, <2>1 DEF Query, GoTo, TypeOK, bounds, ghosts
  <2>5. HasJob'
    BY <1>5, <1>a DEF HasJob, Query, GoTo, TypeOK
  <2>6. ResultIsTrue'
    BY <1>5, <2>2, <2>3 DEF ResultIsTrue, Query, GoTo, TypeOK, Name, ghosts
  <2>7. LoginIsBacked'
    BY <1>5, <2>2 DEF LoginIsBacked, LogsIn, Query, ghosts, InTable
  <2> QED
    BY <2>4, <2>5, <2>6, <2>7
<1>6. ASSUME NEW w \in Workers, QueryFails(w) PROVE Backed'
  <2>1. TypeOK'
    BY <1>6, <1>a DEF QueryFails, GoTo, TypeOK, bounds
  <2>2. HasJob'
    BY <1>6, <1>a DEF HasJob, QueryFails, GoTo, TypeOK
  <2>3. ResultIsTrue'
    BY <1>6 DEF ResultIsTrue, QueryFails, GoTo, TypeOK, Name, InTable
  <2>4. LoginIsBacked'
    BY <1>6 DEF LoginIsBacked, LogsIn, QueryFails
  <2> QED
    BY <2>1, <2>2, <2>3, <2>4
<1>7. ASSUME NEW w \in Workers, Insert(w) PROVE Backed'
  <2>1. TypeOK'
    BY <1>7, <1>a DEF Insert, GoTo, TypeOK, bounds, ghosts, MutexUnlock
  <2>2. HasJob'
    BY <1>7, <1>a DEF HasJob, Insert, GoTo, TypeOK
  <2>3. ResultIsTrue'
    BY <1>7 DEF ResultIsTrue, Insert, GoTo, TypeOK, Name, InTable, ghosts
  <2>4. LoginIsBacked'
    <3> SUFFICES ASSUME NEW a \in Accts, LogsIn(a)'
                 PROVE  a \in failed \/ InTable(a)
      BY <1>7 DEF Insert, ghosts, LoginIsBacked, InTable
    <3>1. CASE LogsIn(a)
      BY <3>1 DEF LoginIsBacked, InTable
    <3>2. CASE ~LogsIn(a)
      <4>1. pc[w] = "insert" /\ Name(w) = a[1] /\ Password(w) = a[2]
        BY <1>7, <3>2, <1>a DEF Insert, GoTo, LogsIn, TypeOK, Accts
      <4>2. job[w] = a
        BY <4>1, <1>a DEF Name, Password, Accts
      <4> QED
        BY <4>1, <4>2 DEF ResultIsTrue
    <3> QED
      BY <3>1, <3>2
  <2> QED
    BY <2>1, <2>2, <2>3, <2>4
<1>8. ASSUME NEW w \in Workers, Answer(w) PROVE Backed'
  BY <1>8, <1>a, <1>c DEF Answer, Done, GoTo, TypeOK
<1>9. ASSUME NEW w \in Workers, Login(w) PROVE Backed'
  BY <1>9, <1>c DEF Login, ghosts, TypeOK
<1>10. ASSUME Restart PROVE Backed'
  <2>1. TypeOK'
    BY <1>10 DEF Restart, TypeOK, ghosts
  <2>2. HasJob' /\ ResultIsTrue'
    BY <1>10 DEF Restart, HasJob, ResultIsTrue
  <2>3. LoginIsBacked'
    <3> SUFFICES ASSUME NEW a \in Accts, LogsIn(a)' PROVE InTable(a)'
      BY DEF LoginIsBacked, InTable
    <3>1. a[1] \in Names /\ a[2] \in Passwords /\ a = <<a[1], a[2]>>
      BY DEF Accts
    <3>2. a[2] \in Loaded(a[1]) /\ a[2] # None
      BY <1>10, <3>1 DEF Restart, LogsIn
    <3>3. PICK i \in Rows(a[1]) : table[i][2] = a[2]
      BY <3>2 DEF Loaded
    <3>4. i \in 1..Len(table) /\ table[i] \in Accts /\ table[i][1] = a[1]
      BY <3>3 DEF Rows, TypeOK
    <3>5. table[i] = a
      BY <3>1, <3>3, <3>4 DEF Accts
    <3> QED
      BY <1>10, <3>4, <3>5 DEF InTable, Restart
  <2> QED
    BY <2>1, <2>2, <2>3
<1>11. CASE UNCHANGED vars
  BY <1>11 DEF vars, memory, ghosts, bounds, TypeOK, HasJob, ResultIsTrue,
               LoginIsBacked, LogsIn, Name, InTable
<1> QED
  BY <1>1, <1>2, <1>3, <1>4, <1>5, <1>6, <1>7, <1>8, <1>9, <1>10, <1>11
  DEF Next, Step

\* Every variable keeps its type, through failed queries and restarts: the map
\* `users` gives a name one password or none, the table holds whole rows, and
\* m_lock is free or a worker's.
THEOREM TypeCorrect == Spec => []TypeOK
<1>1. Backed => TypeOK
  BY DEF Backed
<1> QED
  BY BackedInit, BackedStep, <1>1, PTL DEF Spec

\* Whoever can log in has a row in the table, but for the very accounts whose
\* INSERT failed since the server started: the map is never ahead of the table
\* in any other way, and a restart leaves none of those accounts, whatever the
\* workers race for.
THEOREM LoginsBacked == Spec => []LoginIsBacked
<1>1. Backed => LoginIsBacked
  BY DEF Backed
<1> QED
  BY BackedInit, BackedStep, <1>1, PTL DEF Spec

-----------------------------------------------------------------------------
(***************************************************************************)
(* The invariant with the races.  What an action does to it is said by     *)
(* what happens to one worker, the table and the map.                      *)
(***************************************************************************)
LEMMA RegisteredInit == Init => Registered
<1> SUFFICES ASSUME Init PROVE Registered
  OBVIOUS
<1>1. Len(table) = 0 /\ 1..Len(table) = {}
  BY DEF Init
<1>2. UnderLock /\ RacesAreSeen /\ StillFree /\ AnswerIsDue
  BY DEF Init, UnderLock, RacesAreSeen, StillFree, AnswerIsDue, Busy
<1>3. FreeHasNoRow /\ UniqueRows
  BY <1>1 DEF FreeHasNoRow, UniqueRows, Rows
<1>4. ConfirmedHasRow /\ ConfirmedLogsIn
  BY DEF Init, ConfirmedHasRow, ConfirmedLogsIn
<1> QED
  BY <1>2, <1>3, <1>4, BackedInit DEF Registered

\* A worker that is at none of the steps with the lock or between, before and
\* after its move, changes nothing the invariant speaks of.
LEMMA Bystander ==
  ASSUME Registered, Backed', NEW w \in Workers,
         pc[w] \notin {"lock", "query", "insert"},
         NEW to \in {"idle", "find", "login"},
         pc' = [pc EXCEPT ![w] = to],
         \A v \in Workers : v # w => job'[v] = job[v] /\ res'[v] = res[v],
         UNCHANGED <<users, table, m_lock, raced>>,
         confirmed' \subseteq confirmed \cup
           (IF pc[w] = "answer" /\ ~res[w] THEN {job[w]} ELSE {})
  PROVE  Registered'
<1> USE DEF Registered, Backed
<1>1. /\ \A v \in Workers : v # w => pc'[v] = pc[v] /\ Name(v)' = Name(v)
      /\ pc'[w] = to
  BY DEF TypeOK, Name
<1>2. UnderLock'
  BY <1>1 DEF UnderLock
<1>3. RacesAreSeen'
  BY <1>1 DEF RacesAreSeen, Busy
<1>4. StillFree'
  BY <1>1 DEF StillFree, Busy
<1>5. FreeHasNoRow'
  BY <1>1 DEF FreeHasNoRow, Rows
<1>6. UniqueRows'
  BY DEF UniqueRows
<1>7. AnswerIsDue'
  BY <1>1 DEF AnswerIsDue, LogsIn
<1>8. ConfirmedHasRow'
  BY DEF ConfirmedHasRow, ResultIsTrue, InTable
<1>9. ConfirmedLogsIn'
  BY DEF ConfirmedLogsIn, AnswerIsDue, LogsIn, Name
<1> QED
  BY <1>2, <1>3, <1>4, <1>5, <1>6, <1>7, <1>8, <1>9

LEMMA RegisteredStep == Registered /\ [Next]_vars => Registered'
<1> SUFFICES ASSUME Registered, [Next]_vars PROVE Registered'
  OBVIOUS
<1> USE AccountsAssumption
<1>0. Backed'
  BY BackedStep DEF Registered
<1>a. \A w \in Workers : pc[w] # "idle" =>
        job[w] \in Accts /\ Name(w) \in Names /\ Password(w) \in Passwords
  BY DEF HasJob, Name, Password, Accts, Registered, Backed
<1>1. ASSUME NEW w \in Workers, Request(w) PROVE Registered'
  <2>1. PICK a \in Accts, to \in {"find", "login"} : Begin(w, a, to)
    BY <1>1 DEF Request
  <2>2. \A v \in Workers : v # w => job'[v] = job[v]
    BY <2>1 DEF Begin, Registered, Backed, TypeOK
  <2> QED
    BY <2>1, <2>2, <1>0, Bystander DEF Begin, GoTo, ghosts
<1>b. ASSUME NEW w \in Workers, NEW from \in {"find", "answer", "login"},
             Done(w, from)
      PROVE  /\ pc[w] = from /\ pc' = [pc EXCEPT ![w] = "idle"]
             /\ \A v \in Workers : v # w => job'[v] = job[v] /\ res'[v] = res[v]
  BY <1>b DEF Done, GoTo, Registered, Backed, TypeOK
<1>2. ASSUME NEW w \in Workers, Refuse(w) PROVE Registered'
  BY <1>2, <1>b, <1>0, Bystander DEF Refuse, ghosts
<1>8. ASSUME NEW w \in Workers, Answer(w) PROVE Registered'
  <2>1. confirmed' \subseteq confirmed \cup
          (IF pc[w] = "answer" /\ ~res[w] THEN {job[w]} ELSE {})
    BY <1>8 DEF Answer, Done, GoTo
  <2> QED
    BY <1>8, <1>b, <1>0, <2>1, Bystander DEF Answer
<1>9. ASSUME NEW w \in Workers, Login(w) PROVE Registered'
  BY <1>9, <1>b, <1>0, Bystander DEF Login, ghosts
<1> USE DEF Registered, Backed
<1>3. ASSUME NEW w \in Workers, FindFree(w) PROVE Registered'
  <2>1. /\ pc[w] = "find" /\ pc' = [pc EXCEPT ![w] = "lock"]
        /\ users[Name(w)] = None
        /\ raced \subseteq raced'
        /\ UNCHANGED <<users, table, m_lock, job, res, confirmed>>
    BY <1>3 DEF FindFree, GoTo
  <2>2. UnderLock'
    BY <2>1 DEF UnderLock, TypeOK
  <2>3. RacesAreSeen'
    <3> SUFFICES ASSUME NEW u \in Workers, NEW v \in Workers,
                        u # v, Busy(u)', Busy(v)', Name(u)' = Name(v)'
                 PROVE  Name(v) \in raced'
      BY <2>1 DEF RacesAreSeen, Name
    <3>1. CASE u # w /\ v # w
      BY <2>1, <3>1 DEF RacesAreSeen, Busy, Name, TypeOK
    <3>2. CASE u = w \/ v = w
      <4>1. PICK o \in {u, v} : o # w /\ Busy(o) /\ Name(o) = Name(w)
        BY <2>1, <3>2 DEF Busy, Name, TypeOK
      <4>2. Registering(Name(w)) # {}
        BY <4>1 DEF Registering, Busy
      <4> QED
        BY <1>3, <2>1, <3>2, <4>2 DEF FindFree, Name
    <3> QED
      BY <3>1, <3>2
  <2>4. StillFree'
    BY <2>1 DEF StillFree, Busy, Name, TypeOK
  <2>5. FreeHasNoRow'
    BY <2>1 DEF FreeHasNoRow, Rows, Name, TypeOK
  <2>6. UniqueRows' /\ ConfirmedHasRow'
    BY <2>1 DEF UniqueRows, ConfirmedHasRow, InTable
  <2>7. AnswerIsDue'
    BY <2>1 DEF AnswerIsDue, Name, LogsIn, TypeOK
  <2>8. ConfirmedLogsIn'
    BY <2>1 DEF ConfirmedLogsIn, LogsIn
  <2> QED
    BY <1>0, <2>2, <2>3, <2>4, <2>5, <2>6, <2>7, <2>8
<1>4. ASSUME NEW w \in Workers, Lock(w) PROVE Registered'
  <2>1. /\ pc[w] = "lock" /\ pc' = [pc EXCEPT ![w] = "query"]
        /\ m_lock = Nobody /\ m_lock' = w
        /\ UNCHANGED <<users, table, job, res, confirmed, raced>>
    BY <1>4 DEF Lock, GoTo, MutexLock, ghosts
  <2>2. UnderLock'
    BY <2>1 DEF UnderLock, TypeOK
  <2>3. RacesAreSeen'
    BY <2>1 DEF RacesAreSeen, Busy, Name, TypeOK
  <2>4. StillFree'
    BY <2>1 DEF StillFree, Busy, Name, TypeOK
  <2>5. FreeHasNoRow'
    BY <2>1 DEF FreeHasNoRow, Rows, Name, TypeOK
  <2>6. UniqueRows' /\ ConfirmedHasRow'
    BY <2>1 DEF UniqueRows, ConfirmedHasRow, InTable
  <2>7. AnswerIsDue'
    BY <2>1 DEF AnswerIsDue, Name, LogsIn, TypeOK
  <2>8. ConfirmedLogsIn'
    BY <2>1 DEF ConfirmedLogsIn, LogsIn
  <2> QED
    BY <1>0, <2>2, <2>3, <2>4, <2>5, <2>6, <2>7, <2>8
<1>5. ASSUME NEW w \in Workers, Query(w) PROVE Registered'
  <2>1. /\ pc[w] = "query" /\ pc' = [pc EXCEPT ![w] = "insert"]
        /\ table' = Append(table, job[w])
        /\ res' = [res EXCEPT ![w] = FALSE]
        /\ UNCHANGED <<users, m_lock, job, confirmed, raced>>
    BY <1>5 DEF Query, GoTo, ghosts
  <2>2. /\ table \in Seq(Accts) /\ Len(table) \in Nat /\ job[w] \in Accts
        /\ Name(w) \in Names
        /\ Len(table') = Len(table) + 1
        /\ \A i \in 1..Len(table) : table'[i] = table[i]
        /\ table'[Len(table) + 1] = job[w]
    BY <2>1, <1>a DEF TypeOK
  <2>2a. \A i \in 1..Len(table') : i \in 1..Len(table) \/ i = Len(table) + 1
    BY <2>2
  <2>3. Name(w) \notin raced => Rows(Name(w)) = {}
    <3> SUFFICES ASSUME Name(w) \notin raced,
                        NEW v \in Workers, pc[v] = "insert", Name(v) = Name(w)
                 PROVE  FALSE
      BY <2>1, <2>2 DEF FreeHasNoRow, StillFree, Busy
    <3> QED
      BY <2>1 DEF RacesAreSeen, Busy
  <2>4. UnderLock'
    BY <2>1 DEF UnderLock, TypeOK
  <2>5. RacesAreSeen'
    BY <2>1 DEF RacesAreSeen, Busy, Name, TypeOK
  <2>6. StillFree'
    BY <2>1 DEF StillFree, Busy, Name, TypeOK
  <2>7. FreeHasNoRow'
    <3> SUFFICES ASSUME NEW n \in Names \ raced, users[n] = None, n # Name(w)
                 PROVE  \/ Rows(n)' = {}
                        \/ \E v \in Workers : pc'[v] = "insert" /\ Name(v)' = n
      BY <2>1 DEF FreeHasNoRow, Name, TypeOK
    <3>1. CASE Rows(n) = {}
      BY <2>2, <2>2a, <3>1 DEF Rows, Name
    <3>2. CASE \E v \in Workers : pc[v] = "insert" /\ Name(v) = n
      BY <2>1, <3>2 DEF Name, TypeOK
    <3> QED
      BY <3>1, <3>2 DEF FreeHasNoRow
  <2>8. UniqueRows'
    BY <2>1, <2>2, <2>2a, <2>3 DEF UniqueRows, Rows, Name
  <2>9. ConfirmedHasRow'
    BY <2>1, <2>2, RowsStay DEF ConfirmedHasRow
  <2>10. AnswerIsDue'
    BY <2>1 DEF AnswerIsDue, Name, LogsIn, TypeOK
  <2>11. ConfirmedLogsIn'
    BY <2>1 DEF ConfirmedLogsIn, LogsIn
  <2> QED
    BY <1>0, <2>4, <2>5, <2>6, <2>7, <2>8, <2>9, <2>10, <2>11
<1>6. ASSUME NEW w \in Workers, QueryFails(w) PROVE Registered'
  <2>1. /\ pc[w] = "query" /\ pc' = [pc EXCEPT ![w] = "insert"]
        /\ res' = [res EXCEPT ![w] = TRUE]
        /\ UNCHANGED <<users, table, m_lock, job, confirmed, raced>>
    BY <1>6 DEF QueryFails, GoTo
  <2>2. UnderLock'
    BY <2>1 DEF UnderLock, TypeOK
  <2>3. RacesAreSeen'
    BY <2>1 DEF RacesAreSeen, Busy, Name, TypeOK
  <2>4. StillFree'
    BY <2>1 DEF StillFree, Busy, Name, TypeOK
  <2>5. FreeHasNoRow'
    BY <2>1 DEF FreeHasNoRow, Rows, Name, TypeOK
  <2>6. UniqueRows' /\ ConfirmedHasRow'
    BY <2>1 DEF UniqueRows, ConfirmedHasRow, InTable
  <2>7. AnswerIsDue'
    BY <2>1 DEF AnswerIsDue, Name, LogsIn, TypeOK
  <2>8. ConfirmedLogsIn'
    BY <2>1 DEF ConfirmedLogsIn, LogsIn
  <2> QED
    BY <1>0, <2>2, <2>3, <2>4, <2>5, <2>6, <2>7, <2>8
<1>7. ASSUME NEW w \in Workers, Insert(w) PROVE Registered'
  <2>1. /\ pc[w] = "insert" /\ pc' = [pc EXCEPT ![w] = "answer"]
        /\ users' = IF users[Name(w)] = None
                    THEN [users EXCEPT ![Name(w)] = Password(w)] ELSE users
        /\ UNCHANGED <<table, job, res, confirmed, raced>>
    BY <1>7 DEF Insert, GoTo, ghosts
  <2>2. /\ Name(w) \in Names /\ Password(w) # None
        /\ users \in [Names -> Passwords \cup {None}]
    BY <2>1, <1>a DEF TypeOK
  <2>3. \A n \in Names : users[n] # None => users'[n] = users[n]
    BY <2>1, <2>2
  <2>4. \A a \in Accts : LogsIn(a) => LogsIn(a)'
    BY <2>3 DEF LogsIn, Accts
  <2>5. UnderLock'
    BY <2>1 DEF UnderLock, TypeOK
  <2>6. RacesAreSeen'
    BY <2>1 DEF RacesAreSeen, Busy, Name, TypeOK
  <2>7. StillFree'
    <3> SUFFICES ASSUME NEW v \in Workers, Busy(v)', Name(v)' \notin raced
                 PROVE  users'[Name(v)] = None
      BY <2>1 DEF StillFree, Name
    <3>1. v # w /\ Busy(v) /\ Name(v)' = Name(v) /\ Name(v) \in Names
      BY <2>1, <1>a DEF Busy, Name, TypeOK
    <3>2. Name(v) # Name(w)
      BY <2>1, <3>1 DEF RacesAreSeen, Busy
    <3> QED
      BY <2>1, <2>2, <3>1, <3>2 DEF StillFree
  <2>8. FreeHasNoRow'
    <3> SUFFICES ASSUME NEW n \in Names \ raced, users'[n] = None
                 PROVE  \/ Rows(n) = {}
                        \/ \E v \in Workers : pc'[v] = "insert" /\ Name(v)' = n
      BY <2>1 DEF FreeHasNoRow, Rows
    <3>1. users[n] = None /\ n # Name(w)
      BY <2>1, <2>2
    <3> QED
      BY <2>1, <3>1 DEF FreeHasNoRow, Name, TypeOK
  <2>9. UniqueRows' /\ ConfirmedHasRow'
    BY <2>1 DEF UniqueRows, ConfirmedHasRow, InTable
  <2>10. AnswerIsDue'
    <3> SUFFICES ASSUME NEW v \in Workers, pc'[v] = "answer", ~res[v],
                        Name(v) \notin raced
                 PROVE  LogsIn(job[v])'
      BY <2>1 DEF AnswerIsDue, Name, LogsIn
    <3>1. CASE v = w
      <4>1. users[Name(w)] = None
        BY <2>1, <3>1 DEF StillFree, Busy
      <4> QED
        BY <2>1, <2>2, <3>1, <4>1 DEF LogsIn, Name, Password
    <3>2. CASE v # w
      <4>1. pc[v] = "answer" /\ LogsIn(job[v]) /\ job[v] \in Accts
        BY <2>1, <3>2, <1>a DEF AnswerIsDue, TypeOK
      <4> QED
        BY <2>1, <2>4, <4>1 DEF LogsIn
    <3> QED
      BY <3>1, <3>2
  <2>11. ConfirmedLogsIn'
    BY <2>1, <2>4 DEF ConfirmedLogsIn, TypeOK, LogsIn
  <2> QED
    BY <1>0, <2>5, <2>6, <2>7, <2>8, <2>9, <2>10, <2>11
<1>10. ASSUME Restart PROVE Registered'
  <2>1. /\ pc' = [v \in Workers |-> "idle"]
        /\ \A n \in Names : users'[n] \in Loaded(n)
        /\ UNCHANGED <<table, confirmed, raced>>
    BY <1>10 DEF Restart, ghosts
  <2>2. UnderLock' /\ RacesAreSeen' /\ StillFree' /\ AnswerIsDue'
    BY <2>1 DEF UnderLock, RacesAreSeen, StillFree, AnswerIsDue, Busy
  <2>3. \A n \in Names : \A i \in Rows(n) : table[i][2] # None
    BY DEF Rows, TypeOK, Accts
  <2>4. FreeHasNoRow'
    <3> SUFFICES ASSUME NEW n \in Names, users'[n] = None PROVE Rows(n) = {}
      BY <2>1 DEF FreeHasNoRow, Rows
    <3>1. users'[n] \in Loaded(n)
      BY <2>1
    <3> QED
      BY <2>3, <3>1 DEF Loaded
  <2>5. UniqueRows' /\ ConfirmedHasRow'
    BY <2>1 DEF UniqueRows, ConfirmedHasRow, InTable
  <2>6. ConfirmedLogsIn'
    <3> SUFFICES ASSUME NEW a \in confirmed, a[1] \notin raced
                 PROVE  users'[a[1]] = a[2]
      BY <2>1 DEF ConfirmedLogsIn, LogsIn
    <3>1. PICK i \in 1..Len(table) : table[i] = a
      BY DEF ConfirmedHasRow, InTable
    <3>2. i \in Rows(a[1]) /\ a[1] \in Names
      BY <3>1 DEF Rows, TypeOK, Accts
    <3>3. \A j \in Rows(a[1]) : j = i
      BY <3>1 DEF Rows, UniqueRows
    <3> QED
      BY <2>1, <3>1, <3>2, <3>3 DEF Loaded
  <2> QED
    BY <1>0, <2>2, <2>4, <2>5, <2>6
<1>11. CASE UNCHANGED vars
  <2>1. UnderLock' /\ RacesAreSeen' /\ StillFree' /\ AnswerIsDue'
    BY <1>11 DEF vars, memory, ghosts, UnderLock, RacesAreSeen, StillFree,
                 AnswerIsDue, Busy, Name, LogsIn
  <2>2. FreeHasNoRow' /\ UniqueRows' /\ ConfirmedHasRow' /\ ConfirmedLogsIn'
    BY <1>11 DEF vars, memory, ghosts, FreeHasNoRow, UniqueRows, Rows, Name,
                 ConfirmedHasRow, ConfirmedLogsIn, InTable, LogsIn
  <2> QED
    BY <1>0, <2>1, <2>2
<1> QED
  BY <1>1, <1>2, <1>3, <1>4, <1>5, <1>6, <1>7, <1>8, <1>9, <1>10, <1>11
  DEF Next, Step

\* A name that no two workers registered at a time has one row at most.
THEOREM RowsAreUnique == Spec => []OneRowPerName
<1>1. Registered => OneRowPerName
  <2> SUFFICES ASSUME UniqueRows, NEW n \in Names \ raced
               PROVE  Cardinality(Rows(n)) <= 1
    BY DEF Registered, OneRowPerName
  <2>1. \A i, j \in Rows(n) : i = j
    BY DEF Rows, UniqueRows
  <2>2. CASE Rows(n) = {}
    BY <2>2, FS_EmptySet
  <2>3. CASE \E i \in Rows(n) : Rows(n) = {i}
    BY <2>3, FS_Singleton
  <2> QED
    BY <2>1, <2>2, <2>3
<1> QED
  BY RegisteredInit, RegisteredStep, <1>1, PTL DEF Spec

\* Whoever was sent /log.html for a name that was not raced for can log in
\* from then on: no later registration, failed INSERT or restart takes the
\* account away or changes its password.
THEOREM RegistrationLasts == Spec => []ConfirmedLogsIn
<1>1. Registered => ConfirmedLogsIn
  BY DEF Registered
<1> QED
  BY RegisteredInit, RegisteredStep, <1>1, PTL DEF Spec

=============================================================================
