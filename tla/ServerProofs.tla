---------------------------- MODULE ServerProofs ----------------------------
(***************************************************************************)
(* Proofs about Server, for any finite set of descriptors, any workers,    *)
(* any number of connections and any limits.                               *)
(***************************************************************************)
EXTENDS Server, FiniteSetTheorems, SequenceTheorems, TLAPS

(***************************************************************************)
(* Whatever the workers and the clients do.                                *)
(***************************************************************************)
Typed ==
  /\ TypeOK /\ timer_lst \in Seq(Jobs) /\ workqueue \in Seq(Jobs)
  /\ \A w \in Workers : loaded[w] <= MaxFd
  /\ Event("accept", -1) \in events => accepted < MaxConns

ArmedIsOpen == \A fd \in Fds : armed[fd] # "off" => Open(fd)

OneEventEach == \A d, e \in events : d.fd \in Fds /\ d.fd = e.fd => d = e

Timed ==
  /\ Typed /\ ArmedIsOpen /\ OneEventEach
  /\ OpenHasTimer /\ NoDanglingTimer

(***************************************************************************)
(* If every request has an answer and is finished before its timer fires.  *)
(***************************************************************************)
Orderly == Patient /\ ~BadRequests

Processing == \A w \in Workers : pc[w] = "process"

HasJob(fd) == \E job \in Jobs : InWork(job) /\ job[1] = fd

\* A job is for the connection that is open, which keeps its object.
JobsAreLive ==
  /\ \A job \in Jobs : InWork(job) => conn[job[1]] = job[2]
  /\ \A fd \in Fds : Open(fd) => m_sockfd[fd] = fd

\* epoll and main's batch have what no worker has.
Watched ==
  /\ \A e \in events : e.fd \in Fds =>
       Open(e.fd) /\ armed[e.fd] = "off" /\ ~HasJob(e.fd)
  /\ \A fd \in Fds : armed[fd] # "off" => ~HasJob(fd)

JobsDiffer ==
  /\ \A i, j \in 1..Len(workqueue) : workqueue[i][1] = workqueue[j][1] => i = j
  /\ \A v, w \in Workers :
       req[v] # NoJob /\ req[w] # NoJob /\ Object(v) = Object(w) => v = w
  /\ \A i \in 1..Len(workqueue), w \in Workers :
       req[w] # NoJob => workqueue[i][1] # Object(w)

\* The timers are those of the open connections, one each.
TimersAreLive ==
  /\ \A i \in 1..Len(timer_lst) : conn[timer_lst[i][1]] = timer_lst[i][2]
  /\ \A i, j \in 1..Len(timer_lst) : timer_lst[i][1] = timer_lst[j][1] => i = j

EndedIsStill ==
  ended => /\ stop_server /\ ~timeout /\ events = {}
           /\ \A fd \in Fds : ~Open(fd) /\ ~HasJob(fd)

Owned ==
  /\ Timed /\ Processing /\ JobsAreLive /\ Watched /\ JobsDiffer
  /\ TimersAreLive /\ CountsConnections /\ EndedIsStill

-----------------------------------------------------------------------------
(***************************************************************************)
(* The list of the timers and the queue of the requests.                   *)
(***************************************************************************)
LEMMA RemoveAtElements ==
  ASSUME NEW S, NEW s \in Seq(S), NEW i \in 1..Len(s), NEW r, r = RemoveAt(s, i)
  PROVE  /\ r \in Seq(S) /\ Len(r) = Len(s) - 1
         /\ \A j \in 1..Len(r) : r[j] = IF j < i THEN s[j] ELSE s[j + 1]
<1> DEFINE a == SubSeq(s, 1, i - 1)
           b == SubSeq(s, i + 1, Len(s))
<1>0. Len(s) \in Nat /\ i \in Nat \ {0}
  OBVIOUS
<1>1. /\ a \in Seq(S) /\ Len(a) = i - 1
      /\ \A j \in 1..(i - 1) : a[j] = s[j]
  <2>1. \A j \in 1..(i - 1) : s[j] \in S
    BY <1>0
  <2>2. /\ a \in Seq(S) /\ Len(a) = IF 1 <= i - 1 THEN (i - 1) - 1 + 1 ELSE 0
        /\ \A j \in 1..((i - 1) - 1 + 1) : a[j] = s[1 + j - 1]
    BY <1>0, <2>1, SubSeqProperties
  <2>3. (i - 1) - 1 + 1 = i - 1 /\ \A j \in 1..(i - 1) : 1 + j - 1 = j
    BY <1>0
  <2> QED
    BY <1>0, <2>2, <2>3
<1>2. /\ b \in Seq(S) /\ Len(b) = Len(s) - i
      /\ \A j \in 1..(Len(s) - i) : b[j] = s[i + j]
  <2>1. \A j \in (i + 1)..Len(s) : s[j] \in S
    BY <1>0
  <2>2. /\ b \in Seq(S)
        /\ Len(b) = IF i + 1 <= Len(s) THEN Len(s) - (i + 1) + 1 ELSE 0
        /\ \A j \in 1..(Len(s) - (i + 1) + 1) : b[j] = s[(i + 1) + j - 1]
    BY <1>0, <2>1, SubSeqProperties
  <2>3. /\ Len(s) - (i + 1) + 1 = Len(s) - i
        /\ \A j \in 1..(Len(s) - i) : (i + 1) + j - 1 = i + j
    BY <1>0
  <2>4. ASSUME NEW j \in 1..(Len(s) - i) PROVE b[j] = s[i + j]
    <3>1. b[j] = s[(i + 1) + j - 1]
      BY <2>2, <2>3
    <3> QED
      BY <2>3, <3>1
  <2>5. Len(b) = Len(s) - i
    BY <1>0, <2>2
  <2> QED
    BY <2>2, <2>4, <2>5
<1> HIDE DEF a, b
<1>3. r = a \o b
  BY DEF RemoveAt, a, b
<1>4. /\ r \in Seq(S) /\ Len(r) = Len(a) + Len(b)
      /\ \A j \in 1..(Len(a) + Len(b)) :
           r[j] = IF j <= Len(a) THEN a[j] ELSE b[j - Len(a)]
  <2>1. a \in Seq(S) /\ b \in Seq(S)
    BY <1>1, <1>2
  <2>2. /\ a \o b \in Seq(S) /\ Len(a \o b) = Len(a) + Len(b)
        /\ \A j \in 1..(Len(a) + Len(b)) :
             (a \o b)[j] = IF j <= Len(a) THEN a[j] ELSE b[j - Len(a)]
    BY <2>1, ConcatProperties
  <2> QED
    BY <1>3, <2>2
<1>5. Len(a) + Len(b) = Len(s) - 1
  BY <1>0, <1>1, <1>2
<1>6. ASSUME NEW j \in 1..(Len(s) - 1)
      PROVE  r[j] = IF j < i THEN s[j] ELSE s[j + 1]
  <2>1. CASE j < i
    BY <1>0, <1>1, <1>4, <1>5, <2>1
  <2>2. CASE ~(j < i)
    <3>1. PICK k \in 1..(Len(s) - i) : k = j - (i - 1) /\ i + k = j + 1
      BY <1>0, <2>2
    <3>2. r[j] = b[k]
      <4>1. j \in 1..(Len(a) + Len(b)) /\ ~(j <= Len(a)) /\ j - Len(a) = k
        BY <1>0, <1>1, <1>5, <2>2, <3>1
      <4>2. r[j] = b[j - Len(a)]
        BY <1>4, <4>1
      <4> QED
        BY <4>1, <4>2
    <3>3. b[k] = s[i + k]
      BY <1>2
    <3> QED
      BY <2>2, <3>1, <3>2, <3>3
  <2> QED
    BY <2>1, <2>2
<1> QED
  BY <1>4, <1>5, <1>6

\* What is left in a list after one of its elements is removed.
LEMMA RemoveAtKeeps ==
  ASSUME NEW S, NEW s \in Seq(S), NEW i \in 1..Len(s), NEW r, r = RemoveAt(s, i)
  PROVE  /\ \A x : Contains(s, x) /\ x # s[i] => Contains(r, x)
         /\ \A j \in 1..Len(r) : \E k \in 1..Len(s) : k # i /\ r[j] = s[k]
<1>0. /\ Len(s) \in Nat /\ Len(r) = Len(s) - 1
      /\ \A j \in 1..Len(r) : r[j] = IF j < i THEN s[j] ELSE s[j + 1]
  BY RemoveAtElements
<1>1. ASSUME NEW k \in 1..Len(s), k # i PROVE \E j \in 1..Len(r) : r[j] = s[k]
  <2>1. CASE k < i
    <3>1. k \in 1..Len(r)
      BY <1>0, <2>1
    <3> QED
      BY <1>0, <2>1, <3>1
  <2>2. CASE k > i
    <3>1. PICK j \in 1..Len(r) : j = k - 1 /\ ~(j < i) /\ j + 1 = k
      BY <1>0, <2>2
    <3> QED
      BY <1>0, <3>1
  <2> QED
    BY <1>0, <1>1, <2>1, <2>2
<1>2. ASSUME NEW j \in 1..Len(r) PROVE \E k \in 1..Len(s) : k # i /\ r[j] = s[k]
  <2>1. CASE j < i
    <3>1. j \in 1..Len(s) /\ j # i
      BY <1>0, <2>1
    <3> QED
      BY <1>0, <2>1, <3>1
  <2>2. CASE ~(j < i)
    <3>1. PICK k \in 1..Len(s) : k = j + 1 /\ k # i
      BY <1>0, <2>2
    <3> QED
      BY <1>0, <2>2, <3>1
  <2> QED
    BY <2>1, <2>2
<1>3. ASSUME NEW x, Contains(s, x), x # s[i] PROVE Contains(r, x)
  <2>1. PICK k \in 1..Len(s) : s[k] = x
    BY <1>3 DEF Contains
  <2> QED
    BY <1>1, <1>3, <2>1 DEF Contains
<1> QED
  BY <1>2, <1>3

LEMMA AppendKeeps ==
  ASSUME NEW S, NEW s \in Seq(S), NEW e \in S, NEW r, r = Append(s, e)
  PROVE  /\ r \in Seq(S) /\ Contains(r, e)
         /\ \A x : Contains(s, x) => Contains(r, x)
         /\ Len(s) \in Nat /\ Len(r) = Len(s) + 1 /\ r[Len(r)] = e
         /\ \A j \in 1..Len(r) : (j \in 1..Len(s) /\ r[j] = s[j])
                                 \/ (j = Len(r) /\ r[j] = e)
<1>1. /\ r \in Seq(S) /\ Len(s) \in Nat /\ Len(r) = Len(s) + 1
      /\ \A j \in 1..Len(s) : r[j] = s[j]
      /\ r[Len(s) + 1] = e
  BY AppendProperties
<1>2. \A j \in 1..Len(s) : j \in 1..Len(r)
  BY <1>1
<1>3. Len(r) \in 1..Len(r) /\ r[Len(r)] = e
  BY <1>1
<1> QED
  BY <1>1, <1>2, <1>3 DEF Contains

LEMMA TailKeeps ==
  ASSUME NEW S, NEW s \in Seq(S), s # << >>, NEW r, r = Tail(s)
  PROVE  /\ r \in Seq(S) /\ Head(s) = s[1] /\ Head(s) \in S /\ 1 \in 1..Len(s)
         /\ \A x : Contains(s, x) /\ x # s[1] => Contains(r, x)
         /\ Len(s) \in Nat /\ Len(r) = Len(s) - 1
         /\ \A j \in 1..Len(r) : r[j] = s[j + 1] /\ j + 1 \in 1..Len(s)
<1>1. /\ r \in Seq(S) /\ Head(s) = s[1] /\ Head(s) \in S /\ Len(s) \in Nat
      /\ Len(r) = Len(s) - 1 /\ \A j \in 1..Len(r) : r[j] = s[j + 1]
      /\ 1 \in 1..Len(s)
  BY HeadTailProperties
<1>2. ASSUME NEW k \in 1..Len(s), s[k] # s[1] PROVE \E j \in 1..Len(r) : r[j] = s[k]
  <2>1. PICK j \in 1..Len(r) : j + 1 = k
    <3>1. k # 1
      BY <1>2
    <3>2. k - 1 \in 1..Len(r) /\ (k - 1) + 1 = k
      BY <1>1, <3>1
    <3> QED
      BY <3>2
  <2> QED
    BY <1>1, <2>1
<1>3. \A j \in 1..Len(r) : j + 1 \in 1..Len(s)
  BY <1>1
<1> QED
  BY <1>1, <1>2, <1>3 DEF Contains

\* The list without the timer of fd.
LEMMA UnlinkedIs ==
  ASSUME Typed, NEW fd \in Fds, NEW rest \in Unlinked(fd)
  PROVE  /\ rest \in Seq(Jobs) /\ Timer(fd) \in Jobs
         /\ \A tm : Contains(timer_lst, tm) /\ tm # Timer(fd) => Contains(rest, tm)
<1>1. PICK i \in 1..Len(timer_lst) :
        timer_lst[i] = Timer(fd) /\ rest = RemoveAt(timer_lst, i)
  BY DEF Unlinked
<1>2. timer_lst \in Seq(Jobs)
  BY DEF Typed
<1>3. timer_lst[i] \in Jobs
  BY <1>2
<1>4. rest \in Seq(Jobs)
  BY <1>1, <1>2, RemoveAtElements
<1>5. \A tm : Contains(timer_lst, tm) /\ tm # timer_lst[i] => Contains(rest, tm)
  BY <1>1, <1>2, RemoveAtKeeps
<1> QED
  BY <1>1, <1>3, <1>4, <1>5

-----------------------------------------------------------------------------
(***************************************************************************)
(* Types.                                                                  *)
(***************************************************************************)
LEMMA EventFields ==
  \A kind, fd : Event(kind, fd).kind = kind /\ Event(kind, fd).fd = fd
BY DEF Event

LEMMA NoFd == -1 \notin Fds
BY ServerAssumption

\* An event for a descriptor is of one of three kinds.
LEMMA SocketEvent ==
  ASSUME NEW e \in Ready, e.fd \in Fds
  PROVE  \E kind \in {"in", "out", "hup"} : e = Event(kind, e.fd)
BY NoFd, EventFields DEF Ready

LEMMA JobParts ==
  \A fd, k : <<fd, k>> \in Jobs <=> fd \in Fds /\ k \in 1..MaxConns
BY DEF Jobs

LEMMA JobIs ==
  ASSUME NEW job \in Jobs
  PROVE  job[1] \in Fds /\ job[2] \in 1..MaxConns /\ job = <<job[1], job[2]>>
BY DEF Jobs

\* Only what is open is armed.
LEMMA ModfdArms ==
  ASSUME TypeOK, NEW fd, NEW mode \in {"in", "out"}, Modfd(fd, mode)
  PROVE  /\ armed' \in [Fds -> {"off", "in", "out"}]
         /\ \A f \in Fds : armed'[f] # armed[f] => f = fd /\ Open(f)
         /\ fd \in Fds /\ Open(fd) => armed'[fd] = mode
BY DEF TypeOK, Modfd, Open

LEMMA TypedInit == Init => Typed
<1> SUFFICES ASSUME Init PROVE Typed
  OBVIOUS
<1> USE ServerAssumption
<1>1. /\ conn \in [Fds -> 0..MaxConns] /\ users_timer \in [Fds -> 0..MaxConns]
      /\ armed \in [Fds -> {"off", "in", "out"}]
      /\ m_sockfd \in [Fds -> Fds \cup {-1}]
  BY DEF Init
<1>2. /\ Len(timer_lst) = 0 /\ timer_lst \in Seq(Jobs)
      /\ Len(workqueue) = 0 /\ workqueue \in Seq(Jobs)
      /\ req \in [Workers -> Jobs \cup {NoJob}]
  BY DEF Init, Pool!QInit
<1>3. /\ pc \in [Workers -> {"process", "forget", "load", "store", "rearm"}]
      /\ loaded \in [Workers -> Int] /\ \A w \in Workers : loaded[w] <= MaxFd
  BY DEF Init
<1>4. /\ events \subseteq Ready /\ Event("accept", -1) \notin events
      /\ pipefd \subseteq {"SIGALRM", "SIGTERM"}
      /\ m_user_count \in Int /\ m_user_count <= MaxFd /\ accepted \in 0..MaxConns
  BY DEF Init
<1>5. {timeout, stop_server, ended, alarm} \subseteq BOOLEAN
  <2>1. /\ timeout \in BOOLEAN /\ stop_server \in BOOLEAN
        /\ ended \in BOOLEAN /\ alarm \in BOOLEAN
    BY DEF Init
  <2> QED
    BY <2>1
<1> QED
  BY <1>1, <1>2, <1>3, <1>4, <1>5 DEF Typed, TypeOK

LEMMA TypedStep == Typed /\ [Next]_vars => Typed'
<1> SUFFICES ASSUME Typed, [Next]_vars PROVE Typed'
  OBVIOUS
<1> USE ServerAssumption
    DEF Typed, TypeOK, kernel, signal, flags, loop, timers, pool, worker
<1>a. \A i \in 1..Len(timer_lst)' : timer_lst' \in Seq(Jobs) => timer_lst'[i] \in Jobs
  OBVIOUS
<1>b. \A i \in 1..Len(workqueue)' : workqueue' \in Seq(Jobs) => workqueue'[i] \in Jobs
  OBVIOUS
<1>1. CASE EpollWait
  <2>1. PICK S \in SUBSET Ready : /\ events' = S
                                  /\ \A e \in S : Reportable(e)
                                  /\ armed' = [f \in Fds |->
                                       IF \E e \in S : e.fd = f THEN "off" ELSE armed[f]]
    BY <1>1 DEF EpollWait
  <2>2. Event("accept", -1) \in S => accepted < MaxConns
    BY <2>1, EventFields DEF Reportable
  <2> QED
    BY <1>1, <2>1, <2>2 DEF EpollWait
<1>2. CASE AcceptNone
  BY <1>2 DEF AcceptNone, Handle
<1>3. ASSUME NEW fd \in Fds, AcceptNew(fd) PROVE Typed'
  <2>1. /\ accepted < MaxConns /\ accepted' = accepted + 1
        /\ m_user_count' = m_user_count + 1 /\ m_user_count < MaxFd
    BY <1>3 DEF AcceptNew, Handle, init
  <2>2. /\ conn' \in [Fds -> 0..MaxConns] /\ users_timer' \in [Fds -> 0..MaxConns]
        /\ m_sockfd' \in [Fds -> Fds \cup {-1}]
        /\ armed' \in [Fds -> {"off", "in", "out"}]
    BY <1>3, <2>1 DEF AcceptNew, init, Addfd
  <2>3. timer_lst' \in Seq(Jobs)
    <3>1. accepted \in 0..MaxConns
      OBVIOUS
    <3>2. accepted + 1 \in 1..MaxConns
      BY <2>1, <3>1
    <3>3. <<fd, accepted + 1>> \in Jobs
      BY <3>2 DEF Jobs
    <3>4. timer_lst' = Append(timer_lst, <<fd, accepted + 1>>)
      BY <1>3 DEF AcceptNew
    <3>5. timer_lst \in Seq(Jobs)
      OBVIOUS
    <3> HIDE DEF Typed, TypeOK
    <3> QED
      BY <3>3, <3>4, <3>5
  <2>4. Event("accept", -1) \notin events' /\ events' \subseteq Ready
    BY <1>3 DEF AcceptNew, Handle
  <2> QED
    BY <1>3, <1>a, <2>1, <2>2, <2>3, <2>4, SMTT(30) DEF AcceptNew
<1>4. ASSUME NEW fd \in Fds, NEW kind \in {"hup", "in", "out"}, CloseHandled(kind, fd)
      PROVE  Typed'
  <2>1. timer_lst' \in Seq(Jobs)
    BY <1>4, UnlinkedIs DEF CloseHandled, Finished
  <2>2. /\ conn' \in [Fds -> 0..MaxConns] /\ armed' \in [Fds -> {"off", "in", "out"}]
        /\ m_user_count' \in Int /\ m_user_count' <= MaxFd
    BY <1>4 DEF CloseHandled, CbFunc, Close
  <2> QED
    BY <1>4, <1>a, <2>1, <2>2 DEF CloseHandled, Handle
<1>5. ASSUME NEW fd \in Fds, Adjust(fd) PROVE timer_lst' \in Seq(Jobs)
  BY <1>5, UnlinkedIs, AppendKeeps DEF Adjust
<1>6. ASSUME NEW fd \in Fds, ReadAppend(fd) PROVE Typed'
  <2>1. timer_lst' \in Seq(Jobs)
    BY <1>5, <1>6 DEF ReadAppend, Received
  <2>2. workqueue' \in Seq(Jobs) /\ req' = req
    <3>1. <<fd, conn[fd]>> \in Jobs
      <4>1. conn[fd] \in 0..MaxConns
        OBVIOUS
      <4> HIDE DEF Typed, TypeOK
      <4>2. conn[fd] # 0
        BY <1>6 DEF ReadAppend, Received, Open
      <4>3. conn[fd] \in 1..MaxConns
        BY <4>1, <4>2
      <4> QED
        BY <4>3 DEF Jobs
    <3> QED
      BY <1>6, <3>1 DEF ReadAppend, Pool!Submit
  <2> QED
    BY <1>6, <1>a, <1>b, <2>1, <2>2 DEF ReadAppend, Received, Handle
<1>7. ASSUME NEW fd \in Fds, ReadDrop(fd) PROVE Typed'
  <2>1. timer_lst' \in Seq(Jobs)
    BY <1>5, <1>7 DEF ReadDrop, Received
  <2> QED
    BY <1>7, <1>a, <2>1 DEF ReadDrop, Received, Handle
<1>8. ASSUME NEW fd \in Fds, NEW mode \in {"in", "out"}, Write(fd, mode) PROVE Typed'
  <2>1. timer_lst' \in Seq(Jobs)
    BY <1>5, <1>8 DEF Write
  <2>2. armed' \in [Fds -> {"off", "in", "out"}]
    BY <1>8, ModfdArms DEF Write
  <2> QED
    BY <1>8, <1>a, <2>1, <2>2 DEF Write, Handle
<1>9. CASE Signals
  BY <1>9 DEF Signals, Handle
<1>10. ASSUME NEW tm \in Jobs, TickFire(tm) PROVE Typed'
  <2>1. timer_lst' \in Seq(Jobs)
    BY <1>10, TailKeeps DEF TickFire
  <2>2. /\ conn' \in [Fds -> 0..MaxConns] /\ armed' \in [Fds -> {"off", "in", "out"}]
        /\ m_user_count' \in Int /\ m_user_count' <= MaxFd
    <3>1. tm[1] \in Fds
      BY JobIs
    <3> QED
      BY <1>10, <3>1 DEF TickFire, CbFunc, Close
  <2> QED
    BY <1>10, <1>a, <2>1, <2>2 DEF TickFire
<1>11. CASE TickEnd
  BY <1>11 DEF TickEnd
<1>12. CASE Leave
  <2>1. /\ timer_lst' \in Seq(Jobs) /\ workqueue' \in Seq(Jobs)
        /\ Len(timer_lst') = 0 /\ Len(workqueue') = 0
        /\ req' \in [Workers -> Jobs \cup {NoJob}]
    BY <1>12 DEF Leave
  <2>2. /\ conn' \in [Fds -> 0..MaxConns] /\ users_timer' \in [Fds -> 0..MaxConns]
        /\ armed' \in [Fds -> {"off", "in", "out"}]
        /\ m_sockfd' \in [Fds -> Fds \cup {-1}]
        /\ m_user_count' \in Int /\ m_user_count' <= MaxFd
    BY <1>12 DEF Leave
  <2>3. /\ pc' \in [Workers -> {"process", "forget", "load", "store", "rearm"}]
        /\ loaded' \in [Workers -> Int] /\ \A w \in Workers : loaded'[w] <= MaxFd
    BY <1>12 DEF Leave
  <2>4. {timeout, stop_server, ended, alarm}' \subseteq BOOLEAN
    <3>1. /\ timeout' \in BOOLEAN /\ stop_server' \in BOOLEAN
          /\ ended' \in BOOLEAN /\ alarm' \in BOOLEAN
      BY <1>12 DEF Leave
    <3> QED
      BY <3>1
  <2> QED
    BY <1>12, <2>1, <2>2, <2>3, <2>4 DEF Leave
<1>13. CASE Ring \/ Terminate
  BY <1>13 DEF Ring, Terminate, Caught
<1>14. ASSUME NEW w \in Workers, Take(w) PROVE Typed'
  <2>1. workqueue # << >> /\ workqueue' = Tail(workqueue)
        /\ req' = [req EXCEPT ![w] = Head(workqueue)]
    BY <1>14 DEF Take, Pool!TakeNext
  <2>2. workqueue' \in Seq(Jobs) /\ Head(workqueue) \in Jobs
    BY <2>1, TailKeeps
  <2> QED
    BY <1>14, <1>b, <2>1, <2>2 DEF Take
<1>15. ASSUME NEW w \in Workers, Pool!Finish(w)
       PROVE  req' \in [Workers -> Jobs \cup {NoJob}] /\ workqueue' = workqueue
  BY <1>15 DEF Pool!Finish
<1>16. ASSUME NEW w \in Workers, NEW mode \in {"in", "out"}, Rearm(w, mode)
       PROVE  Typed'
  <2>1. armed' \in [Fds -> {"off", "in", "out"}]
    BY <1>16, ModfdArms DEF Rearm
  <2> QED
    BY <1>15, <1>16, <2>1 DEF Rearm
<1>17. ASSUME NEW w \in Workers, CloseConn(w) PROVE Typed'
  <2>1. /\ conn' \in [Fds -> 0..MaxConns] /\ armed' \in [Fds -> {"off", "in", "out"}]
        /\ pc' \in [Workers -> {"process", "forget", "load", "store", "rearm"}]
    <3>0. PICK fd : fd = m_sockfd[Object(w)]
      OBVIOUS
    <3>1. CASE fd \in Fds
      <4>1. /\ conn' = [conn EXCEPT ![fd] = 0]
            /\ armed' = [armed EXCEPT ![fd] = "off"]
            /\ pc' = [pc EXCEPT ![w] = "forget"]
        BY <1>17, <3>0, <3>1 DEF CloseConn, Close, GoTo
      <4> QED
        BY <3>1, <4>1
    <3>2. CASE fd \notin Fds
      BY <1>17, <3>0, <3>2 DEF CloseConn, GoTo
    <3> QED
      BY <3>1, <3>2
  <2> QED
    BY <1>17, <2>1 DEF CloseConn
<1>18. ASSUME NEW w \in Workers, Forget(w) PROVE Typed'
  BY <1>18 DEF Forget, GoTo
<1>19. ASSUME NEW w \in Workers, LoadCount(w) PROVE Typed'
  BY <1>19 DEF LoadCount, GoTo
<1>20. ASSUME NEW w \in Workers, StoreCount(w) PROVE Typed'
  BY <1>20, SMTT(30) DEF StoreCount, GoTo
<1>21. ASSUME NEW w \in Workers, RearmClosed(w) PROVE Typed'
  <2>1. armed' \in [Fds -> {"off", "in", "out"}]
    BY <1>21, ModfdArms DEF RearmClosed
  <2> QED
    BY <1>15, <1>21, <2>1 DEF RearmClosed, GoTo
<1>22. CASE UNCHANGED vars
  BY <1>22 DEF vars
<1> QED
  BY <1>1, <1>2, <1>3, <1>4, <1>6, <1>7, <1>8, <1>9, <1>10, <1>11, <1>12, <1>13,
     <1>14, <1>16, <1>17, <1>18, <1>19, <1>20, <1>21, <1>22
  DEF Next, Main, Work, Ended, WritePart, WriteAll

\* Every variable keeps its type, in any order of the loop's, the workers' and
\* the clients' steps: m_user_count does not pass MAX_FD, and the queue, the
\* timer list and the workers hold nothing but connections.
THEOREM TypeCorrect == Spec => []TypeOK
<1>1. Typed => TypeOK
  BY DEF Typed
<1> QED
  BY TypedInit, TypedStep, <1>1, PTL DEF Spec

-----------------------------------------------------------------------------
(***************************************************************************)
(* The timers of the open connections.                                     *)
(***************************************************************************)
LEMMA AdjustKeeps ==
  ASSUME Typed, NEW fd \in Fds, Adjust(fd)
  PROVE  \A tm : Contains(timer_lst, tm) => Contains(timer_lst', tm)
<1>1. PICK rest \in Unlinked(fd) : timer_lst' = Append(rest, Timer(fd))
  BY DEF Adjust
<1>2. /\ rest \in Seq(Jobs) /\ Timer(fd) \in Jobs
      /\ \A tm : Contains(timer_lst, tm) /\ tm # Timer(fd) => Contains(rest, tm)
  BY UnlinkedIs
<1>3. /\ Contains(timer_lst', Timer(fd))
      /\ \A tm : Contains(rest, tm) => Contains(timer_lst', tm)
  BY <1>1, <1>2, AppendKeeps
<1> QED
  BY <1>2, <1>3

LEMMA TimedInit == Init => Timed
<1> SUFFICES ASSUME Init PROVE Timed
  OBVIOUS
<1>1. \A fd \in Fds : ~Open(fd) /\ armed[fd] = "off"
  BY DEF Init, Open
<1>2. events = {}
  BY DEF Init
<1> QED
  BY <1>1, <1>2, TypedInit
  DEF Timed, ArmedIsOpen, OneEventEach, OpenHasTimer, NoDanglingTimer, OpenFds

\* Steps that close and open nothing and delete no timer.
LEMMA StaysTimed ==
  ASSUME Timed, Typed', UNCHANGED <<conn, users_timer>>, events' \subseteq events,
         \A fd \in Fds : armed'[fd] # armed[fd] => Open(fd),
         \A tm : Contains(timer_lst, tm) => Contains(timer_lst', tm)
  PROVE  Timed'
<1> USE DEF Timed
<1>1. ArmedIsOpen'
  BY DEF ArmedIsOpen, Open
<1>2. OneEventEach'
  BY DEF OneEventEach
<1>3. OpenHasTimer' /\ NoDanglingTimer'
  <2>1. \A fd : Timer(fd)' = Timer(fd) /\ (Open(fd)' <=> Open(fd))
    BY DEF Timer, Open
  <2> QED
    BY <2>1 DEF OpenHasTimer, NoDanglingTimer, OpenFds
<1> QED
  BY <1>1, <1>2, <1>3

\* Steps that close a descriptor, for which main has no other event left or of
\* which the timer stays.
LEMMA ClosesTimed ==
  ASSUME Timed, Typed', NEW fd \in Fds, Close(fd), UNCHANGED users_timer,
         events' \subseteq events,
         \A tm : Contains(timer_lst, tm) /\ tm[1] # fd => Contains(timer_lst', tm),
         \/ \A e \in events' : e.fd # fd
         \/ timer_lst' = timer_lst
  PROVE  Timed'
<1> USE DEF Timed
<1>1. /\ conn' = [conn EXCEPT ![fd] = 0] /\ armed' = [armed EXCEPT ![fd] = "off"]
      /\ conn \in [Fds -> 0..MaxConns]
      /\ armed \in [Fds -> {"off", "in", "out"}]
  BY DEF Close, Typed, TypeOK
<1>2. ~Open(fd)' /\ \A f \in Fds : f # fd => (Open(f)' <=> Open(f))
  BY <1>1 DEF Open
<1>3. ArmedIsOpen'
  BY <1>1, <1>2 DEF ArmedIsOpen
<1>4. OneEventEach'
  BY DEF OneEventEach
<1>5. \A f : Timer(f)' = Timer(f) /\ Timer(f)[1] = f
  BY DEF Timer
<1>6. \A f \in Fds : f # fd /\ Contains(timer_lst, Timer(f)) =>
        Contains(timer_lst, Timer(f))'
  BY <1>5
<1>7. OpenHasTimer'
  BY <1>1, <1>2, <1>6 DEF OpenHasTimer, OpenFds
<1>8. NoDanglingTimer'
  BY <1>5, <1>6 DEF NoDanglingTimer
<1> QED
  BY <1>3, <1>4, <1>7, <1>8

LEMMA TimedStep == Timed /\ [Next]_vars => Timed'
<1> SUFFICES ASSUME Timed, [Next]_vars PROVE Timed'
  OBVIOUS
<1> USE DEF Timed, kernel, signal, flags, loop, timers, pool, worker
<1>0. Typed' /\ TypeOK
  BY TypedStep DEF Typed
<1>1. CASE EpollWait
  <2>1. PICK S \in SUBSET Ready : /\ events' = S
                                  /\ \A e \in S : Reportable(e)
                                  /\ \A d, e \in S : d.fd \in Fds /\ d.fd = e.fd => d = e
                                  /\ armed' = [f \in Fds |->
                                       IF \E e \in S : e.fd = f THEN "off" ELSE armed[f]]
    BY <1>1 DEF EpollWait
  <2>2. UNCHANGED <<conn, timer_lst, users_timer>>
    BY <1>1 DEF EpollWait
  <2>3. ArmedIsOpen'
    BY <2>1, <2>2 DEF ArmedIsOpen, Open
  <2>4. OneEventEach'
    BY <2>1 DEF OneEventEach
  <2>5. ASSUME NEW e \in S, e.fd \in Fds PROVE Contains(timer_lst, Timer(e.fd))
    <3>1. PICK kind \in {"in", "out", "hup"} : e = Event(kind, e.fd)
      BY <2>1, <2>5, SocketEvent
    <3>2. e.kind = kind
      BY <3>1, EventFields
    <3>3. armed[e.fd] # "off"
      BY <2>1, <2>5, <3>2 DEF Reportable
    <3> QED
      BY <2>5, <3>3 DEF ArmedIsOpen, OpenHasTimer, OpenFds
  <2>6. OpenHasTimer' /\ NoDanglingTimer'
    BY <2>1, <2>2, <2>5 DEF OpenHasTimer, NoDanglingTimer, OpenFds, Open, Timer
  <2> QED
    BY <1>0, <2>3, <2>4, <2>6
<1>2. CASE AcceptNone \/ Signals
  BY <1>0, <1>2, StaysTimed DEF AcceptNone, Signals, Handle
<1>3. ASSUME NEW fd \in Fds, AcceptNew(fd) PROVE Timed'
  <2>1. /\ conn' = [conn EXCEPT ![fd] = accepted + 1]
        /\ users_timer' = [users_timer EXCEPT ![fd] = accepted + 1]
        /\ armed' = [armed EXCEPT ![fd] = "in"]
        /\ timer_lst' = Append(timer_lst, <<fd, accepted + 1>>)
        /\ events' \subseteq events /\ accepted' = accepted + 1
    BY <1>3 DEF AcceptNew, init, Addfd, Handle
  <2>2. /\ conn \in [Fds -> 0..MaxConns] /\ users_timer \in [Fds -> 0..MaxConns]
        /\ armed \in [Fds -> {"off", "in", "out"}] /\ accepted + 1 \in 1..MaxConns
    BY <1>0, <2>1, ServerAssumption, SMTT(30) DEF TypeOK, Typed
  <2>3. /\ Open(fd)' /\ Timer(fd)' = <<fd, accepted + 1>>
        /\ users_timer'[fd] = conn'[fd]
        /\ \A f \in Fds : f # fd => (Open(f)' <=> Open(f)) /\ Timer(f)' = Timer(f)
                                    /\ users_timer'[f] = users_timer[f]
                                    /\ conn'[f] = conn[f] /\ armed'[f] = armed[f]
    BY <2>1, <2>2 DEF Open, Timer
  <2>4. /\ Contains(timer_lst', <<fd, accepted + 1>>)
        /\ \A tm : Contains(timer_lst, tm) => Contains(timer_lst', tm)
    <3>1. <<fd, accepted + 1>> \in Jobs
      BY <2>2, JobParts
    <3>2. timer_lst \in Seq(Jobs) /\ timer_lst' = Append(timer_lst, <<fd, accepted + 1>>)
      BY <2>1 DEF Typed
    <3>3. PICK new : new = <<fd, accepted + 1>>
      OBVIOUS
    <3>4. new \in Jobs /\ timer_lst' = Append(timer_lst, new)
      BY <3>1, <3>2, <3>3
    <3>5. /\ Contains(timer_lst', new)
          /\ \A tm : Contains(timer_lst, tm) => Contains(timer_lst', tm)
      BY <3>2, <3>4, AppendKeeps
    <3> QED
      BY <3>3, <3>5
  <2>5. ArmedIsOpen'
    BY <2>3 DEF ArmedIsOpen
  <2>6. OneEventEach'
    BY <2>1 DEF OneEventEach
  <2>7. OpenHasTimer' /\ NoDanglingTimer'
    BY <2>1, <2>3, <2>4, SMTT(30) DEF OpenHasTimer, NoDanglingTimer, OpenFds
  <2> QED
    BY <1>0, <2>5, <2>6, <2>7
<1>4. ASSUME NEW fd \in Fds, NEW kind \in {"hup", "in", "out"}, CloseHandled(kind, fd)
      PROVE  Timed'
  <2>1. /\ Close(fd) /\ timer_lst' \in Unlinked(fd) /\ UNCHANGED users_timer
        /\ events' = events \ {Event(kind, fd)} /\ Event(kind, fd) \in events
    BY <1>4 DEF CloseHandled, CbFunc, Finished, Handle
  <2>2. \A e \in events' : e.fd # fd
    BY <2>1, EventFields DEF OneEventEach
  <2>3. \A tm : Contains(timer_lst, tm) /\ tm[1] # fd => Contains(timer_lst', tm)
    <3>1. Timer(fd)[1] = fd
      BY DEF Timer
    <3> QED
      BY <2>1, <3>1, UnlinkedIs
  <2> QED
    BY <1>0, <2>1, <2>2, <2>3, ClosesTimed
<1>5. ASSUME NEW fd \in Fds, ReadAppend(fd) \/ ReadDrop(fd) PROVE Timed'
  <2>1. /\ Adjust(fd) /\ UNCHANGED <<conn, armed, users_timer>>
        /\ events' \subseteq events
    BY <1>5 DEF ReadAppend, ReadDrop, Received, Handle
  <2> QED
    BY <1>0, <2>1, AdjustKeeps, StaysTimed
<1>6. ASSUME NEW fd \in Fds, NEW mode \in {"in", "out"}, Write(fd, mode) PROVE Timed'
  <2>1. /\ Adjust(fd) /\ UNCHANGED <<conn, users_timer>>
        /\ events' \subseteq events /\ Modfd(m_sockfd[fd], mode)
    BY <1>6 DEF Write, Handle
  <2>2. \A f \in Fds : armed'[f] # armed[f] => Open(f)
    BY <1>0, <2>1, ModfdArms
  <2> QED
    BY <1>0, <2>1, <2>2, AdjustKeeps, StaysTimed
<1>7. ASSUME NEW tm \in Jobs, TickFire(tm) PROVE Timed'
  <2>1. /\ events = {} /\ UNCHANGED <<events, users_timer>>
        /\ timer_lst # << >> /\ tm = Head(timer_lst) /\ timer_lst' = Tail(timer_lst)
        /\ conn' = [conn EXCEPT ![tm[1]] = 0]
        /\ armed' = [armed EXCEPT ![tm[1]] = "off"]
    BY <1>7 DEF TickFire, CbFunc, Close
  <2>2. PICK fd \in Fds : fd = tm[1]
    BY JobIs
  <2>3. Close(fd)
    BY <2>1, <2>2 DEF Close
  <2>4. \A x : Contains(timer_lst, x) /\ x # tm => Contains(timer_lst', x)
    BY <2>1, TailKeeps DEF Typed
  <2>5. \A x : Contains(timer_lst, x) /\ x[1] # fd => Contains(timer_lst', x)
    BY <2>2, <2>4
  <2> QED
    BY <1>0, <2>1, <2>3, <2>5, ClosesTimed
<1>8. CASE Leave
  <2>1. /\ events' = {} /\ \A fd \in Fds : armed'[fd] = "off" /\ ~Open(fd)'
    BY <1>8 DEF Leave, Open
  <2> QED
    BY <1>0, <2>1
    DEF ArmedIsOpen, OneEventEach, OpenHasTimer, NoDanglingTimer, OpenFds
<1>9. CASE TickEnd \/ Ring \/ Terminate \/ UNCHANGED vars
  BY <1>0, <1>9, StaysTimed DEF TickEnd, Ring, Terminate, Caught, vars
<1>10. ASSUME NEW w \in Workers,
              Take(w) \/ Forget(w) \/ LoadCount(w) \/ StoreCount(w)
       PROVE  Timed'
  BY <1>0, <1>10, StaysTimed DEF Take, Forget, LoadCount, StoreCount
<1>11. ASSUME NEW w \in Workers, NEW mode \in {"in", "out"},
              Modfd(m_sockfd[Object(w)], mode),
              UNCHANGED <<conn, users_timer, events, timer_lst>>
       PROVE  Timed'
  <2>1. \A f \in Fds : armed'[f] # armed[f] => Open(f)
    BY <1>0, <1>11, ModfdArms
  <2> QED
    BY <1>0, <1>11, <2>1, StaysTimed
<1>12. ASSUME NEW w \in Workers, CloseConn(w) PROVE Timed'
  <2>1. PICK fd : fd = m_sockfd[Object(w)]
    OBVIOUS
  <2>2. UNCHANGED <<users_timer, events, timer_lst>>
    BY <1>12 DEF CloseConn
  <2>3. CASE fd \in Fds
    <3>1. Close(fd)
      BY <1>12, <2>1, <2>3 DEF CloseConn, Close
    <3> QED
      BY <1>0, <2>2, <2>3, <3>1, ClosesTimed
  <2>4. CASE fd \notin Fds
    BY <1>0, <1>12, <2>1, <2>2, <2>4, StaysTimed DEF CloseConn
  <2> QED
    BY <2>3, <2>4
<1> QED
  BY <1>1, <1>2, <1>3, <1>4, <1>5, <1>6, <1>7, <1>8, <1>9, <1>10, <1>11, <1>12
  DEF Next, Main, Work, Ended, WritePart, WriteAll, Rearm, RearmClosed

\* No connection stays open without its timer, whatever the workers do.
THEOREM OpenHaveTimers == Spec => []OpenHasTimer
<1>1. Timed => OpenHasTimer
  BY DEF Timed
<1> QED
  BY TimedInit, TimedStep, <1>1, PTL DEF Spec

\* main never uses a timer that was deleted.
THEOREM TimersAreThere == Spec => []NoDanglingTimer
<1>1. Timed => NoDanglingTimer
  BY DEF Timed
<1> QED
  BY TimedInit, TimedStep, <1>1, PTL DEF Spec

-----------------------------------------------------------------------------
(***************************************************************************)
(* The chain of the alarms.  A batch has one event of the pipe, and there  *)
(* is none when a flag is set already.                                     *)
(***************************************************************************)
SignalFirst == Event("signal", -1) \in events => ~timeout /\ ~stop_server

Alive == SignalFirst /\ AlarmAlive

LEMMA AliveStep == Alive /\ [Next]_vars => Alive'
<1> SUFFICES ASSUME Alive, [Next]_vars PROVE Alive'
  OBVIOUS
<1> USE DEF Alive, kernel, signal, flags, loop, timers, pool, worker
<1>1. ASSUME events' \subseteq events, UNCHANGED <<timeout, stop_server, signal>>
      PROVE  Alive'
  BY <1>1 DEF SignalFirst, AlarmAlive
<1>2. CASE EpollWait
  BY <1>2 DEF EpollWait, SignalFirst, AlarmAlive
<1>3. CASE Signals
  <2>1. Event("signal", -1) \in events /\ Event("signal", -1) \notin events'
    BY <1>3 DEF Signals, Handle
  <2>2. alarm \/ "SIGALRM" \in pipefd
    BY <2>1 DEF SignalFirst, AlarmAlive
  <2>3. alarm' = alarm /\ timeout' = ("SIGALRM" \in pipefd)
    BY <1>3 DEF Signals
  <2> QED
    BY <2>1, <2>2, <2>3 DEF SignalFirst, AlarmAlive
<1>4. CASE Ring
  BY <1>4 DEF Ring, Caught, SignalFirst, AlarmAlive
<1>5. CASE Terminate
  BY <1>5 DEF Terminate, Caught, SignalFirst, AlarmAlive
<1>6. CASE TickEnd
  BY <1>6 DEF TickEnd, SignalFirst, AlarmAlive
<1>7. CASE Leave
  BY <1>7 DEF Leave, SignalFirst, AlarmAlive
<1>8. ASSUME NEW fd \in Fds,
             \/ AcceptNew(fd) \/ \E kind \in {"hup", "in", "out"} : CloseHandled(kind, fd)
             \/ ReadAppend(fd) \/ ReadDrop(fd) \/ WritePart(fd) \/ WriteAll(fd)
      PROVE  Alive'
  BY <1>1, <1>8
  DEF AcceptNew, CloseHandled, ReadAppend, ReadDrop, Received, WritePart, WriteAll,
      Write, Handle
<1>9. CASE AcceptNone \/ UNCHANGED vars \/ \E tm \in Jobs : TickFire(tm)
  BY <1>1, <1>9 DEF AcceptNone, Handle, TickFire, vars
<1>10. ASSUME NEW w \in Workers, Work(w) PROVE Alive'
  BY <1>1, <1>10
  DEF Work, Take, Rearm, CloseConn, Forget, LoadCount, StoreCount, RearmClosed
<1> QED
  BY <1>2, <1>3, <1>4, <1>5, <1>6, <1>7, <1>8, <1>9, <1>10 DEF Next, Main, Ended

\* The chain of the alarms never breaks until the server stops.
THEOREM AlarmGoesOn == Spec => []AlarmAlive
<1>1. Init => Alive
  BY DEF Init, Alive, SignalFirst, AlarmAlive
<1>2. Alive => AlarmAlive
  BY DEF Alive
<1> QED
  BY <1>1, <1>2, AliveStep, PTL DEF Spec

-----------------------------------------------------------------------------
(***************************************************************************)
(* The requests in the queue and in work.                                  *)
(***************************************************************************)
LEMMA NoJobIsNone == \A job \in Jobs : job # NoJob
BY ServerAssumption

LEMMA WorkIsJobs ==
  ASSUME Typed, NEW job, InWork(job), job # NoJob PROVE job \in Jobs
BY DEF Typed, TypeOK, InWork

LEMMA QueuedHasJob ==
  ASSUME Typed
  PROVE  /\ \A i \in 1..Len(workqueue) :
              workqueue[i] \in Jobs /\ InWork(workqueue[i]) /\ HasJob(workqueue[i][1])
         /\ \A w \in Workers : req[w] # NoJob =>
              req[w] \in Jobs /\ InWork(req[w]) /\ HasJob(Object(w))
<1>1. ASSUME NEW i \in 1..Len(workqueue)
      PROVE  workqueue[i] \in Jobs /\ InWork(workqueue[i]) /\ HasJob(workqueue[i][1])
  <2>1. workqueue[i] \in Jobs /\ InWork(workqueue[i])
    BY DEF Typed, TypeOK, InWork
  <2> QED
    BY <2>1 DEF HasJob
<1>2. ASSUME NEW w \in Workers, req[w] # NoJob
      PROVE  req[w] \in Jobs /\ InWork(req[w]) /\ HasJob(Object(w))
  <2>1. req[w] \in Jobs /\ InWork(req[w])
    BY <1>2 DEF Typed, TypeOK, InWork
  <2> QED
    BY <2>1 DEF HasJob, Object
<1> QED
  BY <1>1, <1>2

LEMMA SameWork ==
  ASSUME UNCHANGED <<workqueue, req>>
  PROVE  /\ \A job : InWork(job)' <=> InWork(job)
         /\ \A fd : HasJob(fd)' <=> HasJob(fd)
         /\ JobsDiffer => JobsDiffer'
BY DEF InWork, HasJob, JobsDiffer, Object

LEMMA AppendWork ==
  ASSUME Typed, JobsDiffer, NEW job \in Jobs, ~HasJob(job[1]),
         workqueue' = Append(workqueue, job), req' = req
  PROVE  /\ \A j : InWork(j)' <=> InWork(j) \/ j = job
         /\ \A fd : HasJob(fd)' <=> HasJob(fd) \/ fd = job[1]
         /\ JobsDiffer'
<1>1. /\ Contains(workqueue', job)
      /\ \A x : Contains(workqueue, x) => Contains(workqueue', x)
      /\ Len(workqueue) \in Nat /\ Len(workqueue') = Len(workqueue) + 1
      /\ \A i \in 1..Len(workqueue') :
           (i \in 1..Len(workqueue) /\ workqueue'[i] = workqueue[i])
           \/ (i = Len(workqueue') /\ workqueue'[i] = job)
  <2>1. workqueue \in Seq(Jobs) /\ workqueue' = Append(workqueue, job)
    BY DEF Typed
  <2>2. /\ Contains(workqueue', job)
        /\ \A x : Contains(workqueue, x) => Contains(workqueue', x)
    BY <2>1, AppendKeeps
  <2>3. /\ Len(workqueue) \in Nat /\ Len(workqueue') = Len(workqueue) + 1
        /\ \A i \in 1..Len(workqueue') :
             (i \in 1..Len(workqueue) /\ workqueue'[i] = workqueue[i])
             \/ (i = Len(workqueue') /\ workqueue'[i] = job)
    BY <2>1, AppendKeeps
  <2> QED
    BY <2>2, <2>3
<1>2. \A j : InWork(j)' <=> InWork(j) \/ j = job
  BY <1>1 DEF InWork, Contains
<1>3. \A fd : HasJob(fd)' <=> HasJob(fd) \/ fd = job[1]
  BY <1>2 DEF HasJob
<1>4. \A i \in 1..Len(workqueue) : workqueue[i][1] # job[1]
  BY QueuedHasJob
<1>5. \A w \in Workers : req[w] # NoJob => Object(w) # job[1] /\ Object(w)' = Object(w)
  BY QueuedHasJob DEF Object
<1>6. JobsDiffer'
  <2>1. \A i, j \in 1..Len(workqueue') : workqueue'[i][1] = workqueue'[j][1] => i = j
    BY <1>1, <1>4 DEF JobsDiffer
  <2>2. \A i \in 1..Len(workqueue'), w \in Workers :
          req'[w] # NoJob => workqueue'[i][1] # Object(w)'
    BY <1>1, <1>5 DEF JobsDiffer
  <2>3. \A v, w \in Workers :
          req'[v] # NoJob /\ req'[w] # NoJob /\ Object(v)' = Object(w)' => v = w
    BY <1>5 DEF JobsDiffer
  <2> QED
    BY <2>1, <2>2, <2>3 DEF JobsDiffer
<1> QED
  BY <1>2, <1>3, <1>6

LEMMA TakeWork ==
  ASSUME Typed, JobsDiffer, NEW w \in Workers, Pool!TakeNext(w)
  PROVE  /\ \A job \in Jobs : InWork(job)' <=> InWork(job)
         /\ \A fd : HasJob(fd)' <=> HasJob(fd)
         /\ JobsDiffer'
<1>0. PICK job : job = Head(workqueue)
  OBVIOUS
<1>1. /\ req[w] = NoJob /\ workqueue # << >> /\ workqueue' = Tail(workqueue)
      /\ req' = [req EXCEPT ![w] = job] /\ workqueue \in Seq(Jobs)
      /\ req \in [Workers -> Jobs \cup {NoJob}]
  BY <1>0 DEF Pool!TakeNext, Typed, TypeOK
<1>2. /\ job \in Jobs /\ job = workqueue[1] /\ job # NoJob
      /\ \A x : Contains(workqueue, x) /\ x # job => Contains(workqueue', x)
      /\ Len(workqueue) \in Nat /\ 1 \in 1..Len(workqueue)
      /\ \A i \in 1..Len(workqueue') :
           workqueue'[i] = workqueue[i + 1] /\ i + 1 \in 1..Len(workqueue)
  <2>1. workqueue \in Seq(Jobs) /\ workqueue # << >> /\ workqueue' = Tail(workqueue)
    BY <1>1
  <2>a. \A x : Contains(workqueue, x) /\ x # workqueue[1] => Contains(workqueue', x)
    BY <2>1, TailKeeps
  <2>2. /\ Head(workqueue) = workqueue[1] /\ Head(workqueue) \in Jobs
        /\ Len(workqueue) \in Nat /\ 1 \in 1..Len(workqueue)
        /\ \A i \in 1..Len(workqueue') :
             workqueue'[i] = workqueue[i + 1] /\ i + 1 \in 1..Len(workqueue)
    BY <2>1, TailKeeps
  <2>3. job = workqueue[1] /\ job \in Jobs
    BY <1>0, <2>2
  <2>4. job # NoJob
    BY <2>3, NoJobIsNone
  <2> QED
    BY <2>a, <2>2, <2>3, <2>4
<1>3. \A v \in Workers : req'[v] = IF v = w THEN job ELSE req[v]
  BY <1>1
<1>4. \A j \in Jobs : InWork(j)' <=> InWork(j)
  <2>1. ASSUME NEW j \in Jobs, InWork(j)' PROVE InWork(j)
    <3>1. CASE j = job
      BY <1>2, <3>1 DEF InWork
    <3>2. ASSUME NEW v \in Workers, req'[v] = j, j # job PROVE InWork(j)
      BY <1>3, <3>2 DEF InWork
    <3>3. ASSUME NEW i \in 1..Len(workqueue'), workqueue'[i] = j PROVE InWork(j)
      BY <1>2, <3>3 DEF InWork
    <3> QED
      BY <2>1, <3>1, <3>2, <3>3 DEF InWork
  <2>2. ASSUME NEW j \in Jobs, InWork(j) PROVE InWork(j)'
    <3>1. CASE j = job
      BY <1>3, <3>1 DEF InWork
    <3>2. ASSUME NEW v \in Workers, req[v] = j PROVE InWork(j)'
      <4>1. v # w
        BY <1>1, <3>2, NoJobIsNone
      <4> QED
        BY <1>3, <3>2, <4>1 DEF InWork
    <3>3. ASSUME Contains(workqueue, j), j # job PROVE InWork(j)'
      BY <1>2, <3>3 DEF InWork, Contains
    <3> QED
      BY <2>2, <3>1, <3>2, <3>3 DEF InWork, Contains
  <2> QED
    BY <2>1, <2>2
<1>5. \A fd : HasJob(fd)' <=> HasJob(fd)
  BY <1>4 DEF HasJob
<1>6. JobsDiffer'
  <2>1. \A i, j \in 1..Len(workqueue') : workqueue'[i][1] = workqueue'[j][1] => i = j
    <3> SUFFICES ASSUME NEW i \in 1..Len(workqueue'), NEW j \in 1..Len(workqueue'),
                        workqueue'[i][1] = workqueue'[j][1]
                 PROVE  i = j
      OBVIOUS
    <3>1. i + 1 = j + 1
      BY <1>2, SMTT(30) DEF JobsDiffer
    <3> QED
      BY <3>1
  <2>2. \A i \in 1..Len(workqueue') : workqueue'[i][1] # job[1]
    <3> SUFFICES ASSUME NEW i \in 1..Len(workqueue'), workqueue'[i][1] = job[1]
                 PROVE  FALSE
      OBVIOUS
    <3>1. i + 1 = 1
      BY <1>2 DEF JobsDiffer
    <3> QED
      BY <3>1
  <2>3. \A v \in Workers : Object(v)' = (IF v = w THEN job[1] ELSE Object(v))
    BY <1>3 DEF Object
  <2>4. \A i \in 1..Len(workqueue'), v \in Workers :
          req'[v] # NoJob => workqueue'[i][1] # Object(v)'
    BY <1>2, <1>3, <2>2, <2>3 DEF JobsDiffer
  <2>5. \A v \in Workers : req[v] # NoJob => Object(v) # job[1]
    BY <1>2 DEF JobsDiffer
  <2>6. \A u, v \in Workers :
          req'[u] # NoJob /\ req'[v] # NoJob /\ Object(u)' = Object(v)' => u = v
    BY <1>3, <2>3, <2>5 DEF JobsDiffer
  <2> QED
    BY <2>1, <2>4, <2>6 DEF JobsDiffer
<1> QED
  BY <1>4, <1>5, <1>6

LEMMA FinishWork ==
  ASSUME Typed, JobsDiffer, NEW w \in Workers, Pool!Finish(w)
  PROVE  /\ req[w] \in Jobs /\ InWork(req[w]) /\ HasJob(Object(w))
         /\ \A job \in Jobs : InWork(job)' <=> InWork(job) /\ job[1] # Object(w)
         /\ \A fd : HasJob(fd)' <=> HasJob(fd) /\ fd # Object(w)
         /\ JobsDiffer'
<1>1. /\ req[w] # NoJob /\ req' = [req EXCEPT ![w] = NoJob]
      /\ workqueue' = workqueue /\ req \in [Workers -> Jobs \cup {NoJob}]
  BY DEF Pool!Finish, Typed, TypeOK
<1>2. req[w] \in Jobs /\ InWork(req[w]) /\ HasJob(Object(w))
  BY <1>1, QueuedHasJob
<1>3. \A v \in Workers : req'[v] = IF v = w THEN NoJob ELSE req[v]
  BY <1>1
<1>4. ASSUME NEW job \in Jobs PROVE InWork(job)' <=> InWork(job) /\ job[1] # Object(w)
  <2>1. job # NoJob
    BY NoJobIsNone
  <2>2. ASSUME NEW v \in Workers, req'[v] = job
        PROVE  req[v] = job /\ job[1] # Object(w)
    <3>1. v # w /\ req[v] = job
      BY <1>3, <2>1, <2>2
    <3>2. Object(v) # Object(w)
      BY <1>1, <2>1, <3>1 DEF JobsDiffer
    <3> QED
      BY <3>1, <3>2 DEF Object
  <2>3. ASSUME NEW v \in Workers, req[v] = job, job[1] # Object(w) PROVE req'[v] = job
    BY <1>3, <2>3 DEF Object
  <2>4. \A i \in 1..Len(workqueue) : workqueue[i][1] # Object(w)
    BY <1>1 DEF JobsDiffer
  <2> QED
    BY <1>1, <2>2, <2>3, <2>4 DEF InWork
<1>5. \A fd : HasJob(fd)' <=> HasJob(fd) /\ fd # Object(w)
  BY <1>4 DEF HasJob
<1>6. JobsDiffer'
  BY <1>1, <1>3 DEF JobsDiffer, Object
<1> QED
  BY <1>2, <1>4, <1>5, <1>6

(***************************************************************************)
(* The timers are of different descriptors.                                *)
(***************************************************************************)
LEMMA RemoveAtDiffers ==
  ASSUME NEW S, NEW s \in Seq(S), NEW i \in 1..Len(s), NEW r, r = RemoveAt(s, i),
         \A j, k \in 1..Len(s) : s[j][1] = s[k][1] => j = k
  PROVE  /\ \A j \in 1..Len(r) : r[j][1] # s[i][1]
         /\ \A j, k \in 1..Len(r) : r[j][1] = r[k][1] => j = k
<1>0. /\ Len(s) \in Nat /\ Len(r) = Len(s) - 1
      /\ \A j \in 1..Len(r) : r[j] = IF j < i THEN s[j] ELSE s[j + 1]
  BY RemoveAtElements
<1>1. \A j \in 1..Len(r) : \E k \in 1..Len(s) : k # i /\ r[j] = s[k]
  BY RemoveAtKeeps
<1>2. ASSUME NEW j \in 1..Len(r), NEW k \in 1..Len(r), r[j][1] = r[k][1]
      PROVE  j = k
  <2>1. PICK a \in 1..Len(s) : r[j] = s[a] /\ a = (IF j < i THEN j ELSE j + 1)
    BY <1>0
  <2>2. PICK b \in 1..Len(s) : r[k] = s[b] /\ b = (IF k < i THEN k ELSE k + 1)
    BY <1>0
  <2>3. a = b
    BY <1>2, <2>1, <2>2
  <2> QED
    BY <2>1, <2>2, <2>3
<1> QED
  BY <1>1, <1>2

LEMMA UnlinkedLive ==
  ASSUME Typed, TimersAreLive, NEW fd \in Fds, NEW rest \in Unlinked(fd)
  PROVE  /\ rest \in Seq(Jobs) /\ Timer(fd) \in Jobs /\ Len(rest) \in Nat
         /\ conn[fd] = users_timer[fd]
         /\ \A j \in 1..Len(rest) : rest[j][1] # fd /\ conn[rest[j][1]] = rest[j][2]
         /\ \A j, k \in 1..Len(rest) : rest[j][1] = rest[k][1] => j = k
<1>1. PICK i \in 1..Len(timer_lst) :
        timer_lst[i] = Timer(fd) /\ rest = RemoveAt(timer_lst, i)
  BY DEF Unlinked
<1>2. timer_lst \in Seq(Jobs)
  BY DEF Typed
<1>3. /\ \A j \in 1..Len(timer_lst) : conn[timer_lst[j][1]] = timer_lst[j][2]
      /\ \A j, k \in 1..Len(timer_lst) : timer_lst[j][1] = timer_lst[k][1] => j = k
  BY DEF TimersAreLive
<1>4. Timer(fd)[1] = fd /\ Timer(fd)[2] = users_timer[fd]
  BY DEF Timer
<1>5. /\ \A j \in 1..Len(rest) : rest[j][1] # timer_lst[i][1]
      /\ \A j, k \in 1..Len(rest) : rest[j][1] = rest[k][1] => j = k
  BY <1>1, <1>2, <1>3, RemoveAtDiffers
<1>6. \A j \in 1..Len(rest) : \E k \in 1..Len(timer_lst) : k # i /\ rest[j] = timer_lst[k]
  BY <1>1, <1>2, RemoveAtKeeps
<1>7. rest \in Seq(Jobs) /\ Timer(fd) \in Jobs
  BY UnlinkedIs
<1> QED
  BY <1>1, <1>3, <1>4, <1>5, <1>6, <1>7

LEMMA AdjustLive ==
  ASSUME Typed, TimersAreLive, NEW fd \in Fds, Adjust(fd), conn' = conn
  PROVE  TimersAreLive'
<1>1. PICK rest \in Unlinked(fd) : timer_lst' = Append(rest, Timer(fd))
  BY DEF Adjust
<1>2. /\ rest \in Seq(Jobs) /\ Timer(fd) \in Jobs /\ Len(rest) \in Nat
      /\ conn[fd] = users_timer[fd]
      /\ \A j \in 1..Len(rest) : rest[j][1] # fd /\ conn[rest[j][1]] = rest[j][2]
      /\ \A j, k \in 1..Len(rest) : rest[j][1] = rest[k][1] => j = k
  BY UnlinkedLive
<1>3. Timer(fd)[1] = fd /\ Timer(fd)[2] = users_timer[fd]
  BY DEF Timer
<1>4. \A j \in 1..Len(timer_lst') : (j \in 1..Len(rest) /\ timer_lst'[j] = rest[j])
                                    \/ (j = Len(timer_lst') /\ timer_lst'[j] = Timer(fd))
  BY <1>1, <1>2, AppendKeeps
<1> QED
  BY <1>2, <1>3, <1>4, SMTT(30) DEF TimersAreLive

-----------------------------------------------------------------------------
(***************************************************************************)
(* Who has a connection, if every request has an answer and is finished    *)
(* before its timer fires.                                                 *)
(***************************************************************************)
LEMMA OneMoreOpen ==
  ASSUME TypeOK, NEW fd \in Fds, ~Open(fd), NEW k, k # 0,
         conn' = [conn EXCEPT ![fd] = k]
  PROVE  Cardinality(OpenFds') = Cardinality(OpenFds) + 1
<1>1. IsFiniteSet(OpenFds)
  BY ServerAssumption, FS_Subset DEF OpenFds
<1>2. OpenFds' = OpenFds \cup {fd} /\ fd \notin OpenFds
  BY DEF OpenFds, Open, TypeOK
<1> QED
  BY <1>1, <1>2, FS_AddElement

LEMMA OneLessOpen ==
  ASSUME TypeOK, NEW fd \in Fds, Open(fd), Close(fd)
  PROVE  Cardinality(OpenFds') = Cardinality(OpenFds) - 1
<1>1. IsFiniteSet(OpenFds)
  BY ServerAssumption, FS_Subset DEF OpenFds
<1>2. OpenFds' = OpenFds \ {fd} /\ fd \in OpenFds
  BY DEF OpenFds, Open, TypeOK, Close
<1> QED
  BY <1>1, <1>2, FS_RemoveElement

LEMMA OwnedInit == Init => Owned
<1> SUFFICES ASSUME Init PROVE Owned
  OBVIOUS
<1>1. \A fd \in Fds : ~Open(fd) /\ armed[fd] = "off"
  BY DEF Init, Open
<1>2. Len(workqueue) = 0 /\ Len(timer_lst) = 0 /\ \A w \in Workers : req[w] = NoJob
  BY DEF Init, Pool!QInit
<1>3. \A job \in Jobs : ~InWork(job)
  BY <1>2, NoJobIsNone DEF InWork
<1>4. CountsConnections
  <2>1. OpenFds = {}
    BY <1>1 DEF OpenFds
  <2> QED
    BY <2>1, FS_EmptySet DEF CountsConnections, Init
<1>5. Processing /\ JobsAreLive /\ Watched /\ JobsDiffer /\ TimersAreLive
  BY <1>1, <1>2, <1>3
  DEF Init, Processing, JobsAreLive, Watched, JobsDiffer, TimersAreLive
<1>6. EndedIsStill
  BY DEF Init, EndedIsStill
<1> QED
  BY <1>4, <1>5, <1>6, TimedInit DEF Owned

\* An event for a descriptor: main alone has its connection.
LEMMA MainHasIt ==
  ASSUME Owned, NEW kind, NEW fd \in Fds, Handle(kind, fd)
  PROVE  /\ Open(fd) /\ armed[fd] = "off" /\ ~HasJob(fd) /\ m_sockfd[fd] = fd
         /\ events' \subseteq events /\ ~ended
         /\ \A e \in events' : e.fd # fd
<1>1. Event(kind, fd) \in events /\ events' = events \ {Event(kind, fd)}
  BY DEF Handle
<1>2. Open(fd) /\ armed[fd] = "off" /\ ~HasJob(fd)
  BY <1>1, EventFields DEF Owned, Watched
<1>3. \A e \in events' : e.fd # fd
  BY <1>1, EventFields DEF Owned, Timed, OneEventEach
<1> QED
  BY <1>1, <1>2, <1>3 DEF Owned, JobsAreLive, EndedIsStill

\* A worker that has a job: the connection is open and nobody else has it.
LEMMA WorkerHasIt ==
  ASSUME Owned, NEW fd \in Fds, HasJob(fd)
  PROVE  /\ Open(fd) /\ m_sockfd[fd] = fd /\ armed[fd] = "off" /\ ~ended
         /\ InWork(<<fd, conn[fd]>>) /\ <<fd, conn[fd]>> \in Jobs
         /\ \A e \in events : e.fd # fd
<1>1. PICK job \in Jobs : InWork(job) /\ job[1] = fd
  BY DEF HasJob
<1>2. conn[fd] = job[2] /\ job[2] \in 1..MaxConns /\ job = <<fd, conn[fd]>>
  BY <1>1, JobIs DEF Owned, JobsAreLive
<1>3. conn[fd] # 0
  BY <1>2, ServerAssumption
<1>4. Open(fd) /\ m_sockfd[fd] = fd
  BY <1>3 DEF Open, Owned, JobsAreLive
<1>5. armed[fd] = "off" /\ ~ended /\ \A e \in events : e.fd # fd
  BY <1>4 DEF Owned, Watched, EndedIsStill
<1> QED
  BY <1>1, <1>2, <1>4, <1>5

\* Steps that open and close nothing.
LEMMA StaysOwned ==
  ASSUME Owned, Timed', UNCHANGED <<conn, m_sockfd, m_user_count, pc>>,
         \A job \in Jobs : InWork(job)' => InWork(job) \/ conn[job[1]] = job[2],
         Watched', JobsDiffer', TimersAreLive', EndedIsStill'
  PROVE  Owned'
<1>1. JobsAreLive'
  BY DEF Owned, JobsAreLive, Open
<1>2. CountsConnections'
  BY DEF Owned, CountsConnections, OpenFds, Open
<1> QED
  BY <1>1, <1>2 DEF Owned, Processing

\* Of these, the ones that have nothing to do with the connections.
LEMMA LoopOwned ==
  ASSUME Owned, Timed', UNCHANGED <<kernel, m_sockfd, m_user_count, timer_lst, pool, pc>>,
         events' \subseteq events,
         ended' => ended /\ UNCHANGED <<timeout, stop_server>>
  PROVE  Owned'
<1> USE DEF kernel, pool
<1>1. /\ \A job : InWork(job)' <=> InWork(job)
      /\ \A fd : HasJob(fd)' <=> HasJob(fd)
      /\ JobsDiffer'
  BY SameWork DEF Owned
<1>2. Watched'
  BY <1>1 DEF Owned, Watched, Open
<1>3. TimersAreLive'
  BY DEF Owned, TimersAreLive
<1>4. EndedIsStill'
  BY <1>1 DEF Owned, EndedIsStill, Open
<1> QED
  BY <1>1, <1>2, <1>3, <1>4, StaysOwned

\* Steps that close a connection, with its timer, that no worker has.
LEMMA ClosesOwned ==
  ASSUME Owned, Timed', NEW fd \in Fds, Open(fd), ~HasJob(fd), CbFunc(fd),
         UNCHANGED <<m_sockfd, pool, pc>>, ~ended', events' \subseteq events,
         \A e \in events' : e.fd # fd,
         \A i \in 1..Len(timer_lst') :
           timer_lst'[i][1] # fd /\ conn[timer_lst'[i][1]] = timer_lst'[i][2],
         \A i, j \in 1..Len(timer_lst') : timer_lst'[i][1] = timer_lst'[j][1] => i = j
  PROVE  Owned'
<1> USE DEF pool
<1>0. TypeOK /\ Close(fd) /\ m_user_count' = m_user_count - 1
  BY DEF CbFunc, Owned, Timed, Typed
<1>1. /\ conn \in [Fds -> 0..MaxConns] /\ conn' = [conn EXCEPT ![fd] = 0]
      /\ armed \in [Fds -> {"off", "in", "out"}]
      /\ armed' = [armed EXCEPT ![fd] = "off"]
  BY <1>0 DEF Close, TypeOK
<1>2. /\ ~Open(fd)' /\ armed'[fd] = "off"
      /\ \A f : f # fd => conn'[f] = conn[f]
      /\ \A f \in Fds : f # fd => (Open(f)' <=> Open(f)) /\ armed'[f] = armed[f]
  BY <1>1 DEF Open
<1>3. /\ \A job : InWork(job)' <=> InWork(job)
      /\ \A f : HasJob(f)' <=> HasJob(f)
      /\ JobsDiffer'
  BY SameWork DEF Owned
<1>4. JobsAreLive'
  <2>1. \A job \in Jobs : InWork(job) => job[1] # fd
    BY DEF HasJob
  <2>2. \A f \in Fds : Open(f)' => f # fd /\ Open(f)
    BY <1>2
  <2> QED
    BY <1>2, <1>3, <2>1, <2>2 DEF Owned, JobsAreLive
<1>5. Watched'
  BY <1>2, <1>3 DEF Owned, Watched
<1>6. TimersAreLive'
  BY <1>2 DEF TimersAreLive
<1>7. CountsConnections'
  BY <1>0, OneLessOpen DEF Owned, CountsConnections
<1>8. EndedIsStill'
  BY DEF EndedIsStill
<1> QED
  BY <1>3, <1>4, <1>5, <1>6, <1>7, <1>8 DEF Owned, Processing

LEMMA AcceptOwned ==
  ASSUME Owned, Timed', NEW fd \in Fds, AcceptNew(fd) PROVE Owned'
<1> USE DEF pool
<1>1. /\ events' \subseteq events /\ Event("accept", -1) \in events /\ ~Open(fd)
      /\ conn' = [conn EXCEPT ![fd] = accepted + 1]
      /\ armed' = [armed EXCEPT ![fd] = "in"]
      /\ m_sockfd' = [m_sockfd EXCEPT ![fd] = fd]
      /\ m_user_count' = m_user_count + 1
      /\ timer_lst' = Append(timer_lst, <<fd, accepted + 1>>)
      /\ ended' = ended /\ UNCHANGED <<pool, pc>>
  BY DEF AcceptNew, Handle, init, Addfd, FreeFds, flags, worker
<1>2. /\ conn \in [Fds -> 0..MaxConns] /\ armed \in [Fds -> {"off", "in", "out"}]
      /\ m_sockfd \in [Fds -> Fds \cup {-1}] /\ TypeOK /\ timer_lst \in Seq(Jobs)
      /\ accepted + 1 \in 1..MaxConns
  <2>1. TypeOK /\ timer_lst \in Seq(Jobs)
    BY DEF Owned, Timed, Typed
  <2>2. accepted < MaxConns
    BY <1>1 DEF Owned, Timed, Typed
  <2>3. accepted \in 0..MaxConns
    BY <2>1 DEF TypeOK
  <2>4. accepted + 1 \in 1..MaxConns
    BY <2>2, <2>3, ServerAssumption
  <2>5. /\ conn \in [Fds -> 0..MaxConns] /\ armed \in [Fds -> {"off", "in", "out"}]
        /\ m_sockfd \in [Fds -> Fds \cup {-1}]
    BY <2>1 DEF TypeOK
  <2> QED
    BY <2>1, <2>4, <2>5
<1>3. /\ conn'[fd] = accepted + 1 /\ m_sockfd'[fd] = fd /\ conn[fd] = 0
      /\ \A f : f # fd => conn'[f] = conn[f] /\ m_sockfd'[f] = m_sockfd[f]
                          /\ armed'[f] = armed[f]
      /\ \A f : f # fd => (Open(f)' <=> Open(f))
  BY <1>1, <1>2 DEF Open
<1>4. /\ \A job : InWork(job)' <=> InWork(job)
      /\ \A f : HasJob(f)' <=> HasJob(f)
      /\ JobsDiffer'
  BY <1>1, SameWork DEF Owned
<1>5. ~HasJob(fd)
  BY <1>1, WorkerHasIt
<1>6. \A job \in Jobs : conn[job[1]] = job[2] => job[1] # fd
  <2>1. \A job \in Jobs : job[2] # 0
    BY JobIs, ServerAssumption
  <2> QED
    BY <1>3, <2>1
<1>7. JobsAreLive'
  BY <1>3, <1>4, <1>6 DEF Owned, JobsAreLive
<1>8. Watched'
  BY <1>1, <1>3, <1>4, <1>5 DEF Owned, Watched
<1>9. TimersAreLive'
  <2>1. PICK new : new = <<fd, accepted + 1>>
    OBVIOUS
  <2>2. new \in Jobs /\ new[1] = fd /\ new[2] = accepted + 1
    BY <1>2, <2>1, JobParts
  <2>3. timer_lst' = Append(timer_lst, new)
    BY <1>1, <2>1
  <2>4. \A i \in 1..Len(timer_lst') :
          (i \in 1..Len(timer_lst) /\ timer_lst'[i] = timer_lst[i])
          \/ (i = Len(timer_lst') /\ timer_lst'[i] = new)
    BY <1>2, <2>2, <2>3, AppendKeeps
  <2>5. \A i \in 1..Len(timer_lst) : timer_lst[i][1] # fd
    BY <1>2, <1>6 DEF Owned, TimersAreLive
  <2>6. \A i \in 1..Len(timer_lst') : conn'[timer_lst'[i][1]] = timer_lst'[i][2]
    BY <1>3, <2>2, <2>4, <2>5 DEF Owned, TimersAreLive
  <2>7. \A i, j \in 1..Len(timer_lst') : timer_lst'[i][1] = timer_lst'[j][1] => i = j
    BY <2>2, <2>4, <2>5 DEF Owned, TimersAreLive
  <2> QED
    BY <2>6, <2>7 DEF TimersAreLive
<1>10. CountsConnections'
  <2>1. accepted + 1 # 0
    BY <1>2
  <2>2. PICK k : k = accepted + 1
    OBVIOUS
  <2> QED
    BY <1>1, <1>2, <2>1, <2>2, OneMoreOpen DEF Owned, CountsConnections
<1>11. EndedIsStill'
  BY <1>1 DEF Owned, EndedIsStill
<1> QED
  BY <1>1, <1>4, <1>7, <1>8, <1>9, <1>10, <1>11 DEF Owned, Processing

LEMMA OwnedStep == ASSUME Orderly PROVE Owned /\ [Next]_vars => Owned'
<1> SUFFICES ASSUME Owned, [Next]_vars PROVE Owned'
  OBVIOUS
<1> USE DEF kernel, signal, flags, loop, timers, pool, worker
<1>0. Timed' /\ Timed /\ Typed
  BY TimedStep DEF Owned, Timed
<1>1. CASE EpollWait
  <2>1. PICK S \in SUBSET Ready : /\ events' = S
                                  /\ \A e \in S : Reportable(e)
                                  /\ armed' = [f \in Fds |->
                                       IF \E e \in S : e.fd = f THEN "off" ELSE armed[f]]
    BY <1>1 DEF EpollWait
  <2>2. /\ UNCHANGED <<conn, m_sockfd, m_user_count, timer_lst, workqueue, req, pc, ended>>
        /\ ~ended
    BY <1>1 DEF EpollWait, Owned, EndedIsStill
  <2>3. /\ \A job : InWork(job)' <=> InWork(job)
        /\ \A fd : HasJob(fd)' <=> HasJob(fd)
        /\ JobsDiffer'
    BY <2>2, SameWork DEF Owned
  <2>4. ASSUME NEW e \in S, e.fd \in Fds PROVE Open(e.fd) /\ ~HasJob(e.fd)
    <3>1. PICK kind \in {"in", "out", "hup"} : e = Event(kind, e.fd)
      BY <2>1, <2>4, SocketEvent
    <3>2. e.kind = kind
      BY <3>1, EventFields
    <3>3. armed[e.fd] # "off"
      BY <2>1, <2>4, <3>2 DEF Reportable
    <3> QED
      BY <2>4, <3>3 DEF Owned, Timed, ArmedIsOpen, Watched
  <2>5. Watched'
    BY <2>1, <2>2, <2>3, <2>4 DEF Owned, Watched, Open
  <2>6. TimersAreLive' /\ EndedIsStill'
    BY <2>2 DEF Owned, TimersAreLive, EndedIsStill
  <2> QED
    BY <1>0, <2>2, <2>3, <2>5, <2>6, StaysOwned
<1>2. CASE AcceptNone \/ Signals
  <2>1. /\ UNCHANGED <<kernel, m_sockfd, m_user_count, timer_lst, pool, pc, ended>>
        /\ events' \subseteq events /\ ~ended
    BY <1>2 DEF AcceptNone, Signals, Handle, Owned, EndedIsStill
  <2> QED
    BY <1>0, <2>1, LoopOwned
<1>3. CASE TickEnd \/ Ring \/ Terminate \/ UNCHANGED vars
  <2>1. /\ UNCHANGED <<kernel, m_sockfd, m_user_count, timer_lst, pool, pc, ended>>
        /\ events' \subseteq events /\ (ended => UNCHANGED <<timeout, stop_server>>)
    BY <1>3 DEF TickEnd, Ring, Terminate, Caught, vars, Owned, EndedIsStill
  <2> QED
    BY <1>0, <2>1, LoopOwned
<1>4. ASSUME NEW fd \in Fds, AcceptNew(fd) PROVE Owned'
  BY <1>0, <1>4, AcceptOwned
<1>5. ASSUME NEW fd \in Fds, NEW kind \in {"hup", "in", "out"}, CloseHandled(kind, fd)
      PROVE  Owned'
  <2>1. /\ Open(fd) /\ ~HasJob(fd) /\ CbFunc(fd) /\ ~ended'
        /\ UNCHANGED <<m_sockfd, pool, pc>>
        /\ events' \subseteq events /\ \A e \in events' : e.fd # fd
        /\ timer_lst' \in Unlinked(fd)
    BY <1>5, MainHasIt DEF CloseHandled, Finished
  <2>2. /\ \A i \in 1..Len(timer_lst') :
             timer_lst'[i][1] # fd /\ conn[timer_lst'[i][1]] = timer_lst'[i][2]
        /\ \A i, j \in 1..Len(timer_lst') : timer_lst'[i][1] = timer_lst'[j][1] => i = j
    BY <1>0, <2>1, UnlinkedLive DEF Owned
  <2> QED
    BY <1>0, <2>1, <2>2, ClosesOwned
<1>6. ASSUME NEW fd \in Fds, ReadAppend(fd) PROVE Owned'
  <2>1. /\ Open(fd) /\ armed[fd] = "off" /\ ~HasJob(fd) /\ ~ended
        /\ events' \subseteq events /\ \A e \in events' : e.fd # fd
    BY <1>6, MainHasIt DEF ReadAppend, Received
  <2>2. /\ UNCHANGED <<conn, armed, m_sockfd, m_user_count, pc, ended>>
        /\ Adjust(fd) /\ workqueue' = Append(workqueue, <<fd, conn[fd]>>) /\ req' = req
    BY <1>6 DEF ReadAppend, Received, Pool!Submit
  <2>3. PICK job : job = <<fd, conn[fd]>>
    OBVIOUS
  <2>4. job \in Jobs /\ job[1] = fd /\ job[2] = conn[fd]
    BY <1>0, <2>1, <2>3, JobParts, ServerAssumption DEF Typed, TypeOK, Open
  <2>5. /\ \A j : InWork(j)' <=> InWork(j) \/ j = job
        /\ \A f : HasJob(f)' <=> HasJob(f) \/ f = fd
        /\ JobsDiffer'
    BY <1>0, <2>1, <2>2, <2>3, <2>4, AppendWork DEF Owned
  <2>6. Watched'
    BY <2>1, <2>2, <2>5 DEF Owned, Watched, Open
  <2>7. TimersAreLive'
    BY <1>0, <2>2, AdjustLive DEF Owned
  <2>8. EndedIsStill'
    BY <2>1, <2>2 DEF EndedIsStill
  <2> QED
    BY <1>0, <2>2, <2>4, <2>5, <2>6, <2>7, <2>8, StaysOwned
<1>7. ASSUME NEW fd \in Fds, ReadDrop(fd) PROVE Owned'
  <2>1. ~ended /\ events' \subseteq events
    BY <1>7, MainHasIt DEF ReadDrop, Received
  <2>2. /\ UNCHANGED <<conn, armed, m_sockfd, m_user_count, pc, ended, workqueue, req>>
        /\ Adjust(fd)
    BY <1>7 DEF ReadDrop, Received
  <2>3. /\ \A job : InWork(job)' <=> InWork(job)
        /\ \A f : HasJob(f)' <=> HasJob(f)
        /\ JobsDiffer'
    BY <2>2, SameWork DEF Owned
  <2>4. Watched'
    BY <2>1, <2>2, <2>3 DEF Owned, Watched, Open
  <2>5. TimersAreLive'
    BY <1>0, <2>2, AdjustLive DEF Owned
  <2>6. EndedIsStill'
    BY <2>1, <2>2 DEF EndedIsStill
  <2> QED
    BY <1>0, <2>2, <2>3, <2>4, <2>5, <2>6, StaysOwned
<1>8. ASSUME NEW fd \in Fds, NEW mode \in {"in", "out"}, Write(fd, mode) PROVE Owned'
  <2>1. /\ Open(fd) /\ m_sockfd[fd] = fd /\ ~HasJob(fd) /\ ~ended
        /\ events' \subseteq events /\ \A e \in events' : e.fd # fd
    BY <1>8, MainHasIt DEF Write
  <2>2. /\ UNCHANGED <<conn, m_sockfd, m_user_count, pc, ended, workqueue, req>>
        /\ Adjust(fd) /\ Modfd(fd, mode)
    BY <1>8, <2>1 DEF Write
  <2>3. /\ \A job : InWork(job)' <=> InWork(job)
        /\ \A f : HasJob(f)' <=> HasJob(f)
        /\ JobsDiffer'
    BY <2>2, SameWork DEF Owned
  <2>4. \A f \in Fds : armed'[f] # armed[f] => f = fd
    BY <1>0, <2>2, ModfdArms DEF Typed
  <2>5. Watched'
    BY <2>1, <2>2, <2>3, <2>4 DEF Owned, Watched, Open
  <2>6. TimersAreLive'
    BY <1>0, <2>2, AdjustLive DEF Owned
  <2>7. EndedIsStill'
    BY <2>1, <2>2 DEF EndedIsStill
  <2> QED
    BY <1>0, <2>2, <2>3, <2>5, <2>6, <2>7, StaysOwned
<1>9. ASSUME NEW tm \in Jobs, TickFire(tm) PROVE Owned'
  <2>1. PICK fd \in Fds : fd = tm[1]
    BY JobIs
  <2>2. /\ events' = {} /\ timeout /\ ended' = ended /\ UNCHANGED <<m_sockfd, pool, pc>>
        /\ timer_lst # << >> /\ tm = Head(timer_lst) /\ timer_lst' = Tail(timer_lst)
        /\ ~InWork(tm) /\ CbFunc(fd)
    BY <1>9, <2>1 DEF TickFire, Orderly
  <2>3. timer_lst \in Seq(Jobs)
    BY <1>0 DEF Typed
  <2>4. /\ tm = timer_lst[1] /\ 1 \in 1..Len(timer_lst)
        /\ \A j \in 1..Len(timer_lst') :
             timer_lst'[j] = timer_lst[j + 1] /\ j + 1 \in 1..Len(timer_lst)
    BY <2>2, <2>3, TailKeeps
  <2>5. conn[fd] = tm[2] /\ tm = <<fd, conn[fd]>> /\ tm[2] \in 1..MaxConns
    BY <2>1, <2>4, JobIs DEF Owned, TimersAreLive
  <2>6. Open(fd)
    BY <2>5, ServerAssumption DEF Open
  <2>7. ~HasJob(fd)
    BY <2>2, <2>5, WorkerHasIt
  <2>8. ASSUME NEW i \in 1..Len(timer_lst')
        PROVE  timer_lst'[i][1] # fd /\ conn[timer_lst'[i][1]] = timer_lst'[i][2]
    <3>1. PICK k \in 1..Len(timer_lst) : timer_lst'[i] = timer_lst[k] /\ k # 1
      BY <2>4
    <3> QED
      BY <2>1, <2>4, <3>1 DEF Owned, TimersAreLive
  <2>9. ASSUME NEW i \in 1..Len(timer_lst'), NEW j \in 1..Len(timer_lst'),
               timer_lst'[i][1] = timer_lst'[j][1]
        PROVE  i = j
    <3>1. i + 1 = j + 1
      BY <2>4, <2>9 DEF Owned, TimersAreLive
    <3> QED
      BY <3>1
  <2>10. ~ended' /\ events' \subseteq events /\ \A e \in events' : e.fd # fd
    BY <2>2 DEF Owned, EndedIsStill
  <2> QED
    BY <1>0, <2>2, <2>6, <2>7, <2>8, <2>9, <2>10, ClosesOwned
<1>10. CASE Leave
  <2>1. /\ events' = {} /\ stop_server' /\ ~timeout' /\ Len(workqueue') = 0
        /\ Len(timer_lst') = 0 /\ m_user_count' = 0
        /\ \A fd \in Fds : armed'[fd] = "off" /\ ~Open(fd)'
        /\ \A w \in Workers : req'[w] = NoJob /\ pc'[w] = "process"
    BY <1>10 DEF Leave, Open
  <2>2. \A job \in Jobs : ~InWork(job)'
    BY <2>1, NoJobIsNone DEF InWork
  <2>3. \A fd : ~HasJob(fd)'
    BY <2>2 DEF HasJob
  <2>4. CountsConnections'
    <3>1. OpenFds' = {}
      BY <2>1 DEF OpenFds
    <3> QED
      BY <2>1, <3>1, FS_EmptySet DEF CountsConnections
  <2>5. /\ Processing' /\ JobsAreLive' /\ Watched' /\ JobsDiffer' /\ TimersAreLive'
        /\ EndedIsStill'
    BY <2>1, <2>2, <2>3
    DEF Processing, JobsAreLive, Watched, JobsDiffer, TimersAreLive, EndedIsStill
  <2> QED
    BY <1>0, <2>4, <2>5 DEF Owned
<1>11. ASSUME NEW w \in Workers, Take(w) PROVE Owned'
  <2>1. /\ UNCHANGED <<conn, armed, events, m_sockfd, m_user_count, pc, timer_lst,
                       ended, timeout, stop_server>>
        /\ Pool!TakeNext(w)
    BY <1>11 DEF Take
  <2>2. /\ \A job \in Jobs : InWork(job)' <=> InWork(job)
        /\ \A fd : HasJob(fd)' <=> HasJob(fd)
        /\ JobsDiffer'
    BY <1>0, <2>1, TakeWork DEF Owned
  <2>3. Watched'
    BY <2>1, <2>2 DEF Owned, Watched, Open
  <2>4. TimersAreLive'
    BY <2>1 DEF Owned, TimersAreLive
  <2>5. EndedIsStill'
    BY <2>1, <2>2 DEF Owned, EndedIsStill, Open
  <2> QED
    BY <1>0, <2>1, <2>2, <2>3, <2>4, <2>5, StaysOwned
<1>12. ASSUME NEW w \in Workers, NEW mode \in {"in", "out"}, Rearm(w, mode)
       PROVE  Owned'
  <2>1. /\ UNCHANGED <<conn, events, m_sockfd, m_user_count, pc, timer_lst, ended>>
        /\ Pool!Finish(w) /\ Modfd(m_sockfd[Object(w)], mode)
    BY <1>12 DEF Rearm
  <2>2. /\ req[w] \in Jobs /\ HasJob(Object(w))
        /\ \A job \in Jobs : InWork(job)' <=> InWork(job) /\ job[1] # Object(w)
        /\ \A fd : HasJob(fd)' <=> HasJob(fd) /\ fd # Object(w)
        /\ JobsDiffer'
    BY <1>0, <2>1, FinishWork DEF Owned
  <2>3. PICK fd \in Fds : fd = Object(w)
    BY <2>2, JobIs DEF Object
  <2>4. /\ m_sockfd[fd] = fd /\ ~ended
        /\ \A e \in events : e.fd # fd
    BY <2>2, <2>3, WorkerHasIt
  <2>5. \A f \in Fds : armed'[f] # armed[f] => f = fd
    BY <1>0, <2>1, <2>3, <2>4, ModfdArms DEF Typed
  <2>6. Watched'
    BY <2>1, <2>2, <2>3, <2>4, <2>5 DEF Owned, Watched, Open
  <2>7. TimersAreLive' /\ EndedIsStill'
    BY <2>1, <2>4 DEF Owned, TimersAreLive, EndedIsStill
  <2> QED
    BY <1>0, <2>1, <2>2, <2>6, <2>7, StaysOwned
<1>13. ASSUME NEW w \in Workers,
              CloseConn(w) \/ Forget(w) \/ LoadCount(w) \/ StoreCount(w) \/ RearmClosed(w)
       PROVE  Owned'
  BY <1>13
  DEF CloseConn, Forget, LoadCount, StoreCount, RearmClosed, GoTo, At, Owned,
      Processing, Orderly
<1> QED
  BY <1>1, <1>2, <1>3, <1>4, <1>5, <1>6, <1>7, <1>8, <1>9, <1>10, <1>11, <1>12, <1>13
  DEF Next, Main, Work, Ended, WritePart, WriteAll


(***************************************************************************)
(* Every request has an answer and is finished before its timer fires: no  *)
(* two parties have a connection.                                          *)
(***************************************************************************)
LEMMA NoneOrOne ==
  ASSUME NEW S, \A a, b \in S : a = b
  PROVE  Cardinality(S) = IF S = {} THEN 0 ELSE 1
<1>1. CASE S = {}
  BY <1>1, FS_EmptySet
<1>2. CASE S # {}
  <2>1. PICK a : S = {a}
    BY <1>2
  <2> QED
    BY <1>2, <2>1, FS_Singleton
<1> QED
  BY <1>1, <1>2

LEMMA OwnedParties == Owned => OneParty
<1> SUFFICES ASSUME Owned, NEW fd \in Fds PROVE Parties(fd) <= 1
  BY DEF OneParty
<1> DEFINE Mains  == armed[fd] # "off" \/ \E e \in events : e.fd = fd
           Queued == {i \in 1..Len(workqueue) : workqueue[i][1] = fd}
           InHand == {w \in Workers : req[w] # NoJob /\ req[w][1] = fd}
<1>1. Cardinality(Queued) = IF Queued = {} THEN 0 ELSE 1
  <2>1. \A i, j \in Queued : i = j
    BY DEF Owned, JobsDiffer
  <2> QED
    BY <2>1, NoneOrOne
<1>2. Cardinality(InHand) = IF InHand = {} THEN 0 ELSE 1
  <2>1. \A v, w \in InHand : v = w
    BY DEF Owned, JobsDiffer, Object
  <2> QED
    BY <2>1, NoneOrOne
<1>3. Queued = {} \/ InHand = {}
  BY DEF Owned, JobsDiffer, Object
<1>4. Mains => Queued = {} /\ InHand = {}
  <2>1. Typed
    BY DEF Owned, Timed
  <2>2. Queued # {} \/ InHand # {} => HasJob(fd)
    BY <2>1, QueuedHasJob DEF Object
  <2>3. Mains => ~HasJob(fd)
    BY DEF Owned, Watched
  <2> QED
    BY <2>2, <2>3
<1>5. Parties(fd) = (IF Mains THEN 1 ELSE 0) + Cardinality(Queued) + Cardinality(InHand)
  BY DEF Parties
<1> HIDE DEF Mains, Queued, InHand
<1> QED
  BY <1>1, <1>2, <1>3, <1>4, <1>5

\* At any time at most one of epoll and main, the queue and the workers has a
\* connection.
THEOREM OnePartyEach == ASSUME Patient, ~BadRequests PROVE Spec => []OneParty
<1>1. Owned /\ [Next]_vars => Owned'
  BY OwnedStep DEF Orderly
<1> QED
  BY OwnedInit, <1>1, OwnedParties, PTL DEF Spec

\* The number of users is the number of open connections.
THEOREM CountIsRight == ASSUME Patient, ~BadRequests PROVE Spec => []CountsConnections
<1>1. Owned /\ [Next]_vars => Owned'
  BY OwnedStep DEF Orderly
<1>2. Owned => CountsConnections
  BY DEF Owned
<1> QED
  BY OwnedInit, <1>1, <1>2, PTL DEF Spec


-----------------------------------------------------------------------------
(***************************************************************************)
(* The cycle of a connection, step by step: the safety part of             *)
(* IsConnectionCycle.                                                      *)
(***************************************************************************)
CyclesSafely == Cycle!CInit /\ [][Cycle!CNext]_(Cycle!cycle)

\* Phase, by what Owned says of the connection.
Place(fd) ==
  IF ~Open(fd) THEN "closed"
  ELSE IF HasJob(fd) THEN "work"
  ELSE IF armed[fd] = "in" \/ Event("in", fd) \in events THEN "idle"
  ELSE IF armed[fd] = "out" \/ Event("out", fd) \in events THEN "reply"
  ELSE "lost"

LEMMA PhaseIsPlace == Owned => \A fd \in Fds : Phase(fd) = Place(fd)
<1> SUFFICES ASSUME Owned, NEW fd \in Fds PROVE Phase(fd) = Place(fd)
  OBVIOUS
<1>1. Open(fd) => (InWork(<<fd, conn[fd]>>) <=> HasJob(fd))
  <2>1. ASSUME Open(fd), InWork(<<fd, conn[fd]>>) PROVE HasJob(fd)
    <3>1. conn \in [Fds -> 0..MaxConns]
      BY DEF Owned, Timed, Typed, TypeOK
    <3>2. <<fd, conn[fd]>> \in Jobs
      BY <2>1, <3>1, JobParts, ServerAssumption DEF Open
    <3>3. PICK job \in Jobs : job = <<fd, conn[fd]>>
      BY <3>2
    <3> QED
      BY <2>1, <3>3 DEF HasJob
  <2> QED
    BY <2>1, WorkerHasIt
<1> QED
  BY <1>1 DEF Phase, Place

LEMMA PhaseIsPlaceNext == Owned' => (\A fd \in Fds : Phase(fd) = Place(fd))'
BY PhaseIsPlace, PTL

\* What does not change where a connection is.
LEMMA SamePlace ==
  ASSUME NEW fd \in Fds, conn'[fd] = conn[fd], armed'[fd] = armed[fd],
         HasJob(fd)' <=> HasJob(fd),
         \A kind : Event(kind, fd) \in events' <=> Event(kind, fd) \in events
  PROVE  Place(fd)' = Place(fd)
<1>1. Open(fd)' <=> Open(fd)
  BY DEF Open
<1> QED
  BY <1>1 DEF Place

\* One connection goes from one phase to another.
LEMMA Goes ==
  ASSUME Owned, Owned', ~ended, ended' = ended, NEW fd \in Fds, NEW from, NEW to,
         Place(fd) \in from, Place(fd)' = to,
         \A f \in Fds : f # fd => Place(f)' = Place(f)
  PROVE  Cycle!Go(fd, from, to)
<1>1. \A f \in Fds : Phase(f) = Place(f) /\ Phase(f)' = Place(f)'
  BY PhaseIsPlace, PhaseIsPlaceNext
<1> QED
  BY <1>1 DEF Cycle!Go

\* No connection goes anywhere.
LEMMA StaysInPlace ==
  ASSUME Owned, Owned', ended' = ended, \A f \in Fds : Place(f)' = Place(f)
  PROVE  UNCHANGED Cycle!cycle
<1>1. \A f \in Fds : Phase(f) = Place(f) /\ Phase(f)' = Place(f)'
  BY PhaseIsPlace, PhaseIsPlaceNext
<1> QED
  BY <1>1 DEF Cycle!cycle

LEMMA CycleInit == Init => Cycle!CInit
<1> SUFFICES ASSUME Init PROVE Cycle!CInit
  OBVIOUS
<1>1. \A fd \in Fds : Phase(fd) = "closed"
  BY DEF Init, Phase, Open
<1> QED
  BY <1>1 DEF Init, Cycle!CInit

LEMMA EventsDiffer ==
  ASSUME NEW kind, NEW fd \in Fds, Handle(kind, fd)
  PROVE  \A k, f : f # fd => (Event(k, f) \in events' <=> Event(k, f) \in events)
BY EventFields DEF Handle

LEMMA CycleStep ==
  ASSUME Orderly PROVE Owned /\ Owned' /\ [Next]_vars => [Cycle!CNext]_(Cycle!cycle)
<1> SUFFICES ASSUME Owned, Owned', [Next]_vars PROVE [Cycle!CNext]_(Cycle!cycle)
  OBVIOUS
<1> USE DEF kernel, signal, flags, loop, timers, pool, worker
<1>0. /\ Typed /\ conn \in [Fds -> 0..MaxConns] /\ armed \in [Fds -> {"off", "in", "out"}]
      /\ OneEventEach /\ OneEventEach'
  BY DEF Owned, Timed, Typed, TypeOK
<1>a. \A fd, gd : Event("in", fd) # Event("out", gd)
  BY EventFields
<1>1. CASE EpollWait
  <2>1. PICK S \in SUBSET Ready : /\ events = {} /\ events' = S
                                  /\ \A e \in S : Reportable(e)
                                  /\ armed' = [f \in Fds |->
                                       IF \E e \in S : e.fd = f THEN "off" ELSE armed[f]]
    BY <1>1 DEF EpollWait
  <2>2. UNCHANGED <<conn, workqueue, req, ended>> /\ ~ended
    BY <1>1 DEF EpollWait, Owned, EndedIsStill
  <2>3. \A fd \in Fds : (HasJob(fd)' <=> HasJob(fd)) /\ (Open(fd)' <=> Open(fd))
    BY <2>2, SameWork DEF Open
  <2>4. ASSUME NEW fd \in Fds, NEW kind, Event(kind, fd) \in S
        PROVE  /\ kind = "hup" => armed[fd] # "off"
               /\ kind \in {"in", "out"} => armed[fd] = kind
               /\ armed'[fd] = "off"
               /\ \A k : Event(k, fd) \in S => k = kind
    <3>1. Reportable(Event(kind, fd))
      BY <2>1, <2>4
    <3>2. /\ kind = "hup" => armed[fd] # "off"
          /\ kind \in {"in", "out"} => armed[fd] = kind
      BY <3>1, EventFields DEF Reportable
    <3>3. \A k : Event(k, fd) \in S => k = kind
      BY <1>0, <2>1, <2>4, EventFields DEF OneEventEach
    <3>4. armed'[fd] = "off"
      BY <2>1, <2>4, EventFields
    <3> QED
      BY <3>2, <3>3, <3>4
  <2>5. ASSUME NEW fd \in Fds, Event("hup", fd) \in S
        PROVE  Place(fd) \in {"idle", "reply"} /\ Place(fd)' = "lost"
    <3>1. armed[fd] # "off" /\ armed'[fd] = "off"
      BY <2>4, <2>5
    <3>2. Event("in", fd) \notin S /\ Event("out", fd) \notin S
      BY <2>4, <2>5
    <3>3. Open(fd) /\ ~HasJob(fd)
      BY <3>1 DEF Owned, Timed, ArmedIsOpen, Watched
    <3> QED
      BY <1>0, <2>1, <2>3, <3>1, <3>2, <3>3 DEF Place
  <2>6. ASSUME NEW fd \in Fds, Event("hup", fd) \notin S
        PROVE  Place(fd)' = Place(fd)
    <3>1. CASE \E e \in S : e.fd = fd
      <4>1. PICK e \in S : e.fd = fd
        BY <3>1
      <4>2. PICK kind \in {"in", "out"} : Event(kind, fd) \in S
        BY <2>1, <2>6, <4>1, SocketEvent
      <4>3. armed[fd] = kind /\ armed'[fd] = "off"
        BY <2>4, <4>2
      <4>4. \A k \in {"in", "out"} : Event(k, fd) \in S <=> k = kind
        BY <2>4, <4>2
      <4> QED
        BY <2>1, <2>3, <4>2, <4>3, <4>4 DEF Place
    <3>2. CASE ~ \E e \in S : e.fd = fd
      <4>1. armed'[fd] = armed[fd] /\ \A kind : Event(kind, fd) \notin S
        BY <2>1, <3>2, EventFields
      <4> QED
        BY <2>1, <2>3, <4>1 DEF Place
    <3> QED
      BY <3>1, <3>2
  <2>7. PICK gone \in SUBSET Fds : gone = {fd \in Fds : Event("hup", fd) \in S}
    OBVIOUS
  <2>8. \A f \in Fds : Phase(f) = Place(f) /\ Phase(f)' = Place(f)'
    BY PhaseIsPlace, PhaseIsPlaceNext
  <2>9. Cycle!HangUp(gone)
    BY <2>2, <2>5, <2>6, <2>7, <2>8 DEF Cycle!HangUp
  <2> QED
    BY <2>9 DEF Cycle!CNext
<1>2. CASE AcceptNone \/ Signals \/ TickEnd \/ Ring \/ Terminate \/ UNCHANGED vars
  <2>1. /\ UNCHANGED <<conn, armed, workqueue, req, ended>>
        /\ \A kind, fd : fd \in Fds =>
             (Event(kind, fd) \in events' <=> Event(kind, fd) \in events)
    BY <1>2, NoFd, EventFields
    DEF AcceptNone, Signals, TickEnd, Ring, Terminate, Caught, vars, Handle
  <2>2. \A fd \in Fds : Place(fd)' = Place(fd)
    BY <2>1, SameWork, SamePlace
  <2> QED
    BY <2>1, <2>2, StaysInPlace
<1>3. ASSUME NEW fd \in Fds, AcceptNew(fd) PROVE Cycle!Accept(fd)
  <2>1. /\ events' = events \ {Event("accept", -1)} /\ ~Open(fd) /\ ~ended
        /\ conn' = [conn EXCEPT ![fd] = accepted + 1]
        /\ armed' = [armed EXCEPT ![fd] = "in"]
        /\ UNCHANGED <<ended, workqueue, req>>
    BY <1>3 DEF AcceptNew, Handle, init, Addfd, FreeFds, Owned, EndedIsStill
  <2>2. \A f : HasJob(f)' <=> HasJob(f)
    BY <2>1, SameWork
  <2>3. Place(fd) = "closed"
    BY <2>1 DEF Place
  <2>4. Place(fd)' = "idle"
    <3>1. ~HasJob(fd)'
      BY <2>1, <2>2, WorkerHasIt
    <3>2. Open(fd)' /\ armed'[fd] = "in"
      BY <1>0, <2>1, ServerAssumption DEF Open, Typed, TypeOK
    <3> QED
      BY <3>1, <3>2 DEF Place
  <2>5. \A f \in Fds : f # fd => Place(f)' = Place(f)
    <3>1. \A f \in Fds : \A kind :
            Event(kind, f) \in events' <=> Event(kind, f) \in events
      BY <2>1, NoFd, EventFields
    <3> QED
      BY <1>0, <2>1, <2>2, <3>1, SamePlace
  <2> QED
    BY <2>1, <2>3, <2>4, <2>5, Goes DEF Cycle!Accept

<1>4. ASSUME NEW fd \in Fds, Open(fd), ~HasJob(fd), Close(fd), ~ended, ended' = ended,
             UNCHANGED pool,
             \A k, f : f # fd => (Event(k, f) \in events' <=> Event(k, f) \in events)
      PROVE  Cycle!Close(fd)
  <2>1. conn' = [conn EXCEPT ![fd] = 0] /\ armed' = [armed EXCEPT ![fd] = "off"]
    BY <1>4 DEF Close
  <2>2. Place(fd) \in {"idle", "reply", "lost"}
    BY <1>4 DEF Place
  <2>3. Place(fd)' = "closed"
    BY <1>0, <2>1 DEF Place, Open
  <2>4. \A f \in Fds : f # fd => Place(f)' = Place(f)
    BY <1>0, <1>4, <2>1, SameWork, SamePlace
  <2> QED
    BY <1>4, <2>2, <2>3, <2>4, Goes DEF Cycle!Close
<1>5. ASSUME NEW fd \in Fds, NEW kind \in {"hup", "in", "out"}, CloseHandled(kind, fd)
      PROVE  Cycle!Close(fd)
  <2>1. Handle(kind, fd) /\ Close(fd) /\ UNCHANGED <<pool, ended>>
    BY <1>5 DEF CloseHandled, CbFunc
  <2>2. Open(fd) /\ ~HasJob(fd) /\ ~ended
    BY <2>1, MainHasIt
  <2>3. \A k, f : f # fd => (Event(k, f) \in events' <=> Event(k, f) \in events)
    BY <2>1, EventsDiffer
  <2> QED
    BY <1>4, <2>1, <2>2, <2>3
<1>6. ASSUME NEW fd \in Fds, ReadAppend(fd) PROVE Cycle!Begin(fd)
  <2>1. /\ Handle("in", fd) /\ Adjust(fd) /\ UNCHANGED <<conn, armed, ended>>
        /\ workqueue' = Append(workqueue, <<fd, conn[fd]>>) /\ req' = req
    BY <1>6 DEF ReadAppend, Received, Pool!Submit
  <2>2. Open(fd) /\ ~HasJob(fd) /\ ~ended /\ Event("in", fd) \in events
    BY <2>1, MainHasIt DEF Handle
  <2>3. PICK job : job = <<fd, conn[fd]>>
    OBVIOUS
  <2>4. job \in Jobs /\ job[1] = fd
    BY <1>0, <2>2, <2>3, JobParts, ServerAssumption DEF Open
  <2>5. \A f : HasJob(f)' <=> HasJob(f) \/ f = fd
    BY <1>0, <2>1, <2>2, <2>3, <2>4, AppendWork DEF Owned
  <2>6. Place(fd) = "idle" /\ Place(fd)' = "work"
    BY <2>1, <2>2, <2>5 DEF Place, Open
  <2>7. \A f \in Fds : f # fd => Place(f)' = Place(f)
    BY <2>1, <2>5, EventsDiffer, SamePlace
  <2> QED
    BY <2>1, <2>2, <2>6, <2>7, Goes DEF Cycle!Begin
<1>7. ASSUME NEW fd \in Fds, ReadDrop(fd) PROVE Cycle!Drop(fd)
  <2>1. Handle("in", fd) /\ UNCHANGED <<conn, armed, ended, workqueue, req>>
    BY <1>7 DEF ReadDrop, Received
  <2>2. /\ Open(fd) /\ armed[fd] = "off" /\ ~HasJob(fd) /\ ~ended
        /\ Event("in", fd) \in events /\ \A e \in events' : e.fd # fd
    BY <2>1, MainHasIt DEF Handle
  <2>3. \A f : HasJob(f)' <=> HasJob(f)
    BY <2>1, SameWork
  <2>4. Event("in", fd) \notin events' /\ Event("out", fd) \notin events'
    BY <2>2, EventFields
  <2>5. Place(fd) = "idle" /\ Place(fd)' = "lost"
    BY <2>1, <2>2, <2>3, <2>4 DEF Place, Open
  <2>6. \A f \in Fds : f # fd => Place(f)' = Place(f)
    BY <2>1, <2>3, EventsDiffer, SamePlace
  <2> QED
    BY <2>1, <2>2, <2>5, <2>6, Goes DEF Cycle!Drop
<1>8. ASSUME NEW fd \in Fds, NEW mode \in {"in", "out"}, Write(fd, mode)
      PROVE  /\ ~ended /\ ended' = ended /\ Place(fd) = "reply"
             /\ Place(fd)' = IF mode = "in" THEN "idle" ELSE "reply"
             /\ \A f \in Fds : f # fd => Place(f)' = Place(f)
  <2>1. Handle("out", fd) /\ UNCHANGED <<conn, ended, workqueue, req>>
    BY <1>8 DEF Write
  <2>2. /\ Open(fd) /\ armed[fd] = "off" /\ ~HasJob(fd) /\ ~ended /\ m_sockfd[fd] = fd
        /\ Event("out", fd) \in events /\ \A e \in events' : e.fd # fd
    BY <2>1, MainHasIt DEF Handle
  <2>3. Modfd(fd, mode)
    BY <1>8, <2>2 DEF Write
  <2>4. armed'[fd] = mode /\ \A f \in Fds : f # fd => armed'[f] = armed[f]
    BY <1>0, <2>2, <2>3, ModfdArms DEF Typed
  <2>5. \A f : HasJob(f)' <=> HasJob(f)
    BY <2>1, SameWork
  <2>6. Event("in", fd) \notin events /\ Event("in", fd) \notin events'
    BY <1>0, <1>a, <2>2, EventFields DEF OneEventEach
  <2>7. Place(fd) = "reply"
    BY <2>2, <2>6 DEF Place
  <2>8. Place(fd)' = IF mode = "in" THEN "idle" ELSE "reply"
    BY <2>1, <2>2, <2>4, <2>5, <2>6 DEF Place, Open
  <2>9. \A f \in Fds : f # fd => Place(f)' = Place(f)
    BY <2>1, <2>4, <2>5, EventsDiffer, SamePlace
  <2> QED
    BY <2>1, <2>2, <2>7, <2>8, <2>9
<1>9. ASSUME NEW fd \in Fds, WriteAll(fd) PROVE Cycle!Sent(fd)
  BY <1>8, <1>9, Goes DEF WriteAll, Cycle!Sent
<1>10. ASSUME NEW fd \in Fds, WritePart(fd) PROVE UNCHANGED Cycle!cycle
  <2>1. Write(fd, "out")
    BY <1>10 DEF WritePart
  <2>2. ended' = ended /\ \A f \in Fds : Place(f)' = Place(f)
    BY <1>8, <2>1
  <2> QED
    BY <2>2, StaysInPlace
<1>11. ASSUME NEW tm \in Jobs, TickFire(tm) PROVE Cycle!Close(tm[1])
  <2>1. PICK fd \in Fds : fd = tm[1]
    BY JobIs
  <2>2. /\ UNCHANGED <<events, ended, pool>> /\ timeout /\ Close(fd) /\ ~InWork(tm)
        /\ timer_lst # << >> /\ tm = Head(timer_lst)
    BY <1>11, <2>1 DEF TickFire, CbFunc, Orderly
  <2>3. timer_lst \in Seq(Jobs)
    BY <1>0 DEF Typed
  <2>4. tm = timer_lst[1] /\ 1 \in 1..Len(timer_lst)
    BY <2>2, <2>3, TailKeeps
  <2>5. conn[fd] = tm[2] /\ tm = <<fd, conn[fd]>> /\ tm[2] \in 1..MaxConns
    BY <2>1, <2>4, JobIs DEF Owned, TimersAreLive
  <2>6. Open(fd) /\ ~HasJob(fd) /\ ~ended
    BY <2>2, <2>5, WorkerHasIt, ServerAssumption DEF Open, Owned, EndedIsStill
  <2> QED
    BY <1>4, <2>1, <2>2, <2>6
<1>12. CASE Leave
  <2>1. ~ended /\ ended' = TRUE /\ \A fd \in Fds : ~Open(fd)'
    BY <1>12 DEF Leave, Open
  <2>2. \A fd \in Fds : Phase(fd)' = "closed"
    BY <2>1 DEF Phase, Open
  <2>3. Cycle!Stop
    BY <2>1, <2>2 DEF Cycle!Stop
  <2> QED
    BY <2>3 DEF Cycle!CNext
<1>13. ASSUME NEW w \in Workers, Take(w) PROVE UNCHANGED Cycle!cycle
  <2>1. UNCHANGED <<conn, armed, events, ended>> /\ Pool!TakeNext(w)
    BY <1>13 DEF Take
  <2>2. \A fd : HasJob(fd)' <=> HasJob(fd)
    BY <1>0, <2>1, TakeWork DEF Owned
  <2>3. \A f \in Fds : Place(f)' = Place(f)
    BY <2>1, <2>2, SamePlace
  <2> QED
    BY <2>1, <2>3, StaysInPlace
<1>14. ASSUME NEW w \in Workers, NEW mode \in {"in", "out"}, Rearm(w, mode)
       PROVE  \E fd \in Fds : Cycle!Await(fd) \/ Cycle!Reply(fd)
  <2>1. /\ UNCHANGED <<conn, events, ended>>
        /\ Pool!Finish(w) /\ Modfd(m_sockfd[Object(w)], mode)
    BY <1>14 DEF Rearm
  <2>2. /\ req[w] \in Jobs /\ HasJob(Object(w))
        /\ \A fd : HasJob(fd)' <=> HasJob(fd) /\ fd # Object(w)
    BY <1>0, <2>1, FinishWork DEF Owned
  <2>3. PICK fd \in Fds : fd = Object(w)
    BY <2>2, JobIs DEF Object
  <2>4. /\ Open(fd) /\ m_sockfd[fd] = fd /\ ~ended
        /\ \A e \in events : e.fd # fd
    BY <2>2, <2>3, WorkerHasIt
  <2>5. armed'[fd] = mode /\ \A f \in Fds : f # fd => armed'[f] = armed[f]
    BY <1>0, <2>1, <2>3, <2>4, ModfdArms DEF Typed
  <2>6. Event("in", fd) \notin events'
    BY <2>1, <2>4, EventFields
  <2>7. Place(fd) = "work" /\ Place(fd)' = IF mode = "in" THEN "idle" ELSE "reply"
    BY <2>1, <2>2, <2>3, <2>4, <2>5, <2>6 DEF Place, Open
  <2>8. \A f \in Fds : f # fd => Place(f)' = Place(f)
    BY <2>1, <2>2, <2>3, <2>5, SamePlace
  <2>9. mode = "in" => Cycle!Await(fd)
    BY <2>1, <2>4, <2>7, <2>8, Goes DEF Cycle!Await
  <2>10. mode = "out" => Cycle!Reply(fd)
    BY <2>1, <2>4, <2>7, <2>8, Goes DEF Cycle!Reply
  <2> QED
    BY <2>9, <2>10
<1>15. ASSUME NEW w \in Workers,
              CloseConn(w) \/ Forget(w) \/ LoadCount(w) \/ StoreCount(w) \/ RearmClosed(w)
       PROVE  FALSE
  BY <1>15
  DEF CloseConn, Forget, LoadCount, StoreCount, RearmClosed, GoTo, At, Owned,
      Processing, Orderly
<1>16. \A tm \in Jobs : tm[1] \in Fds
  BY JobIs
<1> QED
  BY <1>1, <1>2, <1>3, <1>5, <1>6, <1>7, <1>9, <1>10, <1>11, <1>12, <1>13, <1>14,
     <1>15, <1>16
  DEF Next, Main, Work, Ended, Cycle!CNext

\* Every step takes the connections through their cycle, or leaves them where
\* they are.
THEOREM ConnectionsCycle == ASSUME Patient, ~BadRequests PROVE Spec => CyclesSafely
<1>1. Owned /\ [Next]_vars => Owned'
  BY OwnedStep DEF Orderly
<1>2. Owned /\ Owned' /\ [Next]_vars => [Cycle!CNext]_(Cycle!cycle)
  BY CycleStep DEF Orderly
<1> QED
  BY OwnedInit, CycleInit, <1>1, <1>2, PTL DEF Spec, CyclesSafely

=============================================================================
