------------------------------- MODULE Server -------------------------------
(***************************************************************************)
(* main.cpp's event loop, the workers that run http_conn::process(), and   *)
(* the kernel objects they share: the sockets and their registrations in   *)
(* epoll.  The thread pool is the queue that ThreadPool implements, the    *)
(* timers are in the order in which TimerList keeps them while the clock   *)
(* does not go back.                                                       *)
(*                                                                         *)
(* A descriptor is used again for a new connection as soon as it is closed *)
(* while users[fd] and users_timer[fd] stay; the k-th connection accepted  *)
(* is k.  A request in the queue is the pointer users + fd; the connection *)
(* it was read from is written beside it for the properties only.          *)
(***************************************************************************)
EXTENDS Integers, FiniteSets, SequencesExt

CONSTANTS
  Fds,           \* the descriptors sockets get
  Workers,
  NoJob,         \* the request of a worker that has none
  MaxConns,      \* bound: how many connections are accepted
  MaxFd,         \* MAX_FD
  MaxRequests,   \* m_max_requests of the thread pool
  MaxEvents,     \* MAX_EVENT_NUMBER
  LowestFirst,   \* does accept get the lowest of Fds that is free?
  MayStop,       \* may SIGTERM come?
  Patient,       \* does a worker always finish before the timer fires?
  BadRequests    \* are there requests that process_write has no answer to?

Jobs == Fds \X (1..MaxConns)

ASSUME ServerAssumption ==
  /\ IsFiniteSet(Fds) /\ Fds \subseteq Nat /\ NoJob \notin Jobs
  /\ MaxConns \in Nat /\ MaxFd \in Nat
  /\ MaxRequests \in Nat \ {0} /\ MaxEvents \in Nat \ {0}
  /\ {LowestFirst, MayStop, Patient, BadRequests} \subseteq BOOLEAN

VARIABLES
  conn,          \* the connection each descriptor is open for, or 0
  armed,         \* what its registration in epoll waits for: off, in, out
  events,        \* what epoll_wait returned and main has not handled yet
  timeout,       \* was SIGALRM read in the batch? main ticks after it
  stop_server,   \* was SIGTERM read? main leaves its loop after the batch
  ended,         \* has the process ended?
  alarm,         \* is the alarm clock set?
  pipefd,        \* the signals whose bytes wait in the pipe
  m_sockfd,      \* of each http_conn, or -1
  m_user_count,
  timer_lst,     \* the timers, first to expire first
  users_timer,   \* the connection that users_timer[fd].timer was made for
  workqueue, req,
  pc,            \* of each worker: where it is in process()
  loaded,        \* the value of m_user_count a worker is about to decrement
  accepted       \* how many connections were accepted

kernel == <<conn, armed>>
signal == <<alarm, pipefd>>
flags  == <<timeout, stop_server, ended>>
loop   == <<events, flags, accepted, signal>>
timers == <<timer_lst, users_timer>>
pool   == <<workqueue, req>>
worker == <<pc, loaded>>
vars   == <<kernel, loop, m_sockfd, m_user_count, timers, pool, worker>>

Pool == INSTANCE RequestQueue WITH
  queue <- workqueue, serving <- req,
  Requests <- Jobs, NoRequest <- NoJob, Capacity <- MaxRequests + 1,
  stopped <- FALSE

Open(fd) == conn[fd] # 0

Init ==
  /\ conn = [f \in Fds |-> 0]
  /\ armed = [f \in Fds |-> "off"]
  /\ events = {} /\ timeout = FALSE
  /\ stop_server = FALSE /\ ended = FALSE
  /\ alarm = TRUE /\ pipefd = {}
  /\ m_sockfd = [f \in Fds |-> -1]
  /\ m_user_count = 0
  /\ timer_lst = << >>
  /\ users_timer = [f \in Fds |-> 0]
  /\ Pool!QInit
  /\ pc = [w \in Workers |-> "process"]
  /\ loaded = [w \in Workers |-> 0]
  /\ accepted = 0

-----------------------------------------------------------------------------
(***************************************************************************)
(* The kernel.  A registration is one-shot: it is switched off when its    *)
(* event is reported, and modfd switches it on again.  modfd on a closed   *)
(* descriptor, or -1, fails and nobody looks.                              *)
(***************************************************************************)
Modfd(fd, mode) ==
  armed' = IF fd \in Fds /\ conn[fd] # 0 THEN [armed EXCEPT ![fd] = mode]
           ELSE armed

Close(fd) ==
  /\ conn' = [conn EXCEPT ![fd] = 0]
  /\ armed' = [armed EXCEPT ![fd] = "off"]

Event(kind, fd) == [kind |-> kind, fd |-> fd]

\* What may be reported: a socket waits for input or for output, and its
\* peer may hang up; clients connect at any time; a signal is in the pipe.
Ready ==
  {Event(k, f) : k \in {"in", "out", "hup"}, f \in Fds} \cup
  {Event("accept", -1), Event("signal", -1)}

Reportable(e) ==
  CASE e.kind = "accept" -> accepted < MaxConns
    [] e.kind = "signal" -> pipefd # {}
    [] e.kind = "hup"    -> armed[e.fd] # "off"
    [] OTHER             -> armed[e.fd] = e.kind

\* Slip: the registration is not one-shot.
EpollWait_Level ==
  /\ events = {} /\ ~timeout /\ ~stop_server
  /\ \E S \in SUBSET {e \in Ready : Reportable(e)} :
       /\ Cardinality(S) \in 1..MaxEvents
       /\ \A d, e \in S : d.fd \in Fds /\ d.fd = e.fd => d = e
       /\ events' = S
  /\ UNCHANGED <<conn, armed, flags, signal, accepted, m_sockfd, m_user_count,
                 timers, pool, worker>>

EpollWait ==
  /\ events = {} /\ ~timeout /\ ~stop_server
  /\ \E S \in SUBSET {e \in Ready : Reportable(e)} :
       /\ Cardinality(S) \in 1..MaxEvents
       /\ \A d, e \in S : d.fd \in Fds /\ d.fd = e.fd => d = e
       /\ events' = S
       /\ armed' = [f \in Fds |-> IF \E e \in S : e.fd = f THEN "off"
                                  ELSE armed[f]]
  /\ UNCHANGED <<conn, flags, signal, accepted, m_sockfd, m_user_count, timers,
                 pool, worker>>

Handle(kind, fd) ==
  /\ Event(kind, fd) \in events
  /\ events' = events \ {Event(kind, fd)}

-----------------------------------------------------------------------------
(***************************************************************************)
(* A new connection (main.cpp:227-258)                                     *)
(***************************************************************************)
Timer(fd) == <<fd, users_timer[fd]>>

\* accept fails, or too many users are counted and the new socket is closed
\* at once.
AcceptNone ==
  /\ Handle("accept", -1)
  /\ UNCHANGED <<kernel, flags, signal, accepted, m_sockfd, m_user_count, timers,
                 pool, worker>>

\* A new socket gets the lowest descriptor that is free, which may be any of
\* Fds while the workers have files open.
FreeFds ==
  LET free == {fd \in Fds : ~Open(fd)}
  IN  {fd \in free : LowestFirst => \A f \in free : fd <= f}

Addfd(fd) == armed' = [armed EXCEPT ![fd] = "in"]

\* http_conn::init(sockfd, addr).
init(fd) ==
  /\ m_sockfd' = [m_sockfd EXCEPT ![fd] = fd]
  /\ Addfd(fd)
  /\ m_user_count' = m_user_count + 1

\* Slip: the timer is added before it is made for the connection.
AcceptNew_OldTimer(fd) ==
  /\ Handle("accept", -1)
  /\ fd \in FreeFds /\ m_user_count < MaxFd
  /\ accepted' = accepted + 1
  /\ conn' = [conn EXCEPT ![fd] = accepted + 1]
  /\ init(fd)
  /\ timer_lst' = Append(timer_lst, Timer(fd))
  /\ users_timer' = [users_timer EXCEPT ![fd] = accepted + 1]
  /\ UNCHANGED <<flags, signal, pool, worker>>

AcceptNew(fd) ==
  /\ Handle("accept", -1)
  /\ fd \in FreeFds /\ m_user_count < MaxFd
  /\ accepted' = accepted + 1
  /\ conn' = [conn EXCEPT ![fd] = accepted + 1]
  /\ init(fd)
  /\ users_timer' = [users_timer EXCEPT ![fd] = accepted + 1]
  /\ timer_lst' = Append(timer_lst, <<fd, accepted + 1>>)
  /\ UNCHANGED <<flags, signal, pool, worker>>

(***************************************************************************)
(* cb_func: the descriptor that the timer was made for is closed, whatever *)
(* it is open for by now.  users[fd] keeps its m_sockfd.                   *)
(***************************************************************************)
\* Slip: the connection is not counted off.
CbFunc_NoCount(fd) == Close(fd) /\ UNCHANGED m_user_count

CbFunc(fd) == Close(fd) /\ m_user_count' = m_user_count - 1

\* Slip: the first timer is deleted instead of the connection's own.
Finished_Head(fd) == timer_lst' = Tail(timer_lst)

\* What the list may be without the timer of fd, which is in it once.
Unlinked(fd) ==
  {RemoveAt(timer_lst, i) :
     i \in {j \in 1..Len(timer_lst) : timer_lst[j] = Timer(fd)}}

Finished(fd) == timer_lst' \in Unlinked(fd)

\* The peer hung up, reading failed, writing failed, or everything is
\* written and the connection is not kept (main.cpp:293-304, 363-370,
\* 391-398).
CloseHandled(kind, fd) ==
  /\ Handle(kind, fd)
  /\ CbFunc(fd) /\ Finished(fd)
  /\ UNCHANGED <<flags, signal, accepted, m_sockfd, users_timer, pool,
                 worker>>

(***************************************************************************)
(* Input (main.cpp:341-371).  After a successful read the request is       *)
(* appended, or dropped when the queue is full, and the timer goes to the  *)
(* end of the list.                                                        *)
(***************************************************************************)
\* Slip: the timer is unlinked and not put back.
Adjust_Lose(fd) == timer_lst' \in Unlinked(fd)

Adjust(fd) == \E rest \in Unlinked(fd) : timer_lst' = Append(rest, Timer(fd))

Readable(fd) == m_sockfd[fd] \in Fds

Received(fd) ==
  /\ Handle("in", fd) /\ Readable(fd) /\ Open(fd)
  /\ Adjust(fd)
  /\ UNCHANGED <<kernel, flags, signal, accepted, m_sockfd, m_user_count,
                 users_timer, worker>>

ReadAppend(fd) == Received(fd) /\ Pool!Submit(<<fd, conn[fd]>>)

ReadDrop(fd) ==
  /\ Received(fd)
  /\ Len(workqueue) > MaxRequests
  /\ UNCHANGED pool

(***************************************************************************)
(* Output (main.cpp:372-399): http_conn::write sends a part and waits for  *)
(* room, or sends all and waits for the next request.                      *)
(***************************************************************************)
Write(fd, mode) ==
  /\ Handle("out", fd)
  /\ Modfd(m_sockfd[fd], mode)
  /\ Adjust(fd)
  /\ UNCHANGED <<conn, flags, signal, accepted, m_sockfd, m_user_count,
                 users_timer, pool, worker>>

WritePart(fd) == Readable(fd) /\ Write(fd, "out")
WriteAll(fd)  == Write(fd, "in")

-----------------------------------------------------------------------------
(***************************************************************************)
(* Signals (main.cpp:69-99, 306-336, 400-416).  The handler, in whichever  *)
(* thread, writes a byte into the pipe, which main reads as an event.  The *)
(* alarm rings once.  When the batch is done timer_handler fires the       *)
(* timers that are due and sets it again.  Which are due is left open: any *)
(* number from the head on.  An epoll_wait that is interrupted returns no  *)
(* event.                                                                  *)
(***************************************************************************)
Caught(sig) ==
  /\ pipefd' = pipefd \cup {sig}
  /\ UNCHANGED <<kernel, events, flags, accepted, m_sockfd, m_user_count, timers,
                 pool, worker>>

Ring == alarm /\ alarm' = FALSE /\ Caught("SIGALRM")

Terminate ==
  /\ MayStop /\ ~stop_server /\ "SIGTERM" \notin pipefd
  /\ Caught("SIGTERM") /\ UNCHANGED alarm

\* Slip: of several signals in the pipe only one is looked at.
Signals_One ==
  /\ Handle("signal", -1)
  /\ timeout' = ("SIGALRM" \in pipefd)
  /\ stop_server' = (pipefd = {"SIGTERM"})
  /\ pipefd' = {}
  /\ UNCHANGED <<kernel, alarm, ended, accepted, m_sockfd, m_user_count, timers,
                 pool, worker>>

\* One recv takes all that is in the pipe.
Signals ==
  /\ Handle("signal", -1)
  /\ timeout' = ("SIGALRM" \in pipefd)
  /\ stop_server' = ("SIGTERM" \in pipefd)
  /\ pipefd' = {}
  /\ UNCHANGED <<kernel, alarm, ended, accepted, m_sockfd, m_user_count, timers,
                 pool, worker>>

InWork(job) ==
  \/ \E i \in 1..Len(workqueue) : workqueue[i] = job
  \/ \E w \in Workers : req[w] = job

\* Slip: the timers are fired as soon as the alarm is handled, in the middle
\* of a batch.
TickFire_InBatch(tm) ==
  /\ timeout
  /\ timer_lst # << >> /\ tm = Head(timer_lst)
  /\ Patient => ~InWork(tm)
  /\ CbFunc(tm[1])
  /\ timer_lst' = Tail(timer_lst)
  /\ UNCHANGED <<loop, m_sockfd, users_timer, pool, worker>>

TickFire(tm) ==
  /\ events = {} /\ timeout
  /\ timer_lst # << >> /\ tm = Head(timer_lst)
  /\ Patient => ~InWork(tm)
  /\ CbFunc(tm[1])
  /\ timer_lst' = Tail(timer_lst)
  /\ UNCHANGED <<loop, m_sockfd, users_timer, pool, worker>>

\* Slip: the alarm is not set again when there is no timer to wait for.
TickEnd_IfAny ==
  /\ events = {} /\ timeout
  /\ timeout' = FALSE /\ alarm' = (timer_lst # << >>)
  /\ UNCHANGED <<kernel, events, stop_server, ended, pipefd, accepted, m_sockfd,
                 m_user_count, timers, pool, worker>>

TickEnd ==
  /\ events = {} /\ timeout
  /\ timeout' = FALSE /\ alarm' = TRUE
  /\ UNCHANGED <<kernel, events, stop_server, ended, pipefd, accepted, m_sockfd,
                 m_user_count, timers, pool, worker>>

\* main leaves the loop, closes and deletes everything, and the process ends
\* with whatever the workers were doing: nothing of it is left.
Leave ==
  /\ events = {} /\ ~timeout
  /\ stop_server /\ ~ended
  /\ ended' = TRUE
  /\ conn' = [f \in Fds |-> 0] /\ armed' = [f \in Fds |-> "off"]
  /\ alarm' = FALSE /\ pipefd' = {}
  /\ m_sockfd' = [f \in Fds |-> -1] /\ m_user_count' = 0
  /\ timer_lst' = << >> /\ users_timer' = [f \in Fds |-> 0]
  /\ workqueue' = << >> /\ req' = [w \in Workers |-> NoJob]
  /\ pc' = [w \in Workers |-> "process"] /\ loaded' = [w \in Workers |-> 0]
  /\ UNCHANGED <<events, timeout, stop_server, accepted>>

-----------------------------------------------------------------------------
(***************************************************************************)
(* A worker runs users[fd].process() (http_conn.cpp:819-833)               *)
(***************************************************************************)
Object(w) == req[w][1]     \* the http_conn it works on

At(w, label) == req[w] # NoJob /\ pc[w] = label

Take(w) ==
  /\ Pool!TakeNext(w)
  /\ UNCHANGED <<kernel, loop, m_sockfd, m_user_count, timers, worker>>

\* The request is incomplete and the socket waits for more input, or the
\* response is ready and the socket waits for output.
Rearm(w, mode) ==
  /\ At(w, "process")
  /\ Modfd(m_sockfd[Object(w)], mode)
  /\ Pool!Finish(w)
  /\ UNCHANGED <<conn, loop, m_sockfd, m_user_count, timers, worker>>

GoTo(w, from, to) == At(w, from) /\ pc' = [pc EXCEPT ![w] = to]

\* process_write has no answer, so close_conn closes the descriptor, then
\* forgets it, then decrements the counter that main and the other workers
\* change too; the timer stays.
CloseConn(w) ==
  /\ BadRequests
  /\ At(w, "process")
  /\ IF m_sockfd[Object(w)] \in Fds
     THEN GoTo(w, "process", "forget") /\ Close(m_sockfd[Object(w)])
     ELSE GoTo(w, "process", "rearm") /\ UNCHANGED kernel
  /\ UNCHANGED <<loop, m_sockfd, m_user_count, timers, pool, loaded>>

Forget(w) ==
  /\ GoTo(w, "forget", "load")
  /\ m_sockfd' = [m_sockfd EXCEPT ![Object(w)] = -1]
  /\ UNCHANGED <<kernel, loop, m_user_count, timers, pool, loaded>>

LoadCount(w) ==
  /\ GoTo(w, "load", "store")
  /\ loaded' = [loaded EXCEPT ![w] = m_user_count]
  /\ UNCHANGED <<kernel, loop, m_sockfd, m_user_count, timers, pool>>

\* When another thread changed the counter meanwhile, either value may be
\* the one that stays.
StoreCount(w) ==
  /\ GoTo(w, "store", "rearm")
  /\ loaded' = [loaded EXCEPT ![w] = 0]
  /\ \/ m_user_count' = loaded[w] - 1
     \/ m_user_count # loaded[w] /\ UNCHANGED m_user_count
  /\ UNCHANGED <<kernel, loop, m_sockfd, timers, pool>>

\* process() goes on to modfd with whatever m_sockfd is by now.
RearmClosed(w) ==
  /\ GoTo(w, "rearm", "process")
  /\ Modfd(m_sockfd[Object(w)], "out")
  /\ Pool!Finish(w)
  /\ UNCHANGED <<conn, loop, m_sockfd, m_user_count, timers, loaded>>

-----------------------------------------------------------------------------
Main ==
  \/ EpollWait
  \/ AcceptNone
  \/ \E fd \in Fds :
       \/ AcceptNew(fd)
       \/ \E kind \in {"hup", "in", "out"} : CloseHandled(kind, fd)
       \/ ReadAppend(fd) \/ ReadDrop(fd)
       \/ WritePart(fd) \/ WriteAll(fd)
  \/ Signals
  \/ \E tm \in Jobs : TickFire(tm)
  \/ TickEnd \/ Leave

Work(w) ==
  \/ Take(w)
  \/ Rearm(w, "in") \/ Rearm(w, "out")
  \/ CloseConn(w) \/ Forget(w) \/ LoadCount(w) \/ StoreCount(w)
  \/ RearmClosed(w)

\* A process that has ended stays so.
Ended == ended /\ UNCHANGED vars

Next ==
  \/ Main \/ Ring \/ Terminate
  \/ \E w \in Workers : Work(w)
  \/ Ended

Spec == Init /\ [][Next]_vars

(***************************************************************************)
(* The alarm rings, a signal in the pipe is reported in the end, main      *)
(* handles what epoll reports, and a worker takes requests and finishes    *)
(* them.  A timer that stays at the head becomes due.                      *)
(***************************************************************************)
HandleSome ==
  /\ Main
  /\ events # {}

Fairness ==
  /\ WF_vars(Ring)
  /\ WF_vars(HandleSome) /\ WF_vars(TickEnd) /\ WF_vars(Leave)
  /\ SF_vars(EpollWait /\ Event("signal", -1) \in events')
  /\ \A fd \in Fds : SF_vars(\E k \in 1..MaxConns : TickFire(<<fd, k>>))
  /\ \A w \in Workers : WF_vars(Work(w))

FairSpec == Spec /\ Fairness

-----------------------------------------------------------------------------
\* The queue, the timer list and the workers hold connections, and
\* m_user_count is at most MAX_FD.
TypeOK ==
  /\ conn \in [Fds -> 0..MaxConns]
  /\ armed \in [Fds -> {"off", "in", "out"}]
  /\ events \subseteq Ready
  /\ {timeout, stop_server, ended, alarm} \subseteq BOOLEAN
  /\ pipefd \subseteq {"SIGALRM", "SIGTERM"}
  /\ m_sockfd \in [Fds -> Fds \cup {-1}]
  /\ m_user_count \in Int /\ m_user_count <= MaxFd
  /\ \A i \in 1..Len(timer_lst) : timer_lst[i] \in Jobs
  /\ users_timer \in [Fds -> 0..MaxConns]
  /\ \A i \in 1..Len(workqueue) : workqueue[i] \in Jobs
  /\ req \in [Workers -> Jobs \cup {NoJob}]
  /\ pc \in [Workers -> {"process", "forget", "load", "store", "rearm"}]
  /\ loaded \in [Workers -> Int]
  /\ accepted \in 0..MaxConns

OpenFds == {fd \in Fds : Open(fd)}

\* How many parties may touch http_conn users[fd]: the registration in
\* epoll and main's batch, the queue, each worker.
Parties(fd) ==
  (IF armed[fd] # "off" \/ \E e \in events : e.fd = fd THEN 1 ELSE 0)
  + Cardinality({i \in 1..Len(workqueue) : workqueue[i][1] = fd})
  + Cardinality({w \in Workers : req[w] # NoJob /\ req[w][1] = fd})

\* One-shot registration hands a connection from main to a worker and back:
\* at most one of them, at any time, has it (and none if its request was
\* dropped).
OneParty == \A fd \in Fds : Parties(fd) <= 1

\* The counter says how many connections are open.
CountsConnections == m_user_count = Cardinality(OpenFds)

\* An open connection has its timer in the list, and users_timer[fd] points
\* to it: none can stay open for ever, whatever the workers do.
OpenHasTimer ==
  \A fd \in OpenFds :
    users_timer[fd] = conn[fd] /\ Contains(timer_lst, Timer(fd))

\* main never uses a timer that was deleted: for each event it still has to
\* handle, users_timer[fd].timer is in the list.
NoDanglingTimer ==
  \A e \in events : e.fd \in Fds => Contains(timer_lst, Timer(e.fd))

\* Where a connection is in its cycle, by who has its object: epoll or main's
\* batch, the queue or a worker, or nobody.
Phase(fd) ==
  IF ~Open(fd) THEN "closed"
  ELSE IF InWork(<<fd, conn[fd]>>) THEN "work"
  ELSE IF armed[fd] = "in" \/ Event("in", fd) \in events THEN "idle"
  ELSE IF armed[fd] = "out" \/ Event("out", fd) \in events THEN "reply"
  ELSE "lost"

Cycle == INSTANCE ConnectionCycle WITH
  Objects <- Fds, Refusing <- BadRequests,
  phase <- [fd \in Fds |-> Phase(fd)], stopped <- ended

\* Main, epoll, the queue, the workers and the timers together drive every
\* connection through its cycle: it is not closed or read from while its
\* request is queued or in work, every request that is taken is finished, and
\* a connection that nobody will do anything about, because its request was
\* dropped, is closed in the end.
IsConnectionCycle == Cycle!CSpec

\* alarm() rings once, and a byte in the pipe, a flag and two calls lie between
\* one alarm and the next (main.cpp:98, 312, 402): the chain never breaks,
\* else no timer would fire any more.
AlarmAlive == alarm \/ "SIGALRM" \in pipefd \/ timeout \/ stop_server

\* SIGTERM ends the process, whatever else happens in that batch.
StopsOnTerm == "SIGTERM" \in pipefd ~> ended

-----------------------------------------------------------------------------
(***************************************************************************)
(* What the source says of itself and the code does not do                 *)
(***************************************************************************)

\* test2.cpp:11: EPOLLONESHOT is there so that each socket is handled by one
\* thread at any time.
OneThreadPerSocket ==
  \A v, w \in Workers :
    req[v] # NoJob /\ req[w] # NoJob /\ Object(v) = Object(w) => v = w

=============================================================================
