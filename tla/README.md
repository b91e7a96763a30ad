# A TLA+ model of YSLwebserver

The web server of this repository is one C++ process: a main thread runs an
epoll loop, a pool of worker threads parses requests and builds responses, a
pool of MySQL connections serves the workers, a timer list closes idle
connections, and a log is written by all threads. The modules in this directory
model those parts from the code, TLC checks them on small instances, and TLAPS
proves all the invariants and the steps of the refinements for every size. Paths below are relative to the
repository; "not compiled" refers to the switches set in the source (`SYNLOG`,
`listenfdLT`, `connfdLT`).

    tlc -config Pool.cfg MCThreadPool      model-check a run (PROJECT.json lists all)
    tlapm ThreadPoolProofs.tla             check the proofs of a module

## 1. Inventory

| part | state | operations | talks to |
|---|---|---|---|
| `lock/locker.h` | a semaphore, a mutex, a condition variable | wait, post, lock, unlock, broadcast | all parts below |
| `threadpool/threadpool.h` | `m_workqueue`, `m_queuelocker`, `m_queuestat`, `m_stop` | `append` (main), `run` (workers), destructor | main appends `http_conn*`; a worker takes one, gets a MySQL connection and calls `process()` |
| `CGImysql/sql_connection_pool.*` | `connList`, `reserve`, `lock`, `FreeConn`, `CurConn` | `GetConnection`, `ReleaseConnection`, `DestroyPool`, the RAII wrapper | workers; main at the end |
| `timer/lst_timer.h` | a doubly linked list sorted by expiry | add, adjust, delete, tick | main only; `cb_func` closes the socket |
| `main.cpp` | epoll's registrations, `users`, `users_timer`, `m_user_count`, the pipe of signals, `timeout`, `stop_server` | accept, hang-up, input, output, SIGALRM, SIGTERM | everything |
| `http/http_conn.cpp`, sockets | `m_sockfd`, the one-shot registration | `init`, `close_conn`, `modfd`, `process` | main and the workers through epoll |
| `http/http_conn.cpp`, input | `m_read_buf`, its indices, `m_check_state`, what was parsed | `read_once` (main), `process_read` (worker) | the client, in pieces |
| `http/http_conn.cpp`, files | `m_url`, `cgi`, `m_real_file`, the mapped file | `do_request` (worker) | the files under `root/`, the accounts |
| `http/http_conn.cpp`, output | `m_write_buf`, `m_iv`, the byte counters, the mapping | `process_write` (worker), `write`, `unmap` (main) | the client, as far as the socket has room |
| `http/http_conn.cpp`, accounts | the map `users`, `m_lock`, the table `user` | registration, login, load at start | workers, MySQL |
| `log/log.*`, `log/block_queue.h` | the open file, its stream's buffer, day and line count; a circular queue | `write_log`, `flush`, the thread that writes queued lines, `~Log` | all threads |

What is hard in it: steps of two threads in any order (the queue's list and its
semaphore, the connection list tested without its lock, the account map looked
up without its lock, `full()` before `push()`); the http_conn object that is
handed from main to a worker and back by a one-shot epoll registration; file
descriptors that are reused while a request or a timer still names them; waits
that a signal interrupts and whose result nobody looks at; input and output in
arbitrary pieces; failing INSERTs, full queues, an expired timer while a request
is worked on; restarts between a row in the table and the map; an alarm that rings
once and has to be set again by what it sets off; one object that serves request
after request and connection after connection, with fields that `init()` resets
and fields that it does not. `hazards` in PROJECT.json lists each at its line, with the properties that are about it.

## 2. Modules

| module | models | checked by |
|---|---|---|
| `Locker` | `sem` and `locker`, with interrupted waits | through the modules that use it |
| `RequestQueue` | abstract: a bounded first-come first-served hand-over that loses nothing | refined by `ThreadPool`, used by `Server` |
| `ThreadPool` | `threadpool.h`, one action from one blocking call to the next | `Pool` |
| `ThreadPoolProofs` | proofs about `ThreadPool` | TLAPS |
| `ResourcePool` | abstract: resources that each have one owner at a time | refined by `ConnectionPool` |
| `ConnectionPool` | `sql_connection_pool.*` | `ConnShort`, `ConnAmple` |
| `ConnectionPoolProofs` | proofs about `ConnectionPool` | TLAPS |
| `TimerList` | `lst_timer.h` with its pointers, and main's calls on it | `Timer` |
| `TimerListProofs` | proofs about `TimerList` | TLAPS |
| `Server` | `main.cpp`'s loop, the workers, epoll and the descriptors, the timers and the user counter together; takes its queue from `RequestQueue` | `ServerServes`, `ServerAny`, `ServerThreads` |
| `ServerProofs` | proofs about `Server` | TLAPS |
| `ConnectionCycle` | abstract: a connection waits, is worked on, replies, waits again, is closed only when nobody works on it, and is never stuck in work or lost for ever | implemented by `Server` for all descriptors and by `HttpConn` for one object |
| `HttpRead` | `read_once` and the parser | `HttpRead`, `HttpWrite` |
| `HttpReadProofs` | proofs about `HttpRead` | TLAPS |
| `HttpWrite` | the response: iovecs, counters, mapping | `HttpWrite` |
| `HttpConn` | `do_request`, and one `http_conn` as a whole: `HttpRead` and `HttpWrite` composed over its requests and connections | `HttpWrite` |
| `HttpConnProofs` | proofs about `HttpConn` and `HttpWrite`, which use those about `HttpRead` | TLAPS |
| `Accounts` | registration and login, failure and restart | `Accounts`, `AccountsRace` |
| `AccountsProofs` | proofs about `Accounts` | TLAPS |
| `BlockQueue` | the circular array of `block_queue` | through `Log` |
| `Log` | `write_log` and the flushing thread | `Log` |
| `LogProofs` | proofs about `BlockQueue` and `Log` | TLAPS |
| `MC...` | instances: symmetry, sample requests | |

The composition follows the code: `ThreadPool` is shown to implement
`RequestQueue`, so `Server` uses `RequestQueue`'s actions for its queue. In
`Server` the timers are a sequence in order of expiry, which is what `TimerList`
keeps while the clock does not go back. `HttpConn` takes the actions of `HttpRead`
and `HttpWrite` for the two halves of one object, with `m_linger` and `m_url`
shared, and adds `do_request` between them. `Server` leaves open what a worker does
with a request and which part of a response is written; `HttpConn` leaves out the
threads, epoll and the timers. That they are two views of one thing is the abstract
`ConnectionCycle`: TLC checks that both implement it, progress included
(`IsConnectionCycle`, with `Phase` as the refinement mapping). `Server` does so while
timers do not fire under a worker and all requests have an answer (`ServerServes`);
without the former it does not, which is `ServerThreads`.

### How state and actions correspond to the code

Variables and actions bear the names of the code where there is one; PROJECT.json
maps every definition to its lines. In the threaded modules `pc[t]` says at which
blocking call or shared access a thread is. A critical section is one action
when everything it touches is only touched under that mutex; the mutex itself is
a variable in `ThreadPool`, `ConnectionPool` and `Accounts`, because holding it
across a slow call or leaving it held is what can go wrong there. In `Log` the
mutexes are left out: no section waits inside.

- `ThreadPool`: `AppendLock, AppendReject | AppendPush, AppendPost` are
  `append()`; `TestStop, Wait | Interrupted, Lock, FindEmpty | Take, Process` are
  a round of `run()`; `Destroy` is the destructor. `Full` is the code's
  `size() > m_max_requests`.
- `ConnectionPool`: `TestEmpty, Wait | Interrupted, LockToTake, Take` are
  `GetConnection`; `ReleaseNull` or `LockToGive, Give, Post` are
  `ReleaseConnection`; `front()` of an empty list, or a section entered although
  the mutex was unlocked twice, leads to the label `undefined`.
- `TimerList`: an action per branch of `add_timer`, `adjust_timer` and
  `del_timer`; their loops and `tick()`'s take one action per round. `SetBack`
  sets the wall clock back.
- `Server`: `EpollWait` returns a batch and switches the reported registrations
  off; one action per branch of main's loop for an event of the batch; `TickFire`
  and `TickEnd` run behind the batch, as `timer_handler` does. A worker takes a
  request and either rearms the socket or goes through `close_conn` step by step.
  `Ring` and `Terminate` are the signal handler; `pipefd` holds the kinds of signals
  whose bytes wait (several bytes of a kind do what one does), `Signals` reads them,
  `TickEnd` sets the alarm again. An `epoll_wait` that a signal interrupts returns no
  event and changes nothing. `Leave` is everything behind the loop, and the end of the
  process. `FreeFds` gives a new socket the lowest free descriptor, or any if
  `LowestFirst` is off, as a worker's open file may hold the lowest.
  `(fd, k)` is the k-th accepted connection on descriptor fd; the code only has
  fd, and so do the actions that stand for it.
- `HttpRead`: the buffer is a sequence of cells: CR, LF, the NULs the parser
  writes, and text. The first cell of a line says what the line is, so a
  request is a handful of cells, but every index is the code's. `Receive(n)` is a
  `recv` that returns any part of what was sent. `Overlay` is the `strcat` of
  line 331, which writes `judge.html` behind the `/` into the buffer that is being
  parsed: ten bytes and a NUL, over the eleven bytes of ` HTTP/1.1` and the line's end.
  `Lengths` gives each Content-length header the int that `atol` makes of it, below zero
  and at the end of int included; `Path` and `HostOnly` are the URLs that lines 314-325
  find a path in and the ones they do not. `HandOn` writes the NUL of line 389, in front of
  the text if the length is below zero, and sets `m_string`, which is an index into the
  buffer, or -1 before the object's first body, as neither the constructor nor `init()`
  sets it.
- `HttpWrite`: a byte is its place in `m_write_buf` or in the file mapped for the
  k-th response; `Advance` is the arithmetic of lines 674-684; `wire` is what the peer got.
  `m_file_address` is -1, an address no mapping has, until the object's first file.
- `HttpConn`: `Flag` is the character behind the last `/`, which is all `do_request`
  looks at. `HasAccount` is the scan for name and password (494-503) over the cells that
  `m_string` points to, whatever they are by now; where it finds no `&`, or a text longer
  than `AccountSize`, `RunsOff` takes the place of `Process`. `NewUrl` is the result of the
  login or registration, left open (`Accounts` has it); `RealFile` chooses the file; `Serve` has one case for each
  outcome of `stat`. `NoAnswer` and `NoContent` close without a response. `Close` and
  `NewConnection` let the object serve another connection.
  Here and in `HttpRead` the label `undefined` stands for everything that may follow once the
  program has left defined behaviour. It has no step, and in `HttpConn` the stutter
  `Undefined`, so that the deadlock check stays on there; the invariants say on which
  requests it is reached, and on no others.
- `Accounts`: `FindFree` (line 518) and `Lock` (523) are different steps; `Query`
  and `Insert` are the section under `m_lock`. `Restart` loads the map from the
  table, and lets any of several rows of a name be the last one read. `failed` records the
  accounts whose INSERT failed since the server started.
- `Log`: `Call` reads the clock, `Roll` is the first section under `m_mutex`,
  `TestFull` formats the line and asks the queue, `Push` and `WriteDirectly` end
  the call; `FlushAfter` is `flush()`, which only some callers use (`Flushers`); `Pop`,
  `Wait` and `WriteQueued` are the thread that writes the queued lines. `stream` is what
  stdio holds for the open file and `log` what is in files; `Reopen` closes the old
  file. `End` is the end of the process with `~Log`. `m_is_async`
  is chosen at the start: the build is synchronous, `ASYNLOG` in main.cpp switches.

## 3. What the runs show

| run | instance | result |
|---|---|---|
| `Pool` | 2 workers, 2 requests, a queue of 3 places, signals, stop | no queued request lacks a wake-up although push and post are two steps and interrupted waits take requests out of turn; the pool implements `RequestQueue` with its fairness |
| `ConnShort` | 3 threads, 2 connections, signals | no handle has two holders; the pool implements `ResourcePool`; who passed the test of the list gets a connection, unless an interrupted wait led to an empty list |
| `ConnAmple` | 3 threads, 3 connections, signals, destruction | until main destroys the pool nobody is given NULL, blocks, or reads an empty list; the semaphore agrees with the claims; nobody works on a closed handle |
| `Timer` | 3 timers, 5 instants, the clock set back once | the links always form one list of all timers; while the clock was not set back it is sorted (`SortedList`) and every due timer fires |
| `ServerServes` | 3 connections on 3 descriptors, 2 workers, a queue of 2, which 3 requests overfill, batches of 2, SIGTERM at any time; every request has an answer and is done before its timer fires (`Patient`) | a connection is with main, the queue or one worker, never with two; the counter agrees with the open connections; the alarm is set, ringing or about to be set again as long as main runs; every connection goes through `ConnectionCycle`, and that of a dropped request is closed by its timer; SIGTERM ends the process |
| `ServerAny` | 3 connections on 2 descriptors, `MAX_FD` 2, without these two restrictions, any free descriptor | still every open connection has its own timer, and main never uses a deleted timer |
| `ServerThreads` | 2 connections on 1 descriptor, a timer may fire under a worker | violated, see section 6 |
| `HttpRead` | 17 kinds of requests, up to 3 on a connection, a buffer of 16 cells; lengths of 0 and 3, below zero, and at the end of int | what is parsed equals a whole-request reading of it, whatever the pieces; complete requests are answered unless the body was cut or the buffer is too short; the program is lost only on a URL that ends with its host and on lengths below zero or at the end of int (`Odd`) |
| `HttpWrite` | one `http_conn`, 2 of 9 kinds of requests on one or two connections, any pieces; texts of 4 bytes, files of 0 to 2, a login with either result, with no body and with a name too long, a file that is forbidden, empty, or not there | the response is the file the last request asked for, or an error page, whatever was served before, and the program is lost on no request but those of `Losing` (`AnswersAsked`); the peer gets it in order, the counters agree with it, and it completes, as long as the text goes out in at most two parts; the object implements `ConnectionCycle`, so that the parser's loop always ends unless the program is lost; mappings are released but for cut-off responses |
| `Log` | 2 threads with 2 lines each, one of them flushing, a queue of 2, one midnight, a new file every 2 lines, both modes, the end of the process at any time | no line is lost or doubled unless two threads were between `full()` and `push()`; order per thread but for lines written past the queue; right file unless midnight interfered; a line is in a file once its thread's `flush()` has returned although another thread changed the file meanwhile; every line gets written |
| `Accounts` | 2 workers, 2 names, 2 passwords, 4 requests, 2 restarts, failing INSERTs | one row per name and a lasting login unless two workers registered the name at a time; who can log in has a row, but for the account whose own INSERT failed since the start |
| `AccountsRace` | 2 workers, 1 name, no restart | violated, see section 6 |

### Bounds

Every bound is a named constant. Two workers are the fewest that can overtake
each other; the effects here (a lost wake-up, a double holder, a wrongly taken
job) need two threads and a third party, which is main. The queue limits are so
small that they are reached. Three timers have a head, a middle and a tail; two
are not enough for `del_timer`'s last branch. Three connections are a reused
descriptor and another one in the same batch. A body of 3 cells can be cut
twice, and can contain a CRLF; the buffer holds the longest request that must
be accepted and not the one made too long. `INT_MAX` (40) is more than twice the
buffer, so that only the length made for it makes line 387 overflow. The lengths below zero
put the NUL into the name `judge.html`, into the slash of the URL, and in front of the
buffer. `AccountSize` 0 lets a name or password of one cell overflow, and the buffer of 15
in `HttpWrite` is the longest request there. A text of 4 bytes goes out in up to
four parts: the bad third part is reached, and excluded by name. Two requests
of one object are two on a kept connection, or one on each of two connections:
what the first leaves behind (`cgi`, `m_url`, `m_iv`, a mapping) meets the
second. The pipe's capacity (1024 bytes are read at once) is never reached: the
alarm is set after it was read. 4 lines fill the queue of 2, wrap its indices
around, and reach two changes of the file.

### Exceptions inside properties

A property that names an exception does so because the code does not do better,
and the exception is a fact in the state: `cut` (`HttpRead`) records that a recv
ended inside a body, `pieces` (`HttpWrite`) counts the parts within the text,
`crowded`, `bypassed` and `atMidnight` (`Log`), `raced` and `failed` (`Accounts`).
`Losing` (`HttpConn`, with `HttpRead`'s `Odd`) is a fact about the request alone.
Without them these properties are violated; section 6 says what happens then. They are
named, not caught: what such a property shows is that the fault reaches no further. So
`RightFile` does not deny the line of yesterday that is written at midnight, and
`LoginIsBacked` does not deny the account of line 525, but no other line is misfiled and no
other account can log in without its row. `CountsConnections` is checked where no worker
calls `close_conn`; with it the counter is wrong, and no property of it holds. A timer that
fires under a worker is in `ServerAny` and `ServerThreads` only. `OpenHasTimer` says that a
new connection has its own timer beside one that `close_conn` left behind, not that the old
one spares it. `NoClosedInUse` says nothing of the mutex that `DestroyPool` unlocks twice.

### Fairness

- `ThreadPool`, `ConnectionPool`: a thread runs on between blocking calls (weak).
  A mutex or semaphore that is again and again available to a thread that keeps
  asking is given to it in the end (strong): sections are short and few threads
  compete. Nobody must append or ask.
- `TimerList`: loops run to their end; SIGALRM is handled again and again (strong,
  main may be busy each time), since `alarm(TIMESLOT)` is set again after each tick.
- `Server`: main handles its batch and leaves its loop, workers run, an alarm that is
  set rings, a signal in the pipe is reported in the end (strong: other events may fill
  a batch), and a timer that stays at the head becomes due, which is what time does.
  That the alarm is set again is not assumed. Clients and SIGTERM have no fairness.
- `HttpRead`: what was sent arrives and the worker runs. The client need not send.
- `HttpConn`: as `HttpRead`; the socket becomes writable and takes a byte again and again (strong,
  EAGAIN may come each time): the peer reads. If it does not, the timer closes the
  connection, which is `CloseEarly` and needs no fairness here.
- `Log`: the calling threads and the thread for the queued lines run; the process
  need not end. A wait without a
  broadcast need not end; spurious wake-ups are possible, not required.

`CHECK_DEADLOCK FALSE` is set where the system may stop: the pool after its
destruction, the parser after the connection's last answer, the log and the
accounts after the last line or request of the bound.

## 4. What is proved

Every invariant that a run checks is a theorem for all values of the constants, and
so is the step simulation of each refinement. The assumptions on the constants are the
named `ASSUME`s of the modules, which TLC evaluates for its instances: finite sets of
threads, workers, names and descriptors, sizes of at least 1, and values such as
`NoJob` and `NoLine` that are no jobs or lines. Where a theorem has a hypothesis of its own, it
says so below; the run of the same property has the same restriction. Each proof has the
same plan: an inductive invariant, a lemma that `Init` implies it, a lemma
with one step per action that `Next` keeps it (`...Init`, `...Step`), and the property
as a consequence. The inductive invariants were first checked by TLC.

`ThreadPoolProofs`, for any limit of at least 1, with or without signals and stop:

- `TypeCorrect`, `MutualExclusion`: by the inductive invariant `Control`, which is
  the type, that a thread's `request` is set exactly between getting and finishing it
  (`RequestHeld`; needed to know that what `AppendPush` appends is a request), and
  that the mutex names the thread inside (`LockOwner`).
- `WakeupsSuffice`: the number of queued requests is at most the semaphore's value,
  plus the workers on their way to the queue, plus the post still owed. It is
  inductive on top of `Control`. The lemmas `WakesUp` and `StopsLooking` say how the number of awake
  workers changes; the case that needs care is `FindEmpty`, where a worker goes away
  with its unit, but then the list is empty.
- `ImplementsHandoff`: every step is a step of `RequestQueue` or leaves it unchanged
  (`AppendPush` is `Submit`, `Take` is `TakeNext`, `Process` is `Finish`).

`ConnectionPoolProofs`, interrupted waits and the destruction of the pool included:

- `TypeCorrect`, `Exclusive`, `ClosedAreFree`: by `Ownership`, which adds to the type and
  to `OneHolder` at which labels a thread has a connection (`HoldsWhileUsed`) and that what
  `DestroyPool` closed has left the list (`ClosedIsGone`).
- `ImplementsResourcePool`, while main does not destroy the pool (`~MayDestroy`): the
  abstract pool knows no destruction.
- `CountersFollow`: `FreeConn` and `CurConn` agree with the list until `DestroyPool` begins.
  The invariant, `Counted`, counts list and holders together.
- `UnitsAgree`: `reserve` agrees with the threads that claim a connection or still owe a
  post. Hypothesis `Calm`: no signals, or at least as many connections as threads. Without
  it an interrupted wait takes a connection and no unit.
- `AmpleNeverStarves`, hypothesis `Ample`: with at least as many connections as threads,
  the unlocked test of the list never fails, `wait()` never blocks, and no list is empty when it
  is taken from. main.cpp uses 8 and 8, so this is why `GetConnection` may be used
  without a check for NULL.

`TimerListProofs`, for any timers, instants and slots:

- `TypeCorrect`, `ListStaysSorted`: by `Kept`. Its main part is `Linking`: some sequence of
  the timers in the list, each once, is what `head`, `next`, `prev` and `tail` say
  (`Chain`). The lemmas about `Cut`, `PutBehind` and `PutFirst` say that taking one out and
  putting one in keep it, and each branch of `add_timer`, `adjust_timer`, `del_timer` and
  `tick` is one of the three or two of them. In the middle of the loop of `add_timer` one timer is not
  linked (`Linked`) and the search has passed only timers that expire earlier (`Walking`).
  `Ordered` needs that no deadline is later than one set now, which is why
  `adjust_timer` may move a timer only towards the tail; it is claimed while the clock was
  not set back (`Steady`), as in the property.

`ServerProofs`, for any descriptors, numbers of connections and limits:

- `TypeCorrect`, `OpenHaveTimers`, `TimersAreThere`: by `Timed`, whatever workers,
  clients and timers do. A socket whose registration is on is open (`ArmedIsOpen`), and a batch
  has one event for a descriptor (`OneEventEach`), so that handling one event cannot delete
  the timer that a later one in the batch uses.
- `AlarmGoesOn`: by `Alive`; the event of the pipe is handled before `timeout` is tested.
- `OnePartyEach`, `CountIsRight`, `ConnectionsCycle`, under `Patient` (no timer fires
  while a worker has the request) and `~BadRequests` (every request has an answer): by
  `Owned`. A job belongs to the connection that is now on its descriptor (`JobsAreLive`), a descriptor with a
  job is neither registered nor in the batch (`Watched`), jobs are for different descriptors
  (`JobsDiffer`), and the timers are those of the open connections (`TimersAreLive`). Without
  `Patient` the first of these is false, which is `ServerThreads`; without `~BadRequests`
  `close_conn` leaves a timer behind and the counter goes wrong (section 6).
  `ConnectionsCycle` is the step simulation of `IsConnectionCycle`.

`HttpReadProofs`, for any requests (sequences of cells), buffer and lengths:

- `TypeCorrect`: the indices are ordered and inside the buffer.
- `ParsesRight`, for a client that waits for each answer (`NothingFollows`: nothing comes
  behind what the headers announce; TLC confirms it for the requests of both instances).
  Without it the rest of the input would be part of the next request. By `Follows`: the wire and the unparsed
  cells are what was sent (`Fed`), no end of a line was passed over (`Scanned`), and the flags
  are what the whole lines before `m_start_line` say (`Headed`). The invariant relates
  `parse_line`'s search, which works on a growing buffer, to the definitions on the whole
  request (`HeadersEnd`, `Regular`, `WellFormed`); `FoundRequestLine`, `FoundHeader` and
  `FoundEnd` are the lemmas about a request alone. `Overlay` never reaches the next line
  because `judge.html` is as long as ` HTTP/1.1` and the line's end (`IsFound`). The theorem
  also says where the program can be lost: the conditions of `NullUrl` and `ContentOutside`
  are about the buffer, those of `Odd` about the request.

`HttpConnProofs`, for any files, sizes and lengths of text, over any number of requests
and connections of one object:

- `TypeCorrect`: by `Typed`. The counters add up to the response and the iovecs never hold
  more than `bytes_to_send` (`Counted`, `Room`), so that nothing gets negative even in the
  third part of a text, where the code's arithmetic goes wrong. `InputStep` says that every
  step but `do_request`'s is one of `HttpRead`, and the theorems about that module are
  used by INSTANCE; `m_url` is the parser's only until `do_request` replaces it (`ParsedUrl`).
- `MappingsKept`: by `Accounted`; what is mapped and not being sent is at most `dropped`.
- `SendsWhole`: by `Placed`. The i-th byte at the peer is the i-th byte of the response
  (`Goes`), and the iovecs are at the place that `bytes_have_send` says: `InText`, where
  the first length shrinks by all that was sent, is right for one part of the text and
  wrong for the next, hence `pieces <= 1`; `InFile` is right for any number of parts.
- `AnswersFit`, for the same clients as `ParsesRight`: by `Requested`, which carries
  `HttpRead`'s `Follows` through `do_request`; `ChosenIsAsked` is `do_request` on a request.
  That the scan of lines 494-503 runs off only on the requests of `Losing` is
  `RunsOffLosing`: a body that is complete has its account in the buffer as in the request,
  and a POST without one is named in `NoAccount`, wherever `m_string` points.
- `GoesRound`: the step simulation of `IsConnectionCycle` for one object; `RunsOff` and the
  parser's ways to `undefined` are the cycle's `Stop`.

`AccountsProofs`, for any workers, names, passwords, requests, restarts, and failing INSERTs:

- `TypeCorrect`, `LoginsBacked`: by `Backed`; between query and INSERT into the map either the
  row is there or the account is in `failed` (`ResultIsTrue`).
- `RowsAreUnique`, `RegistrationLasts`: by `Registered`. For a name that no two workers
  registered at a time (`raced`), what `users.find` saw before the lock is still true under it
  (`StillFree`), and a free name has no row but between the INSERT and the change of the map
  (`FreeHasNoRow`).

`LogProofs`, for any threads, lines, days, queue and file sizes, both modes:

- `BlockQueue`'s array is a queue: `PutAppends` and `RestIsTail` say that `Put` appends to
  `Queued` and that `Rest` drops its first item, by arithmetic modulo `m_max_size` (`ModOfSum`,
  `PlacesDiffer`).
- `TypeCorrect`: by `Typed`; `m_count` is bounded by the lines that went through `Roll`.
- `WrittenInOrder`, `LinesAreKept`: by `Ordered` and `Tracked`, over the lines in
  files and stream (`Trail`) and those in the flushing thread's hand and the queue
  (`Pending`). A thread about to push finds room or both know of the crowd (`RoomOrCrowd`).
- `FilesAreDated`: by `Dated`; all lines under way that have not seen midnight are of today.
- `FlushReachesTheFile`: by `Flushed`; a line in the stream is of a thread that has yet to
  flush, and `Reopen` moves the stream to the file.

Left to TLC: liveness (`HandsOver`, `GetsConnection`, `DueIsFired`, `StopsOnTerm`,
`GetsAnswer`, `Completes`, `EverythingWritten`) and the progress part of the refinements (`HandsOver`,
`IsConnectionCycle`), as TLAPS has neither ENABLED nor leads-to under
fairness here; and the two violations, which are counterexamples and nothing to prove.

## 5. What is not modelled

- What detached workers do between main's `delete[] users` and the end of the process:
  undefined, and `Leave` is one step. `ThreadPool.Destroy` and
  `ConnectionPool.DestroyPool` model what a worker may still find there.
- What the program does after `undefined`: it may crash, go on with other text as name and
  password, or overwrite its stack. Nothing is claimed of it.
- The 200 bytes that lines 482-484 and 510-516 copy the URL, the name and the password into:
  accounts and URLs that are longer are not among the requests.
- The setup of sockets, epoll and the pipe before main's loop: `Server.Init` is the state
  that lines 199-205 leave.
- The wording of responses and log lines, failures at startup, `listenfdET`, `connfdET`.
- `write()` called with nothing to send (642-648): within a connection output is only
  waited for when a response is ready.
- The length of a log line (log.cpp:137 uses what `vsnprintf` would have written), a log
  file that cannot be opened, a `fputs` at the very moment of `~Log`. stdio may write its
  buffer earlier than `Log` does; then more is in the files.
- `block_queue`'s timed `pop` (its absolute time has the nanoseconds of a relative
  one), `front`, `back`, `clear`: never called.
- `other/main copy.cpp`, the commented-out tests, the web pages.
- Data races are modelled as a choice of the values around them (`m_user_count`,
  the list's size, the map). What a torn read of a `std::map` or a `std::list` may
  do beyond that is not.
- `munmap` with the length of another file: `unmap()` uses the last `st_size`, also
  for a mapping that an early close left over. Mappings are whole in `HttpWrite`.

## 6. Where the code differs from what it says

Two runs show a difference that a line of the repository denies:

- `ServerThreads`. test/test2.cpp:11 says that with EPOLLONESHOT each socket is
  handled by one thread at any time. `cb_func` (main.cpp:101-109) closes a
  descriptor whatever its request is doing; the number is accepted again, its request is
  read into the same `http_conn`, and a second worker takes it while the first still has it.
- `AccountsRace`. CGImysql/README.md:13 announces registration that is safe with
  several threads. `users.find` (http_conn.cpp:518) is outside of `m_lock`, so two workers
  insert the same name and both answer `/log.html`.

Met while modelling, part of the modules, without a run of their own:

- threadpool.h:84 accepts `m_max_requests + 1` requests. `m_stop` wakes no worker.
- sql_connection_pool.cpp: `GetConnection` returns NULL when the list is empty; an
  interrupted `wait()` leads to `front()` of an empty list; `DestroyPool` unlocks twice.
- `adjust_timer` does not move a timer towards the head: with the clock set back, the
  list is not sorted any more and a due timer may wait behind another.
- `close_conn` (a worker) leaves the timer. When the timer fires it decrements
  `m_user_count` a second time and closes the descriptor, which may be another
  connection's by then; `m_sockfd = -1` may also be written after the reuse.
- A body in several pieces is never answered (408, 387). LINE_BAD is treated as
  an incomplete line. Input behind a request is dropped by `init()`.
- The scan for name and password (494-503) ends only at `&` and at NUL. A whole POST to
  `/2...` or `/3...` without a body reads from `m_string`, which neither the constructor
  (http_conn.h:86) nor `init()` sets: it is indeterminate, or points to where the body of an
  earlier request was. A body without `&` is read past its end, and a name or password of
  100 characters or more is written past its array (`RunsOff`).
- `http://host` without a slash leaves `m_url` NULL at 318, and line 321 reads it; for
  `https://host` line 327 has the test (`NullUrl`).
- `atol` (367) may give a length below zero or near `INT_MAX`. The former enters CONTENT and
  writes the NUL of line 389 in front of the text, over the URL or in front of the buffer;
  the latter overflows in 387 (`ContentOutside`). With a buffer that is exactly full the NUL
  goes one byte behind it, where `m_read_idx` has a byte that is zero.
- `m_file_address` is not initialised either; `unmap()` is only called behind a response,
  which for an error page may be before the object's first file.
- A text that goes out in three parts or more leaves a wrong length in `m_iv[0]` (683):
  the peer gets other bytes, or `write()` does not end.
- NO_RESOURCE, and an empty file, close the connection without a response: there is no
  case for the former in `process_write` (http_conn.h:68 promises one), and a `break` is
  missing at 809 for the latter.
- `do_request` looks at the first character behind the last `/` of any URL: a file whose
  name begins with 0, 1, 5, 6 or 7 cannot be fetched. A directory is refused as a bad
  request.
- In asynchronous mode `flush()` does nothing for a line that is still in the queue, and
  the lines in the queue are lost when the process ends.
- main closes connections without `unmap()`: the mapping is overwritten by the next one.
- A failing INSERT still puts the account into the map. Of two rows of a name the one
  read last wins after a restart.
- The log's name has no `/` in main.cpp, so `log_name` stays empty and every file after
  the first is named by its date only; a thread with yesterday's time opens
  yesterday's file again; `fopen` may fail unseen; a line may be refused by `push()`.

## 7. Plan

Done: the locks, both pools, the timer list, the event loop with its signals and its end,
input, the choice of the file, output, one connection object composed of the three,
accounts, the log with its buffers; proofs of all their invariants and of the steps of all
refinements. What is left:

1. Extend. Lengths of log lines (log.cpp:137).
2. Prove. What `Server` keeps without `Patient` and with `BadRequests`: a weaker
   `ConnectionCycle` in which a connection may be closed under a worker, and a bound on how far
   `m_user_count` can be off. That `TimerList` implements the sequence of timers that
   `Server` uses for it. The first steps of the liveness arguments that need no
   fairness: what a step of the parser's and of `write()`'s loop makes smaller.
