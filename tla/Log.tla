-------------------------------- MODULE Log --------------------------------
(***************************************************************************)
(* log/log.cpp and log/log.h: write_log() called by several threads, and   *)
(* the thread that writes the queued lines.  Each section of the code that *)
(* holds m_mutex, or the mutex of the queue, is one action: such a section *)
(* never waits for another mutex, and what it uses is used under that      *)
(* mutex alone.  write_log() holds no mutex from one section to the next.  *)
(***************************************************************************)
EXTENDS BlockQueue, FiniteSets, SequencesExt

CONSTANTS
  Threads,          \* the threads that call write_log()
  Flushers,         \* those of them that call flush() after each line
  NoLine,
  MaxLines,         \* bound: the lines each thread writes
  MaxDays,          \* bound: the days that pass
  m_split_lines     \* the lines after which another file is opened

Lines == [by : Threads, n : 1..MaxLines, day : 1..MaxDays]

ASSUME LogAssumption ==
  /\ IsFiniteSet(Threads) /\ Flushers \subseteq Threads
  /\ MaxLines \in Nat /\ MaxDays \in Nat \ {0}
  /\ m_split_lines \in Nat \ {0}
  /\ NoLine \notin Lines

VARIABLES
  day,              \* the clock's day
  m_is_async, m_log_queue, m_today, m_count,
  m_fp,             \* the open file: its day and its number
  stream,           \* what was put into m_fp and is still in its buffer
  log,              \* what is in the files: each line with its file
  ended,            \* main has returned and ~Log has closed m_fp
  pc, line,         \* of each thread: where it is, and its line
  written,          \* how many lines each thread has begun
  flusher, hand,    \* the thread that flushes: where it is, and its line
  crowded,          \* lines whose threads were between full() and push()
                    \* together with another
  bypassed,         \* lines that were written past the queue
  atMidnight        \* lines under way when a line of another day was

files   == <<m_today, m_count, m_fp>>
kept    == <<stream, log>>
callers == <<pc, line, written>>
ghosts  == <<crowded, bypassed, atMidnight>>
vars    == <<day, m_is_async, m_log_queue, files, kept, ended, callers,
             flusher, hand, ghosts>>

Files == [day : 1..MaxDays, part : 0..(MaxLines * Cardinality(Threads))]

Init ==
  /\ day = 1
  /\ m_is_async \in BOOLEAN
  /\ m_log_queue = Empty
  /\ m_today = 1 /\ m_count = 0 /\ m_fp = [day |-> 1, part |-> 0]
  /\ stream = << >> /\ log = << >> /\ ended = FALSE
  /\ pc = [t \in Threads |-> "idle"]
  /\ line = [t \in Threads |-> NoLine]
  /\ written = [t \in Threads |-> 0]
  /\ flusher = "pop" /\ hand = NoLine
  /\ crowded = {} /\ bypassed = {} /\ atMidnight = {}

GoTo(t, from, to) ==
  /\ ~ended /\ UNCHANGED ended
  /\ pc[t] = from /\ pc' = [pc EXCEPT ![t] = to]

\* The lines that were begun and are not in a file yet.
UnderWay ==
  ({line[t] : t \in Threads} \cup ToSet(Queued(m_log_queue)) \cup {hand})
    \ {NoLine}

-----------------------------------------------------------------------------
(***************************************************************************)
(* write_log()                                                             *)
(***************************************************************************)
\* The time is read before the mutex is taken.
Call(t) ==
  /\ written[t] < MaxLines
  /\ GoTo(t, "idle", "roll")
  /\ written' = [written EXCEPT ![t] = @ + 1]
  /\ line' = [line EXCEPT ![t] = [by |-> t, n |-> written'[t], day |-> day]]
  /\ atMidnight' = atMidnight \cup
       {line'[t] : l \in {u \in UnderWay : u.day # day}}
  /\ UNCHANGED <<day, m_is_async, m_log_queue, files, kept, flusher, hand,
                 crowded, bypassed>>

\* fflush(m_fp), and also fclose(m_fp).
Flush == log' = log \o stream /\ stream' = << >>

\* Slip: the file is left without writing its buffer.
Reopen_Unflushed == stream' = << >> /\ UNCHANGED log

Reopen == Flush

OpenDay(d) ==
  /\ m_today' = d /\ m_count' = 0
  /\ m_fp' = [day |-> d, part |-> 0]
  /\ Reopen

OpenPart(d) ==
  /\ m_count' = m_count + 1
  /\ m_fp' = [day |-> d, part |-> m_count' \div m_split_lines]
  /\ Reopen
  /\ UNCHANGED m_today

StayInFile ==
  /\ m_count' = m_count + 1
  /\ UNCHANGED <<m_today, m_fp, kept>>

\* Slip: a new day is not noticed.
ChooseFile_NoDay(d) ==
  IF (m_count + 1) % m_split_lines = 0 THEN OpenPart(d) ELSE StayInFile

ChooseFile(d) ==
  IF m_today # d THEN OpenDay(d)
  ELSE IF (m_count + 1) % m_split_lines = 0 THEN OpenPart(d)
  ELSE StayInFile

Roll(t) ==
  /\ GoTo(t, "roll", "full")
  /\ ChooseFile(line[t].day)
  /\ UNCHANGED <<day, m_is_async, m_log_queue, line, written, flusher, hand,
                 ghosts>>

\* The lines that t finds, or makes, crowded when it goes on to push().
Crowd(t) ==
  LET others == {u \in Threads \ {t} : pc[u] = "push"} IN
  IF others = {} THEN {} ELSE {line[u] : u \in others \cup {t}}

\* Slip: the queue is not asked.
TestFull_NotAsked(t) ==
  /\ GoTo(t, "full", IF m_is_async THEN "push" ELSE "put")
  /\ crowded' = crowded \cup Crowd(t)
  /\ UNCHANGED <<day, m_is_async, m_log_queue, files, kept, line, written,
                 flusher, hand, bypassed, atMidnight>>

\* The line is formatted, and the queue is asked if it has room.
TestFull(t) ==
  /\ IF m_is_async /\ ~full(m_log_queue)
     THEN GoTo(t, "full", "push") /\ crowded' = crowded \cup Crowd(t)
     ELSE GoTo(t, "full", "put") /\ UNCHANGED crowded
  /\ UNCHANGED <<day, m_is_async, m_log_queue, files, kept, line, written,
                 flusher, hand, bypassed, atMidnight>>

Return(t, from) ==
  /\ GoTo(t, from, IF t \in Flushers THEN "flush" ELSE "idle")
  /\ line' = [line EXCEPT ![t] = NoLine]
  /\ UNCHANGED <<day, m_is_async, files, written, hand, crowded, atMidnight>>

\* m_cond.broadcast(), also when push() refuses the item.
Broadcast == flusher' = IF flusher = "wait" THEN "pop" ELSE flusher

\* Slip: nobody is woken.
Push_NoBroadcast(t) ==
  /\ Return(t, "push")
  /\ m_log_queue' = IF full(m_log_queue) THEN m_log_queue
                    ELSE Put(m_log_queue, line[t])
  /\ UNCHANGED <<kept, flusher, bypassed>>

\* write_log() does not look whether push() refused the line.
Push(t) ==
  /\ Return(t, "push")
  /\ m_log_queue' = IF full(m_log_queue) THEN m_log_queue
                    ELSE Put(m_log_queue, line[t])
  /\ Broadcast
  /\ UNCHANGED <<kept, bypassed>>

Fputs(l) ==
  stream' = Append(stream, [line |-> l, file |-> m_fp]) /\ UNCHANGED log

WriteDirectly(t) ==
  /\ Return(t, "put")
  /\ Fputs(line[t])
  /\ bypassed' = IF m_is_async THEN bypassed \cup {line[t]} ELSE bypassed
  /\ UNCHANGED <<m_log_queue, flusher>>

\* flush() writes out what is in m_fp by now, whoever put it there.
FlushAfter(t) ==
  /\ GoTo(t, "flush", "idle")
  /\ Flush
  /\ UNCHANGED <<day, m_is_async, m_log_queue, files, line, written, flusher,
                 hand, ghosts>>

-----------------------------------------------------------------------------
(***************************************************************************)
(* flush_log_thread(), which only runs if the log is asynchronous          *)
(***************************************************************************)
Flusher(from, to) ==
  /\ m_is_async /\ ~ended
  /\ flusher = from /\ flusher' = to
  /\ UNCHANGED <<day, m_is_async, files, ended, callers, ghosts>>

\* pop() finds nothing and waits.
Wait ==
  /\ Flusher("pop", "wait")
  /\ m_log_queue.m_size <= 0
  /\ UNCHANGED <<m_log_queue, kept, hand>>

\* pthread_cond_wait may return without a broadcast: pop() looks again.
WakeSpuriously ==
  /\ Flusher("wait", "pop")
  /\ UNCHANGED <<m_log_queue, kept, hand>>

Pop ==
  /\ Flusher("pop", "put")
  /\ m_log_queue.m_size > 0
  /\ hand' = Item(m_log_queue)
  /\ m_log_queue' = Rest(m_log_queue)
  /\ UNCHANGED kept

WriteQueued ==
  /\ Flusher("put", "pop")
  /\ Fputs(hand)
  /\ hand' = NoLine
  /\ UNCHANGED m_log_queue

-----------------------------------------------------------------------------
Midnight ==
  /\ ~ended /\ day < MaxDays
  /\ day' = day + 1
  /\ atMidnight' = atMidnight \cup UnderWay
  /\ UNCHANGED <<m_is_async, m_log_queue, files, kept, ended, callers, flusher,
                 hand, crowded, bypassed>>

\* main returns and ~Log runs fclose(m_fp); nobody waits for the other threads
\* or for the lines in the queue.
End ==
  /\ ~ended /\ ended' = TRUE
  /\ Flush
  /\ UNCHANGED <<day, m_is_async, m_log_queue, files, callers, flusher, hand,
                 ghosts>>

Write(t) ==
  Roll(t) \/ TestFull(t) \/ Push(t) \/ WriteDirectly(t) \/ FlushAfter(t)

Next ==
  \/ \E t \in Threads : Call(t) \/ Write(t)
  \/ Wait \/ WakeSpuriously \/ Pop \/ WriteQueued
  \/ Midnight
  \/ End

Spec == Init /\ [][Next]_vars

\* The threads run on; nobody has to wake without a broadcast.
FairSpec ==
  /\ Spec
  /\ \A t \in Threads : WF_vars(Write(t))
  /\ WF_vars(Wait \/ Pop \/ WriteQueued)

-----------------------------------------------------------------------------
\* The indices of the block_queue stay in its array, and the stream is for the
\* file that is open.
TypeOK ==
  /\ day \in 1..MaxDays /\ m_is_async \in BOOLEAN
  /\ IsQueue(m_log_queue, Lines)
  /\ m_today \in 1..MaxDays /\ m_count \in 0..(MaxLines * Cardinality(Threads))
  /\ m_fp \in Files
  /\ stream \in Seq([line : Lines, file : {m_fp}])
  /\ log \in Seq([line : Lines, file : Files]) /\ ended \in BOOLEAN
  /\ pc \in [Threads -> {"idle", "roll", "full", "push", "put", "flush"}]
  /\ line \in [Threads -> Lines \cup {NoLine}]
  /\ written \in [Threads -> 0..MaxLines]
  /\ flusher \in {"pop", "wait", "put"} /\ hand \in Lines \cup {NoLine}
  /\ crowded \subseteq Lines /\ bypassed \subseteq Lines
  /\ atMidnight \subseteq Lines

Is(l, t, n) == l # NoLine /\ l.by = t /\ l.n = n

Places(t, n, entries) == {i \in DOMAIN entries : Is(entries[i].line, t, n)}

\* How often a line is in the files, in the stream, in the queue and with a
\* thread.
Copies(t, n) ==
  LET queue == Queued(m_log_queue) IN
  Cardinality(Places(t, n, log)) + Cardinality(Places(t, n, stream))
  + Cardinality({i \in DOMAIN queue : Is(queue[i], t, n)})
  + Cardinality({u \in Threads : Is(line[u], t, n)})
  + (IF Is(hand, t, n) THEN 1 ELSE 0)

IsCrowded(t, n) == \E l \in crowded : Is(l, t, n)

\* log.cpp:143-152: a line that was begun is somewhere exactly once.  It may
\* only be lost, to a push() that finds the queue full after all, if another
\* thread was between full() and push() at the same time.
NothingLost ==
  \A t \in Threads : \A n \in 1..written[t] :
    Copies(t, n) = 1 \/ (Copies(t, n) = 0 /\ IsCrowded(t, n))

\* The lines of a thread are in the files in the order of its calls, unless
\* the queue was full and the later line was written past it.
InOrder ==
  LET all == log \o stream IN
  \A i, j \in DOMAIN all :
    i < j /\ all[i].line.by = all[j].line.by =>
      all[i].line.n < all[j].line.n \/ all[i].line \in bypassed

\* log.cpp:97-123: a line is in a file of its day, unless it was under way
\* together with a line of another day, or at midnight.
RightFile ==
  \A e \in ToSet(log \o stream) :
    e.line \notin atMidnight => e.file.day = e.line.day

\* log.cpp:104-105, 157-163: once flush() has returned, and when the process
\* ends, a line that its thread wrote itself is in a file, although another
\* thread may have changed m_fp between the two calls.
FlushedIsDurable ==
  \A t \in Threads : \A n \in 1..written[t] :
    /\ pc[t] = "idle" /\ (t \in Flushers \/ ended)
    /\ ~m_is_async \/ \E l \in bypassed : Is(l, t, n)
    => Places(t, n, log) # {}

\* Every line that is begun is written in the end, or was lost as above, or
\* the process ends before: no broadcast is missed, however push() and pop()
\* interleave.
EverythingWritten ==
  \A t \in Threads : \A n \in 1..MaxLines :
    written[t] >= n ~>
      Places(t, n, log \o stream) # {} \/ IsCrowded(t, n) \/ ended

=============================================================================
