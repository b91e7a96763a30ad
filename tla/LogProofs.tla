----------------------------- MODULE LogProofs ------------------------------
(***************************************************************************)
(* Proofs about BlockQueue and Log, for any finite set of threads, any     *)
(* number of lines and days, any size of the queue and of a file.          *)
(***************************************************************************)
EXTENDS Log, FiniteSetTheorems, SequenceTheorems, TLAPS

(***************************************************************************)
(* Places in the circular array.                                           *)
(***************************************************************************)
LEMMA ModOnce ==
  ASSUME NEW x \in Nat, x < m_max_size
  PROVE  x % m_max_size = x
BY MaxSizeAssumption

LEMMA ModTwice ==
  ASSUME NEW x \in Nat, m_max_size <= x, x < 2 * m_max_size
  PROVE  x % m_max_size = x - m_max_size
BY MaxSizeAssumption

LEMMA ModThrice ==
  ASSUME NEW x \in Nat, 2 * m_max_size <= x, x < 3 * m_max_size
  PROVE  x % m_max_size = x - 2 * m_max_size
BY MaxSizeAssumption

LEMMA ModOfSum ==
  ASSUME NEW x \in Nat, x < 2 * m_max_size, NEW i \in 0..m_max_size,
         NEW y \in Nat, y = x + i
  PROVE  ((x % m_max_size) + i) % m_max_size = y % m_max_size
<1> USE MaxSizeAssumption
<1>1. CASE x < m_max_size
  BY <1>1
<1>2. CASE m_max_size <= x
  <2>1. PICK z \in Nat : /\ z = x - m_max_size + i /\ z < 2 * m_max_size
                         /\ y \in Nat /\ y = z + m_max_size
    BY <1>2
  <2>2. x % m_max_size = x - m_max_size
    BY <1>2, ModTwice
  <2>3. CASE z < m_max_size
    <3>1. y % m_max_size = z
      BY <2>1, <2>3, ModTwice
    <3>2. z % m_max_size = z
      BY <2>1, <2>3, ModOnce
    <3> QED
      BY <2>1, <2>2, <3>1, <3>2
  <2>4. CASE m_max_size <= z
    <3>1. y % m_max_size = z - m_max_size
      BY <2>1, <2>4, ModThrice
    <3>2. z % m_max_size = z - m_max_size
      BY <2>1, <2>4, ModTwice
    <3> QED
      BY <2>1, <2>2, <3>1, <3>2
  <2> QED
    BY <2>1, <2>3, <2>4
<1> QED
  BY <1>1, <1>2

LEMMA PlacesDiffer ==
  ASSUME NEW x \in Nat, NEW y \in Nat,
         x < y, y - x < m_max_size, y < 2 * m_max_size
  PROVE  x % m_max_size # y % m_max_size
<1> USE MaxSizeAssumption
<1>1. CASE y < m_max_size
  BY <1>1, ModOnce
<1>2. CASE x < m_max_size /\ m_max_size <= y
  BY <1>2, ModOnce, ModTwice
<1>3. CASE m_max_size <= x
  BY <1>3, ModTwice
<1> QED
  BY <1>1, <1>2, <1>3

LEMMA DivBound ==
  ASSUME NEW n \in Nat \ {0}, NEW bound \in Nat, NEW x \in 0..bound
  PROVE  x \div n \in 0..bound
<1>1. x \div n \in 0..x
  OBVIOUS
<1> QED
  BY <1>1

(***************************************************************************)
(* The circular array is a queue.                                          *)
(***************************************************************************)
\* The place after m_back is the place after the last of the items, which are
\* all there.
WellFormed(q, Items) ==
  /\ IsQueue(q, Items)
  /\ After(q.m_back) = (q.m_front + q.m_size + 1) % m_max_size
  /\ \A i \in 1..q.m_size :
       q.m_array[(q.m_front + i) % m_max_size] \in Items

LEMMA EmptyIsWellFormed ==
  ASSUME NEW Items PROVE WellFormed(Empty, Items)
<1> USE MaxSizeAssumption
<1>1. IsQueue(Empty, Items)
  BY DEF IsQueue, Empty
<1>2. Empty.m_back = -1 /\ Empty.m_front = -1 /\ Empty.m_size = 0
  BY DEF Empty
<1> QED
  BY <1>1, <1>2 DEF WellFormed, After

LEMMA QueuedIsSequence ==
  ASSUME NEW Items, NEW q, WellFormed(q, Items)
  PROVE  /\ Queued(q) \in Seq(Items)
         /\ Len(Queued(q)) = q.m_size
         /\ \A i \in 1..q.m_size :
              Queued(q)[i] = q.m_array[(q.m_front + i) % m_max_size]
<1>1. q.m_size \in Nat
  BY MaxSizeAssumption DEF WellFormed, IsQueue
<1>2. Queued(q) \in [1..q.m_size -> Items]
  BY DEF Queued, WellFormed
<1>3. Queued(q) \in Seq(Items)
  BY <1>1, <1>2, SeqDef
<1>4. Len(Queued(q)) = q.m_size
  <2>1. DOMAIN Queued(q) = 1..q.m_size /\ DOMAIN Queued(q) = 1..Len(Queued(q))
    BY <1>2, <1>3, LenProperties
  <2> QED
    BY <1>1, <1>3, <2>1, LenProperties
<1> QED
  BY <1>3, <1>4 DEF Queued

\* push() puts the item behind the others.
LEMMA PutAppends ==
  ASSUME NEW Items, NEW q, WellFormed(q, Items), ~full(q), NEW item \in Items
  PROVE  /\ WellFormed(Put(q, item), Items)
         /\ Queued(Put(q, item)) = Append(Queued(q), item)
<1> SUFFICES ASSUME NEW r, r = Put(q, item)
             PROVE  WellFormed(r, Items) /\ Queued(r) = Append(Queued(q), item)
  OBVIOUS
<1> USE MaxSizeAssumption
<1>1. /\ q.m_front \in -1..(m_max_size - 1) /\ q.m_back \in -1..(m_max_size - 1)
      /\ q.m_size \in 0..(m_max_size - 1)
      /\ q.m_array \in [0..(m_max_size - 1) -> Items \cup {Nothing}]
  BY DEF WellFormed, IsQueue, full
<1>2. PICK last \in Nat : last = q.m_front + q.m_size + 1
  BY <1>1
<1>3. After(q.m_back) = last % m_max_size /\ last < 2 * m_max_size
  BY <1>1, <1>2 DEF WellFormed
<1>4. After(q.m_back) \in 0..(m_max_size - 1)
  BY <1>2, <1>3
<1>5. /\ r.m_front = q.m_front /\ r.m_size = q.m_size + 1
      /\ r.m_back = After(q.m_back)
      /\ r.m_array = [q.m_array EXCEPT ![After(q.m_back)] = item]
      /\ IsQueue(r, Items)
  BY <1>1, <1>4 DEF Put, IsQueue
<1>6. After(r.m_back) = (r.m_front + r.m_size + 1) % m_max_size
  <2>1. r.m_front + r.m_size + 1 = last + 1
    BY <1>1, <1>2, <1>5, SMTT(30)
  <2>2. 1 \in 0..m_max_size
    OBVIOUS
  <2>3. ((last % m_max_size) + 1) % m_max_size = (last + 1) % m_max_size
    BY <1>3, <2>2, ModOfSum
  <2> QED
    BY <1>3, <1>5, <2>1, <2>3 DEF After
<1>7. \A i \in 1..q.m_size : (q.m_front + i) % m_max_size # After(q.m_back)
  <2> SUFFICES ASSUME NEW i \in 1..q.m_size, NEW x, x = q.m_front + i
               PROVE  x % m_max_size # last % m_max_size
    BY <1>3
  <2>1. /\ x \in Nat /\ x < last /\ last - x < m_max_size
    BY <1>1, <1>2, SMTT(30)
  <2> QED
    BY <1>3, <2>1, PlacesDiffer
<1>8. \A i \in 1..q.m_size + 1 :
        r.m_array[(r.m_front + i) % m_max_size] =
          IF i <= q.m_size THEN q.m_array[(q.m_front + i) % m_max_size] ELSE item
  <2> SUFFICES ASSUME NEW i \in 1..q.m_size + 1, NEW x, x = q.m_front + i
               PROVE  r.m_array[x % m_max_size] =
                        IF i <= q.m_size THEN q.m_array[x % m_max_size] ELSE item
    BY <1>5
  <2>1a. x \in Nat
    BY <1>1
  <2>1. x % m_max_size \in 0..(m_max_size - 1)
    BY <2>1a
  <2>2. CASE i <= q.m_size
    <3>1. x % m_max_size # After(q.m_back)
      BY <1>1, <1>7, <2>2
    <3> QED
      BY <1>1, <1>5, <2>1, <2>2, <3>1
  <2>3. CASE i = q.m_size + 1
    <3>1. x = last
      BY <1>1, <1>2, <2>3, SMTT(30)
    <3> QED
      BY <1>1, <1>3, <1>5, <2>1, <2>3, <3>1
  <2> QED
    BY <1>1, <2>2, <2>3
<1>9. WellFormed(r, Items)
  <2>1. ASSUME NEW i \in 1..r.m_size
        PROVE  r.m_array[(r.m_front + i) % m_max_size] \in Items
    <3>1. i \in 1..q.m_size + 1
      BY <1>5
    <3>2. i <= q.m_size => i \in 1..q.m_size
      BY <1>1, <3>1
    <3> QED
      BY <1>8, <3>1, <3>2 DEF WellFormed
  <2> QED
    BY <1>5, <1>6, <2>1 DEF WellFormed
<1>10. Queued(r) = Append(Queued(q), item)
  <2>1. /\ Queued(q) \in Seq(Items) /\ Queued(r) \in Seq(Items)
        /\ Len(Queued(q)) = q.m_size /\ Len(Queued(r)) = q.m_size + 1
    BY <1>5, <1>9, QueuedIsSequence
  <2>2. \A i \in 1..(q.m_size + 1) : Queued(r)[i] =
          IF i <= q.m_size THEN Queued(q)[i] ELSE item
    <3> SUFFICES ASSUME NEW i \in 1..(q.m_size + 1)
                 PROVE  Queued(r)[i] =
                          IF i <= q.m_size THEN Queued(q)[i] ELSE item
      OBVIOUS
    <3>1. i \in 1..r.m_size /\ (i <= q.m_size => i \in 1..q.m_size)
      BY <1>1, <1>5
    <3> QED
      BY <1>8, <1>9, <3>1, QueuedIsSequence
  <2>3. /\ Append(Queued(q), item) \in Seq(Items)
        /\ Len(Append(Queued(q), item)) = q.m_size + 1
        /\ \A i \in 1..(q.m_size + 1) : Append(Queued(q), item)[i] =
             IF i <= q.m_size THEN Queued(q)[i] ELSE item
    BY <1>1, <2>1, AppendProperties
  <2> QED
    BY <2>1, <2>2, <2>3, SeqEqual
<1> QED
  BY <1>9, <1>10

\* pop() takes the first item and leaves the others.
LEMMA RestIsTail ==
  ASSUME NEW Items, NEW q, WellFormed(q, Items), q.m_size > 0
  PROVE  /\ WellFormed(Rest(q), Items)
         /\ Item(q) \in Items
         /\ Queued(q) = <<Item(q)>> \o Queued(Rest(q))
<1> SUFFICES ASSUME NEW r, r = Rest(q)
             PROVE  /\ WellFormed(r, Items) /\ Item(q) \in Items
                    /\ Queued(q) = <<Item(q)>> \o Queued(r)
  OBVIOUS
<1> USE MaxSizeAssumption
<1>1. /\ q.m_front \in -1..(m_max_size - 1) /\ q.m_back \in -1..(m_max_size - 1)
      /\ q.m_size \in 1..m_max_size
      /\ q.m_array \in [0..(m_max_size - 1) -> Items \cup {Nothing}]
  BY DEF WellFormed, IsQueue
<1>2. PICK first \in Nat : first = q.m_front + 1 /\ first <= m_max_size
  BY <1>1
<1>3. /\ After(q.m_front) = first % m_max_size
      /\ After(q.m_front) \in 0..(m_max_size - 1)
  BY <1>1, <1>2 DEF After
<1>4. /\ r.m_front = After(q.m_front) /\ r.m_size = q.m_size - 1
      /\ r.m_back = q.m_back /\ r.m_array = q.m_array
      /\ IsQueue(r, Items)
  BY <1>1, <1>3 DEF Rest, IsQueue
<1>4a. r.m_front \in Int /\ q.m_front \in Int /\ q.m_size \in Nat \ {0}
  BY <1>1, <1>3, <1>4
\* The front is one further, and the places count from there.
<1>5. ASSUME NEW i \in 0..q.m_size
      PROVE  (r.m_front + i) % m_max_size = (q.m_front + (i + 1)) % m_max_size
  <2>1. i \in 0..m_max_size
    BY <1>1
  <2>1a. first < 2 * m_max_size
    BY <1>2
  <2>1b. q.m_front + (i + 1) = first + i /\ first + i \in Nat
    BY <1>1, <1>2, <2>1
  <2>2. ((first % m_max_size) + i) % m_max_size
          = (first + i) % m_max_size
    BY <2>1, <2>1a, <2>1b, ModOfSum
  <2> QED
    BY <1>3, <1>4, <2>1b, <2>2
<1>6. After(r.m_back) = (r.m_front + r.m_size + 1) % m_max_size
  <2>1. /\ r.m_front + r.m_size + 1 = r.m_front + q.m_size
        /\ q.m_front + q.m_size + 1 = q.m_front + (q.m_size + 1)
        /\ q.m_size \in 0..q.m_size
    BY <1>4, <1>4a
  <2> QED
    BY <1>4, <1>5, <2>1 DEF WellFormed
<1>7. ASSUME NEW i \in 1..(q.m_size - 1)
      PROVE  /\ r.m_array[(r.m_front + i) % m_max_size]
                  = q.m_array[(q.m_front + (i + 1)) % m_max_size]
             /\ i \in 0..q.m_size /\ i + 1 \in 1..q.m_size
  <2>1. i \in 0..q.m_size /\ i + 1 \in 1..q.m_size
    BY <1>4a
  <2> QED
    BY <1>4, <1>5, <2>1
<1>8. WellFormed(r, Items)
  <2>1. ASSUME NEW i \in 1..r.m_size
        PROVE  r.m_array[(r.m_front + i) % m_max_size] \in Items
    BY <1>4, <1>7 DEF WellFormed
  <2> QED
    BY <1>4, <1>6, <2>1 DEF WellFormed
<1>9. Item(q) = q.m_array[(q.m_front + 1) % m_max_size] /\ Item(q) \in Items
  BY <1>1 DEF Item, After, WellFormed
<1>10. Queued(q) = <<Item(q)>> \o Queued(r)
  <2>1. /\ Queued(q) \in Seq(Items) /\ Queued(r) \in Seq(Items)
        /\ Len(Queued(q)) = q.m_size /\ Len(Queued(r)) = q.m_size - 1
        /\ Queued(q)[1] = Item(q)
    <3>1. 1 \in 1..q.m_size
      BY <1>4a
    <3> QED
      BY <1>4, <1>8, <1>9, <3>1, QueuedIsSequence
  <2>2. ASSUME NEW i \in 1..(q.m_size - 1)
        PROVE  Queued(r)[i] = Queued(q)[i + 1]
    <3>1. Queued(r)[i] = r.m_array[(r.m_front + i) % m_max_size]
      BY <1>4, <1>8, QueuedIsSequence
    <3>2. Queued(q)[i + 1] = q.m_array[(q.m_front + (i + 1)) % m_max_size]
      BY <1>7, QueuedIsSequence
    <3> QED
      BY <1>7, <3>1, <3>2
  <2>3. <<Item(q)>> \in Seq(Items) /\ Len(<<Item(q)>>) = 1
    BY <1>9
  <2>4. /\ <<Item(q)>> \o Queued(r) \in Seq(Items)
        /\ Len(<<Item(q)>> \o Queued(r)) = q.m_size
        /\ \A i \in 1..q.m_size : (<<Item(q)>> \o Queued(r))[i] =
             IF i <= 1 THEN Item(q) ELSE Queued(r)[i - 1]
    BY <1>4a, <2>1, <2>3, ConcatProperties
  <2>5. ASSUME NEW i \in 1..q.m_size
        PROVE  (<<Item(q)>> \o Queued(r))[i] = Queued(q)[i]
    <3>1. CASE i = 1
      BY <2>1, <2>4, <3>1
    <3>2. CASE i > 1
      <4>1. PICK j \in 1..(q.m_size - 1) : j = i - 1 /\ i = j + 1
        BY <1>4a, <3>2
      <4>2. (<<Item(q)>> \o Queued(r))[i] = Queued(r)[j]
        <5>1. (<<Item(q)>> \o Queued(r))[i] = Queued(r)[i - 1]
          BY <2>4, <3>2, <4>1
        <5> QED
          BY <4>1, <5>1
      <4>3. Queued(r)[j] = Queued(q)[j + 1]
        BY <2>2
      <4> QED
        BY <4>1, <4>2, <4>3
    <3>3. i = 1 \/ i > 1
      BY <1>4a
    <3> QED
      BY <3>1, <3>2, <3>3
  <2> QED
    BY <2>1, <2>4, <2>5, SeqEqual
<1> QED
  BY <1>8, <1>9, <1>10

-----------------------------------------------------------------------------
(***************************************************************************)
(* What the log is about: the lines that were written, in the order of     *)
(* fputs, and those that the other thread has yet to write.                *)
(***************************************************************************)
Trail == log \o stream

Pending == (IF hand = NoLine THEN << >> ELSE <<hand>>) \o Queued(m_log_queue)

Holding == {"roll", "full", "push", "put"}

\* A thread has a line from its call to the end of write_log().
Held ==
  \A t \in Threads :
    IF pc[t] \in Holding
    THEN line[t] \in Lines /\ line[t].by = t /\ line[t].n = written[t]
    ELSE line[t] = NoLine

HandHeld == flusher = "put" <=> hand # NoLine

\* The queue is not used by a log that is synchronous.
OnlyAsync ==
  ~m_is_async => /\ hand = NoLine /\ m_log_queue.m_size = 0
                 /\ \A t \in Threads : pc[t] # "push"

\* The lines that were counted.
Rolled ==
  {x \in Threads \X (1..MaxLines) :
     x[2] <= written[x[1]] /\ ~(x[2] = written[x[1]] /\ pc[x[1]] = "roll")}

Counted == m_count <= Cardinality(Rolled)

Typed ==
  /\ TypeOK /\ WellFormed(m_log_queue, Lines)
  /\ Held /\ HandHeld /\ OnlyAsync /\ Counted

(***************************************************************************)
(* Where the lines are, and in which order.                                *)
(***************************************************************************)
\* A line that its thread has written or queued.
Begun(l) ==
  /\ l.n <= written[l.by]
  /\ line[l.by] # NoLine => l.n < written[l.by]

AllBegun ==
  /\ \A i \in 1..Len(Trail) : Begun(Trail[i].line)
  /\ \A i \in 1..Len(Pending) : Begun(Pending[i])

Differs(k, l) == k.by = l.by => k.n # l.n

Precedes(k, l) == k.by = l.by => k.n < l.n

TrailOrdered ==
  \A i, j \in 1..Len(Trail) : i < j =>
    LET k == Trail[i].line  l == Trail[j].line IN
    Differs(k, l) /\ (Precedes(k, l) \/ k \in bypassed)

TrailFirst ==
  \A i \in 1..Len(Trail), j \in 1..Len(Pending) :
    LET k == Trail[i].line  l == Pending[j] IN
    Differs(k, l) /\ (Precedes(k, l) \/ k \in bypassed)

PendingOrdered ==
  \A i, j \in 1..Len(Pending) : i < j => Precedes(Pending[i], Pending[j])

Ordered ==
  /\ Typed
  /\ AllBegun /\ TrailOrdered /\ TrailFirst /\ PendingOrdered

\* A thread that is about to push() finds room, or shares the queue's last
\* place with another, and both know.
RoomOrCrowd ==
  \A t \in Threads : pc[t] = "push" /\ line[t] \notin crowded =>
    /\ ~full(m_log_queue)
    /\ \A u \in Threads \ {t} : pc[u] # "push"

Present ==
  \A t \in Threads : \A n \in 1..written[t] :
    \/ \E i \in 1..Len(Trail) : Is(Trail[i].line, t, n)
    \/ \E i \in 1..Len(Pending) : Is(Pending[i], t, n)
    \/ Is(line[t], t, n)
    \/ IsCrowded(t, n)

Tracked == Ordered /\ RoomOrCrowd /\ Present

(***************************************************************************)
(* In which file a line is.                                                *)
(***************************************************************************)
\* A line under way that has not seen midnight is of today, and so are all
\* others.
OfToday ==
  \A l \in UnderWay : l \notin atMidnight => \A k \in UnderWay : k.day = day

\* A line that has rolled and has not seen midnight finds the file of its day.
HasRolled(l) ==
  \/ \E t \in Threads : pc[t] # "roll" /\ line[t] = l
  \/ \E i \in 1..Len(Pending) : Pending[i] = l

FileOfDay ==
  /\ m_fp.day = m_today
  /\ \A l \in Lines : HasRolled(l) /\ l \notin atMidnight => m_fp.day = l.day

Filed ==
  \A i \in 1..Len(Trail) :
    Trail[i].line \notin atMidnight => Trail[i].file.day = Trail[i].line.day

Dated == Typed /\ OfToday /\ FileOfDay /\ Filed

(***************************************************************************)
(* What flush() makes durable.                                             *)
(***************************************************************************)
Direct(t, n) == ~m_is_async \/ \E l \in bypassed : Is(l, t, n)

InFile(t, n) == \E i \in DOMAIN log : Is(log[i].line, t, n)

InStream(t, n) == \E i \in DOMAIN stream : Is(stream[i].line, t, n)

Durable ==
  \A t \in Threads : \A n \in 1..written[t] : Direct(t, n) =>
    \/ Is(line[t], t, n)
    \/ InFile(t, n)
    \/ /\ InStream(t, n)
       /\ ~ended /\ (t \in Flushers => pc[t] = "flush")

Bypassed == \A l \in bypassed : Begun(l)

Flushed == Typed /\ Bypassed /\ Durable

-----------------------------------------------------------------------------
(***************************************************************************)
(* Types.                                                                  *)
(***************************************************************************)
Entries == [line : Lines, file : Files]

LEMMA TrailIsSequence ==
  ASSUME TypeOK
  PROVE  /\ log \in Seq(Entries) /\ stream \in Seq(Entries)
         /\ Trail \in Seq(Entries) /\ Len(Trail) \in Nat
         /\ \A i \in 1..Len(Trail) : Trail[i].line \in Lines
<1>1. [line : Lines, file : {m_fp}] \subseteq Entries
  BY DEF TypeOK, Entries
<1>2. stream \in Seq(Entries)
  BY <1>1, SeqMonotonic DEF TypeOK
<1>3. log \in Seq(Entries) /\ Trail \in Seq(Entries)
  BY <1>2, ConcatProperties DEF TypeOK, Trail, Entries
<1>4. \A e \in Entries : e.line \in Lines
  BY DEF Entries
<1> QED
  BY <1>2, <1>3, <1>4, ElementOfSeq

LEMMA PendingIsSequence ==
  ASSUME Typed
  PROVE  Pending \in Seq(Lines) /\ Len(Pending) \in Nat
<1>1. Queued(m_log_queue) \in Seq(Lines)
  BY QueuedIsSequence DEF Typed
<1>2. (IF hand = NoLine THEN << >> ELSE <<hand>>) \in Seq(Lines)
  BY DEF Typed, TypeOK
<1> QED
  BY <1>1, <1>2, ConcatProperties DEF Pending

LEMMA CountIsBounded ==
  ASSUME NEW R, R \subseteq Threads \X (1..MaxLines),
         NEW c \in Nat, c <= Cardinality(R)
  PROVE  IsFiniteSet(R) /\ c \in 0..(MaxLines * Cardinality(Threads))
<1> USE LogAssumption
<1>1. /\ IsFiniteSet(1..MaxLines) /\ Cardinality(1..MaxLines) = MaxLines
  BY FS_Interval
<1>2. /\ IsFiniteSet(Threads \X (1..MaxLines))
      /\ Cardinality(Threads \X (1..MaxLines)) = Cardinality(Threads) * MaxLines
  BY <1>1, FS_Product
<1>3. /\ IsFiniteSet(R)
      /\ Cardinality(R) <= Cardinality(Threads \X (1..MaxLines))
  BY <1>2, FS_Subset
<1>4. Cardinality(Threads) \in Nat /\ Cardinality(R) \in Nat
  BY <1>3, FS_CardinalityType
<1> QED
  BY <1>2, <1>3, <1>4

LEMMA RolledIsFinite == Rolled \subseteq Threads \X (1..MaxLines)
BY DEF Rolled

\* Only Roll counts.
LEMMA CountStays ==
  ASSUME Typed, UNCHANGED <<m_count, written>>, Held,
         \A t \in Threads : pc'[t] = "roll" <=> pc[t] = "roll"
  PROVE  Counted' /\ m_count' \in 0..(MaxLines * Cardinality(Threads))
<1>1. Rolled' = Rolled
  BY DEF Rolled
<1> QED
  BY <1>1 DEF Typed, TypeOK, Counted

LEMMA TypedInit == Init => Typed
<1> SUFFICES ASSUME Init PROVE Typed
  OBVIOUS
<1> USE LogAssumption
<1>1. Cardinality(Threads) \in Nat
  BY FS_CardinalityType
<1>2. 0 \in 0..(MaxLines * Cardinality(Threads))
  BY <1>1
<1>3. WellFormed(m_log_queue, Lines)
  BY EmptyIsWellFormed DEF Init
<1>4. TypeOK
  <2>1. m_fp \in Files
    BY <1>2 DEF Init, Files
  <2>2. stream \in Seq([line : Lines, file : {m_fp}]) /\ log \in Seq([line : Lines, file : Files])
    BY DEF Init
  <2>3. /\ m_today \in 1..MaxDays /\ day \in 1..MaxDays
        /\ written \in [Threads -> 0..MaxLines]
        /\ m_count \in 0..(MaxLines * Cardinality(Threads))
    BY <1>2 DEF Init
  <2> QED
    BY <1>3, <2>1, <2>2, <2>3 DEF Init, TypeOK, WellFormed
<1>5. Held /\ HandHeld /\ OnlyAsync
  BY DEF Init, Held, Holding, HandHeld, OnlyAsync, Empty
<1>6. Counted
  <2>1. Rolled = {}
    BY DEF Init, Rolled
  <2> QED
    BY <2>1, FS_EmptySet DEF Init, Counted
<1> QED
  BY <1>3, <1>4, <1>5, <1>6 DEF Typed

\* What Flush does to the types.
LEMMA FlushTypes ==
  ASSUME TypeOK, Flush
  PROVE  /\ log' \in Seq(Entries)
         /\ \A S : stream' \in Seq(S)
BY TrailIsSequence DEF Flush, Trail, Entries

LEMMA FputsTypes ==
  ASSUME TypeOK, NEW l \in Lines, Fputs(l), UNCHANGED m_fp
  PROVE  /\ log' \in Seq(Entries)
         /\ stream' \in Seq([line : Lines, file : {m_fp'}])
<1>1. [line |-> l, file |-> m_fp] \in [line : Lines, file : {m_fp}]
  OBVIOUS
<1> QED
  BY <1>1, AppendProperties DEF TypeOK, Fputs, Entries

LEMMA TypedStep == Typed /\ [Next]_vars => Typed'
<1> SUFFICES ASSUME Typed, [Next]_vars PROVE Typed'
  OBVIOUS
<1> USE LogAssumption DEF Typed
<1>a. /\ TypeOK /\ Cardinality(Threads) \in Nat
      /\ MaxLines * Cardinality(Threads) \in Nat
  BY FS_CardinalityType
\* A step of a thread that has its line before and after, or neither.
<1>b. ASSUME NEW t \in Threads, NEW from \in {"full", "push", "put", "flush"},
             NEW to \in {"push", "put", "flush", "idle"}, GoTo(t, from, to),
             line' = IF to \in Holding THEN line ELSE [line EXCEPT ![t] = NoLine],
             from = "flush" => to = "idle",
             to = "push" => m_is_async,
             UNCHANGED <<m_is_async, m_count, written, hand, day, m_today, m_fp,
                         atMidnight>>,
             WellFormed(m_log_queue, Lines)', flusher' \in {"pop", "wait", "put"},
             flusher' = "put" <=> flusher = "put",
             m_log_queue' = m_log_queue \/ m_is_async,
             log' \in Seq(Entries),
             stream' \in Seq([line : Lines, file : {m_fp'}]),
             crowded' \subseteq Lines, bypassed' \subseteq Lines
      PROVE  Typed'
  <2>1. pc' = [pc EXCEPT ![t] = to] /\ pc[t] = from /\ UNCHANGED ended
    BY <1>b DEF GoTo
  <2>2. Held'
    BY <1>a, <1>b, <2>1 DEF Held, Holding, TypeOK
  <2>3. HandHeld' /\ OnlyAsync'
    BY <1>a, <1>b, <2>1 DEF HandHeld, OnlyAsync, TypeOK
  <2>4. Counted' /\ m_count' \in 0..(MaxLines * Cardinality(Threads))
    BY <1>a, <1>b, <2>1, CountStays DEF TypeOK
  <2>5. TypeOK'
    <3>1. line' \in [Threads -> Lines \cup {NoLine}]
      BY <1>a, <1>b DEF TypeOK
    <3> QED
      BY <1>a, <1>b, <2>1, <2>4, <3>1 DEF TypeOK, WellFormed, Entries
  <2> QED
    BY <1>b, <2>2, <2>3, <2>4, <2>5
<1>1. ASSUME NEW t \in Threads, Call(t) PROVE Typed'
  <2>1. /\ pc[t] = "idle" /\ pc' = [pc EXCEPT ![t] = "roll"]
        /\ written[t] < MaxLines
        /\ written' = [written EXCEPT ![t] = written[t] + 1]
        /\ line' = [line EXCEPT ![t] =
                      [by |-> t, n |-> written[t] + 1, day |-> day]]
        /\ written[t] + 1 \in 1..MaxLines
    BY <1>1, <1>a DEF Call, GoTo, TypeOK
  <2>2. [by |-> t, n |-> written[t] + 1, day |-> day] \in Lines
    BY <2>1, <1>a DEF Lines, TypeOK
  <2>3. Held'
    BY <1>a, <2>1, <2>2 DEF Held, Holding, TypeOK
  <2>4. Rolled' = Rolled
    <3> SUFFICES ASSUME NEW u \in Threads, NEW n \in 1..MaxLines
                 PROVE  n <= written'[u] /\ ~(n = written'[u] /\ pc'[u] = "roll")
                        <=> n <= written[u] /\ ~(n = written[u] /\ pc[u] = "roll")
      BY DEF Rolled
    <3>1. CASE u = t
      BY <1>a, <2>1, <3>1 DEF TypeOK
    <3>2. CASE u # t
      BY <1>a, <2>1, <3>2 DEF TypeOK
    <3> QED
      BY <3>1, <3>2
  <2>5. Counted'
    BY <1>1, <2>4 DEF Counted, Call, files
  <2>6. atMidnight' \subseteq Lines
    BY <1>1, <1>a, <2>1, <2>2 DEF Call, TypeOK
  <2>7. TypeOK'
    BY <1>1, <1>a, <2>1, <2>2, <2>6, SMTT(30)
       DEF Call, GoTo, TypeOK, files, kept
  <2>8. HandHeld' /\ OnlyAsync' /\ WellFormed(m_log_queue, Lines)'
    BY <1>1, <1>a, <2>1 DEF Call, HandHeld, OnlyAsync, TypeOK
  <2> QED
    BY <2>3, <2>5, <2>7, <2>8
<1>2. ASSUME NEW t \in Threads, Roll(t) PROVE Typed'
  <2>1. /\ pc[t] = "roll" /\ pc' = [pc EXCEPT ![t] = "full"]
        /\ line[t] \in Lines /\ line[t].day \in 1..MaxDays
        /\ line[t].n = written[t] /\ line[t].n \in 1..MaxLines
        /\ UNCHANGED <<line, written>>
    BY <1>2 DEF Roll, GoTo, Held, Holding, Lines
  <2>2. /\ m_today' \in 1..MaxDays
        /\ m_count' \in Nat /\ m_count' <= m_count + 1
    BY <1>2, <1>a, <2>1, SMTT(30)
    DEF Roll, ChooseFile, OpenDay, OpenPart, StayInFile, TypeOK
  <2>3. Counted'
    <3>1. IsFiniteSet(Rolled) /\ m_count \in Nat
      BY <1>a, RolledIsFinite, CountIsBounded, SMTT(30) DEF TypeOK, Counted
    <3>2. Rolled' = Rolled \cup {<<t, written[t]>>}
      <4> SUFFICES ASSUME NEW u \in Threads, NEW n \in 1..MaxLines
                   PROVE  n <= written[u] /\ ~(n = written[u] /\ pc'[u] = "roll")
                          <=> \/ n <= written[u]
                                 /\ ~(n = written[u] /\ pc[u] = "roll")
                              \/ u = t /\ n = written[t]
        BY <2>1 DEF Rolled
      <4> QED
        BY <1>a, <2>1 DEF TypeOK
    <3>3. <<t, written[t]>> \notin Rolled
      BY <2>1 DEF Rolled
    <3>4. Cardinality(Rolled') = Cardinality(Rolled) + 1
      BY <3>1, <3>2, <3>3, FS_AddElement
    <3> QED
      BY <2>2, <3>1, <3>4, FS_CardinalityType DEF Counted
  <2>4. m_count' \in 0..(MaxLines * Cardinality(Threads))
    <3>1. Rolled' \subseteq Threads \X (1..MaxLines)
      BY DEF Rolled
    <3> QED
      BY <2>2, <2>3, <3>1, CountIsBounded DEF Counted
  <2>5. m_fp' \in Files
    <3>1. m_fp' \in {m_fp, [day |-> line[t].day, part |-> 0],
                     [day |-> line[t].day, part |-> m_count' \div m_split_lines]}
      BY <1>2 DEF Roll, ChooseFile, OpenDay, OpenPart, StayInFile
    <3>2. m_count' \div m_split_lines \in 0..(MaxLines * Cardinality(Threads))
      BY <1>a, <2>4, DivBound
    <3>3. 0 \in 0..(MaxLines * Cardinality(Threads))
      BY <1>a
    <3> QED
      BY <1>a, <2>1, <3>1, <3>2, <3>3, SMTT(30) DEF Files, TypeOK
  <2>6. /\ log' \in Seq(Entries)
        /\ stream' \in Seq([line : Lines, file : {m_fp'}])
    <3>1. CASE Flush
      BY <1>a, <3>1, FlushTypes
    <3>2. CASE UNCHANGED <<kept, m_fp>>
      BY <1>a, <3>2 DEF TypeOK, kept, Entries
    <3> QED
      BY <1>2, <3>1, <3>2
      DEF Roll, ChooseFile, OpenDay, OpenPart, StayInFile, Reopen
  <2>7. TypeOK'
    BY <1>2, <1>a, <2>1, <2>2, <2>4, <2>5, <2>6
    DEF Roll, GoTo, TypeOK, Entries, ghosts
  <2>8. Held'
    BY <1>a, <2>1 DEF Held, Holding, TypeOK
  <2>9. HandHeld' /\ OnlyAsync' /\ WellFormed(m_log_queue, Lines)'
    BY <1>2, <1>a, <2>1 DEF Roll, HandHeld, OnlyAsync, TypeOK
  <2> QED
    BY <2>3, <2>7, <2>8, <2>9
<1>3. ASSUME NEW t \in Threads, TestFull(t) PROVE Typed'
  <2>1. crowded' \subseteq Lines
    BY <1>3, <1>a, SMTT(30) DEF TestFull, GoTo, Crowd, Held, Holding, TypeOK
  <2>2. PICK to \in {"push", "put"} : GoTo(t, "full", to) /\ (to = "push" => m_is_async)
    BY <1>3 DEF TestFull
  <2> QED
    BY <1>3, <1>a, <1>b, <2>1, <2>2
    DEF TestFull, Holding, TypeOK, Entries, files, kept
<1>4. ASSUME NEW t \in Threads, Push(t) PROVE Typed'
  <2>1. line[t] \in Lines /\ m_is_async
    BY <1>4, <1>a DEF Push, Return, GoTo, Held, Holding, OnlyAsync, TypeOK
  <2>2. WellFormed(m_log_queue', Lines)
    BY <1>4, <2>1, PutAppends DEF Push
  <2>3. /\ flusher' \in {"pop", "wait", "put"}
        /\ flusher' = "put" <=> flusher = "put"
    BY <1>4, <1>a DEF Push, Broadcast, TypeOK
  <2>4. PICK to \in {"flush", "idle"} : GoTo(t, "push", to)
    BY <1>4 DEF Push, Return
  <2> QED
    BY <1>4, <1>a, <1>b, <2>1, <2>2, <2>3, <2>4
    DEF Push, Return, Holding, TypeOK, Entries, files, kept
<1>5. ASSUME NEW t \in Threads, WriteDirectly(t) PROVE Typed'
  <2>1. line[t] \in Lines
    BY <1>5, <1>a DEF WriteDirectly, Return, GoTo, Held, Holding
  <2>2. /\ log' \in Seq(Entries)
        /\ stream' \in Seq([line : Lines, file : {m_fp'}])
    BY <1>5, <1>a, <2>1, FputsTypes DEF WriteDirectly, Return, files
  <2>3. bypassed' \subseteq Lines
    BY <1>5, <1>a, <2>1 DEF WriteDirectly, TypeOK
  <2>4. PICK to \in {"flush", "idle"} : GoTo(t, "put", to)
    BY <1>5 DEF WriteDirectly, Return
  <2> QED
    BY <1>5, <1>a, <1>b, <2>1, <2>2, <2>3, <2>4
    DEF WriteDirectly, Return, Holding, TypeOK, files
<1>6. ASSUME NEW t \in Threads, FlushAfter(t) PROVE Typed'
  <2>1. line' = [line EXCEPT ![t] = NoLine]
    BY <1>6, <1>a DEF FlushAfter, GoTo, Held, Holding, TypeOK
  <2>2. /\ log' \in Seq(Entries)
        /\ stream' \in Seq([line : Lines, file : {m_fp'}])
    BY <1>6, <1>a, FlushTypes DEF FlushAfter
  <2> QED
    BY <1>6, <1>a, <1>b, <2>1, <2>2
    DEF FlushAfter, Holding, TypeOK, files, ghosts
\* The steps of the other thread, the clock and main move no thread.
<1>c. ASSUME UNCHANGED <<m_is_async, m_today, m_count, m_fp, callers, crowded,
                         bypassed>>,
             day' \in 1..MaxDays, ended' \in BOOLEAN,
             WellFormed(m_log_queue, Lines)',
             m_is_async \/ UNCHANGED <<m_log_queue, hand>>,
             flusher' \in {"pop", "wait", "put"}, hand' \in Lines \cup {NoLine},
             HandHeld',
             log' \in Seq(Entries),
             stream' \in Seq([line : Lines, file : {m_fp'}]),
             atMidnight' \subseteq Lines
      PROVE  Typed'
  <2>1. Counted' /\ m_count' \in 0..(MaxLines * Cardinality(Threads))
    BY <1>a, <1>c, CountStays DEF callers
  <2>2. Held' /\ OnlyAsync'
    BY <1>c DEF Held, OnlyAsync, callers
  <2>3. TypeOK'
    BY <1>a, <1>c DEF TypeOK, WellFormed, Entries, callers
  <2> QED
    BY <1>c, <2>1, <2>2, <2>3
<1> USE DEF files, kept, callers, ghosts
<1>7. CASE Wait
  BY <1>7, <1>a, <1>c DEF Wait, Flusher, TypeOK, Entries, HandHeld
<1>8. CASE WakeSpuriously
  BY <1>8, <1>a, <1>c DEF WakeSpuriously, Flusher, TypeOK, Entries, HandHeld
<1>9. CASE Pop
  <2>1. WellFormed(Rest(m_log_queue), Lines) /\ Item(m_log_queue) \in Lines
    BY <1>9, RestIsTail DEF Pop
  <2> QED
    BY <1>9, <1>a, <1>c, <2>1 DEF Pop, Flusher, TypeOK, Entries, HandHeld
<1>10. CASE WriteQueued
  <2>1. hand \in Lines
    BY <1>10, <1>a DEF WriteQueued, Flusher, HandHeld, TypeOK
  <2>2. /\ log' \in Seq(Entries)
        /\ stream' \in Seq([line : Lines, file : {m_fp'}])
    BY <1>10, <1>a, <2>1, FputsTypes DEF WriteQueued, Flusher
  <2> QED
    BY <1>10, <1>a, <1>c, <2>1, <2>2 DEF WriteQueued, Flusher, TypeOK, HandHeld
<1>11. CASE Midnight
  <2>1. UnderWay \subseteq Lines
    <3>1. ToSet(Queued(m_log_queue)) \subseteq Lines
      BY QueuedIsSequence DEF ToSet
    <3> QED
      BY <1>a, <3>1 DEF UnderWay, TypeOK
  <2> QED
    BY <1>11, <1>a, <1>c, <2>1 DEF Midnight, TypeOK, Entries, HandHeld
<1>12. CASE End
  <2>1. /\ log' \in Seq(Entries)
        /\ stream' \in Seq([line : Lines, file : {m_fp'}])
    BY <1>12, <1>a, FlushTypes DEF End
  <2> QED
    BY <1>12, <1>a, <1>c, <2>1 DEF End, TypeOK, HandHeld
<1>13. CASE UNCHANGED vars
  BY <1>13, <1>a, <1>c DEF vars, TypeOK, Entries, HandHeld
<1> QED
  BY <1>1, <1>2, <1>3, <1>4, <1>5, <1>6, <1>7, <1>8, <1>9, <1>10, <1>11, <1>12,
     <1>13 DEF Next, Write

\* Every variable keeps its type: the block_queue's indices stay in its array
\* and its size within m_max_size, m_count does not pass the lines written, and the
\* lines in the stream are lines for the file that is open.
THEOREM TypeCorrect == Spec => []TypeOK
<1>1. Typed => TypeOK
  BY DEF Typed
<1> QED
  BY TypedInit, TypedStep, <1>1, PTL DEF Spec

-----------------------------------------------------------------------------
(***************************************************************************)
(* What the steps do to Trail and Pending: fputs appends to the one, push  *)
(* to the other, and the other thread takes its lines from the front of    *)
(* Pending.  Flushing and popping change neither.                          *)
(***************************************************************************)
LEMMA ConcatAppend ==
  ASSUME NEW S, NEW r \in Seq(S), NEW s \in Seq(S), NEW e \in S
  PROVE  r \o Append(s, e) = Append(r \o s, e)
<1>1. Append(s, e) = s \o <<e>> /\ <<e>> \in Seq(S) /\ r \o s \in Seq(S)
  BY AppendIsConcat, ConcatProperties
<1>2. (r \o s) \o <<e>> = r \o (s \o <<e>>)
  BY <1>1, ConcatAssociative
<1>3. Append(r \o s, e) = (r \o s) \o <<e>>
  BY <1>1, AppendIsConcat
<1> QED
  BY <1>1, <1>2, <1>3

LEMMA FlushKeepsTrail ==
  ASSUME TypeOK, Flush PROVE Trail' = Trail
<1>1. Trail' = Trail \o << >>
  BY DEF Flush, Trail
<1> QED
  BY <1>1, TrailIsSequence, ConcatEmptySeq

LEMMA FputsAppends ==
  ASSUME TypeOK, NEW l \in Lines, Fputs(l)
  PROVE  /\ [line |-> l, file |-> m_fp] \in Entries
         /\ Trail' = Append(Trail, [line |-> l, file |-> m_fp])
<1>1. [line |-> l, file |-> m_fp] \in Entries
  BY DEF TypeOK, Entries
<1> QED
  BY <1>1, TrailIsSequence, ConcatAppend, SMTT(30) DEF Fputs, Trail

LEMMA PendingWithoutHand ==
  ASSUME Typed
  PROVE  Pending = IF hand = NoLine THEN Queued(m_log_queue)
                   ELSE <<hand>> \o Queued(m_log_queue)
<1>1. Queued(m_log_queue) \in Seq(Lines)
  BY QueuedIsSequence DEF Typed
<1> QED
  BY <1>1, ConcatEmptySeq DEF Pending

EntryOf(l) == [line |-> l, file |-> m_fp]

Pushes(t) ==
  /\ Push(t) /\ ~full(m_log_queue)
  /\ Pending' = Append(Pending, line[t])
  /\ UNCHANGED <<Trail, bypassed>>

Writes(t) ==
  /\ WriteDirectly(t)
  /\ Trail' = Append(Trail, EntryOf(line[t]))
  /\ Pending' = Pending
  /\ bypassed' = IF m_is_async THEN bypassed \cup {line[t]} ELSE bypassed

TakesOver ==
  /\ WriteQueued /\ hand \in Lines
  /\ Trail' = Append(Trail, EntryOf(hand))
  /\ Pending = <<hand>> \o Pending' /\ Pending' \in Seq(Lines)
  /\ UNCHANGED bypassed

LEMMA PushMoves ==
  ASSUME Typed, NEW t \in Threads, Push(t)
  PROVE  IF full(m_log_queue) THEN UNCHANGED <<Trail, Pending, bypassed>>
         ELSE Pushes(t)
<1>1. /\ UNCHANGED <<log, stream, hand, bypassed>> /\ line[t] \in Lines
      /\ m_log_queue' = IF full(m_log_queue) THEN m_log_queue
                        ELSE Put(m_log_queue, line[t])
  BY DEF Push, Return, kept, GoTo, Typed, Held, Holding
<1>2. CASE full(m_log_queue)
  BY <1>1, <1>2 DEF Trail, Pending
<1>3. CASE ~full(m_log_queue)
  <2> DEFINE P == IF hand = NoLine THEN << >> ELSE <<hand>>
  <2>1. /\ Queued(m_log_queue) \in Seq(Lines)
        /\ Queued(m_log_queue') = Append(Queued(m_log_queue), line[t])
    BY <1>1, <1>3, QueuedIsSequence, PutAppends DEF Typed
  <2>2. P \in Seq(Lines)
    BY DEF Typed, TypeOK
  <2>3. P \o Append(Queued(m_log_queue), line[t])
          = Append(P \o Queued(m_log_queue), line[t])
    BY <1>1, <2>1, <2>2, ConcatAppend
  <2>4. Pending' = Append(Pending, line[t])
    BY <1>1, <2>1, <2>3 DEF Pending
  <2> QED
    BY <1>1, <1>3, <2>4 DEF Pushes, Trail
<1> QED
  BY <1>2, <1>3

LEMMA WriteMoves ==
  ASSUME Typed, NEW t \in Threads, WriteDirectly(t) PROVE Writes(t)
<1>1. /\ line[t] \in Lines /\ Fputs(line[t]) /\ UNCHANGED <<m_log_queue, hand>>
  BY DEF WriteDirectly, Return, GoTo, Typed, Held, Holding
<1> QED
  BY <1>1, FputsAppends DEF Typed, Writes, WriteDirectly, EntryOf, Pending

LEMMA Movements ==
  ASSUME Typed, [Next]_vars
  PROVE  \/ UNCHANGED <<Trail, Pending, bypassed>>
         \/ \E t \in Threads : Pushes(t) \/ Writes(t)
         \/ TakesOver
<1> USE DEF Typed
<1>1. ASSUME NEW t \in Threads, Call(t)
      PROVE  UNCHANGED <<Trail, Pending, bypassed>>
  BY <1>1 DEF Call, kept, Trail, Pending
<1>2. ASSUME NEW t \in Threads, Roll(t)
      PROVE  UNCHANGED <<Trail, Pending, bypassed>>
  <2>1. Flush \/ UNCHANGED kept
    BY <1>2 DEF Roll, ChooseFile, OpenDay, OpenPart, StayInFile, Reopen
  <2>2. Trail' = Trail
    BY <2>1, FlushKeepsTrail DEF kept, Trail
  <2> QED
    BY <1>2, <2>2 DEF Roll, Pending, ghosts
<1>3. ASSUME NEW t \in Threads, TestFull(t)
      PROVE  UNCHANGED <<Trail, Pending, bypassed>>
  BY <1>3 DEF TestFull, kept, Trail, Pending
<1>4. ASSUME NEW t \in Threads, Push(t)
      PROVE  UNCHANGED <<Trail, Pending, bypassed>> \/ Pushes(t)
  BY <1>4, PushMoves
<1>5. ASSUME NEW t \in Threads, WriteDirectly(t) PROVE Writes(t)
  BY <1>5, WriteMoves
<1>6. ASSUME NEW t \in Threads, FlushAfter(t)
      PROVE  UNCHANGED <<Trail, Pending, bypassed>>
  BY <1>6, FlushKeepsTrail DEF FlushAfter, Pending, ghosts
<1>7. ASSUME Wait \/ WakeSpuriously
      PROVE  UNCHANGED <<Trail, Pending, bypassed>>
  BY <1>7 DEF Wait, WakeSpuriously, Flusher, kept, ghosts, Trail, Pending
<1>8. ASSUME Pop PROVE UNCHANGED <<Trail, Pending, bypassed>>
  <2>1. hand = NoLine
    BY <1>8 DEF Pop, Flusher, HandHeld
  <2>2. /\ Item(m_log_queue) \in Lines
        /\ Queued(m_log_queue) = <<Item(m_log_queue)>> \o Queued(Rest(m_log_queue))
    BY <1>8, RestIsTail DEF Pop
  <2>3. Item(m_log_queue) # NoLine
    BY <2>2, LogAssumption
  <2>4. Pending = Queued(m_log_queue)
    BY <2>1, PendingWithoutHand
  <2>5. Pending' = <<Item(m_log_queue)>> \o Queued(Rest(m_log_queue))
    BY <1>8, <2>3 DEF Pop, Pending
  <2> QED
    BY <1>8, <2>2, <2>4, <2>5 DEF Pop, Flusher, kept, ghosts, Trail
<1>9. ASSUME WriteQueued PROVE TakesOver
  <2>1. hand \in Lines /\ hand # NoLine /\ hand' = NoLine
    BY <1>9, LogAssumption DEF WriteQueued, Flusher, HandHeld, TypeOK
  <2>2. Queued(m_log_queue) \in Seq(Lines)
    BY QueuedIsSequence
  <2>3. Pending' = << >> \o Queued(m_log_queue)
    BY <1>9, <2>1 DEF WriteQueued, Pending
  <2>4. Pending' = Queued(m_log_queue)
    BY <2>2, <2>3, ConcatEmptySeq
  <2>5. Pending = <<hand>> \o Pending'
    BY <2>1, <2>4, PendingWithoutHand
  <2> QED
    BY <1>9, <2>1, <2>2, <2>4, <2>5, FputsAppends
    DEF TakesOver, WriteQueued, EntryOf, Flusher, ghosts
<1>10. ASSUME Midnight PROVE UNCHANGED <<Trail, Pending, bypassed>>
  BY <1>10 DEF Midnight, kept, Trail, Pending
<1>11. ASSUME End PROVE UNCHANGED <<Trail, Pending, bypassed>>
  BY <1>11, FlushKeepsTrail DEF End, ghosts, Pending
<1>12. CASE UNCHANGED vars
  BY <1>12 DEF vars, kept, ghosts, Trail, Pending
<1> QED
  BY <1>1, <1>2, <1>3, <1>4, <1>5, <1>6, <1>7, <1>8, <1>9, <1>10, <1>11, <1>12
  DEF Next, Write

-----------------------------------------------------------------------------
(***************************************************************************)
(* The order of the lines.                                                 *)
(***************************************************************************)
LEMMA BegunStays ==
  ASSUME Typed, [Next]_vars, NEW l \in Lines, Begun(l)
  PROVE  Begun(l)'
<1> USE DEF Typed
<1>1. l.by \in Threads /\ l.n \in Nat
  BY LogAssumption DEF Lines
<1>2. ASSUME NEW t \in Threads, Call(t) PROVE Begun(l)'
  <2>1. /\ written[t] \in Nat /\ written' = [written EXCEPT ![t] = written[t] + 1]
        /\ \A u \in Threads : u # t => line'[u] = line[u]
    BY <1>2, LogAssumption DEF Call, TypeOK
  <2> QED
    BY <1>1, <2>1 DEF Begun, TypeOK
<1>3. ASSUME UNCHANGED <<line, written>> PROVE Begun(l)'
  BY <1>3 DEF Begun
<1>4. ASSUME NEW t \in Threads, NEW from, Return(t, from) PROVE Begun(l)'
  BY <1>1, <1>4 DEF Begun, Return, TypeOK
<1> QED
  BY <1>2, <1>3, <1>4
  DEF Next, Write, Roll, TestFull, Push, WriteDirectly, FlushAfter,
      Wait, WakeSpuriously, Pop, WriteQueued, Flusher, Midnight, End, vars, callers

\* The line a thread has is its newest one.
LEMMA HeldIsNewest ==
  ASSUME Typed, NEW t \in Threads, pc[t] \in Holding
  PROVE  /\ line[t] \in Lines /\ line[t] # NoLine
         /\ line[t].by = t /\ line[t].n = written[t]
         /\ \A l \in Lines : Begun(l) => Precedes(l, line[t]) /\ Differs(l, line[t])
                                         /\ Differs(line[t], l)
<1>1. /\ line[t] \in Lines /\ line[t] # NoLine
      /\ line[t].by = t /\ line[t].n = written[t] /\ written[t] \in Nat
  BY LogAssumption DEF Typed, Held, Lines, TypeOK
<1> QED
  BY <1>1 DEF Begun, Precedes, Differs, Lines

\* Once its thread returns, a line has begun its way.
LEMMA ReturnBegins ==
  ASSUME Typed, NEW t \in Threads, pc[t] \in Holding, NEW from, Return(t, from),
         NEW l, l = line[t]
  PROVE  Begun(l)'
<1>1. line'[t] = NoLine /\ written'[t] = written[t] /\ l.by = t
      /\ l.n = written[t] /\ written[t] \in Nat
  BY HeldIsNewest, LogAssumption DEF Return, Typed, TypeOK
<1> QED
  BY <1>1 DEF Begun

LEMMA OrderedInit == Init => Ordered
<1> SUFFICES ASSUME Init PROVE Ordered
  OBVIOUS
<1>1. Typed
  BY TypedInit
<1>2. Len(Trail) = 0
  BY DEF Init, Trail
<1>3. Len(Pending) = 0
  <2>1. Pending = Queued(m_log_queue)
    BY <1>1, PendingWithoutHand DEF Init
  <2>2. m_log_queue.m_size = 0
    BY DEF Init, Empty
  <2> QED
    BY <1>1, <2>1, <2>2, QueuedIsSequence DEF Typed
<1> QED
  BY <1>1, <1>2, <1>3
  DEF Ordered, AllBegun, TrailOrdered, TrailFirst, PendingOrdered

\* The elements of a sequence and of the same sequence with one more.
LEMMA AppendElements ==
  ASSUME NEW S, NEW s \in Seq(S), NEW e \in S, NEW r, r = Append(s, e)
  PROVE  /\ Len(s) \in Nat /\ Len(r) = Len(s) + 1
         /\ \A i \in 1..Len(s) : r[i] = s[i] /\ s[i] \in S
         /\ \A i \in 1..Len(r) : i \in 1..Len(s) \/ (i = Len(r) /\ r[i] = e)
         /\ r[Len(r)] = e /\ Len(r) \in 1..Len(r)
BY AppendProperties

LEMMA OrderedStep == Ordered /\ [Next]_vars => Ordered'
<1> SUFFICES ASSUME Ordered, [Next]_vars PROVE Ordered'
  OBVIOUS
<1> USE DEF Ordered
<1>0. Typed'
  BY TypedStep
<1>a. /\ Trail \in Seq(Entries) /\ Pending \in Seq(Lines)
      /\ \A i \in 1..Len(Trail) : Trail[i].line \in Lines
      /\ \A i \in 1..Len(Pending) : Pending[i] \in Lines
  BY TrailIsSequence, PendingIsSequence, ElementOfSeq DEF Typed
<1>b. \A l \in Lines : Begun(l) => Begun(l)'
  BY BegunStays
<1>1. CASE UNCHANGED <<Trail, Pending, bypassed>>
  <2>1. AllBegun'
    BY <1>1, <1>a, <1>b DEF AllBegun
  <2>2. TrailOrdered' /\ TrailFirst' /\ PendingOrdered'
    BY <1>1 DEF TrailOrdered, TrailFirst, PendingOrdered
  <2> QED
    BY <1>0, <2>1, <2>2
<1>2. ASSUME NEW t \in Threads, Pushes(t) PROVE Ordered'
  <2>1. /\ Return(t, "push") /\ pc[t] = "push"
        /\ Pending' = Append(Pending, line[t]) /\ UNCHANGED <<Trail, bypassed>>
    BY <1>2 DEF Pushes, Push, Return, GoTo
  <2>2. pc[t] \in Holding
    BY <2>1 DEF Holding
  <2>3. /\ line[t] \in Lines
        /\ \A l \in Lines : Begun(l) => Precedes(l, line[t]) /\ Differs(l, line[t])
    BY <2>2, HeldIsNewest
  <2>4. PICK new \in Lines : new = line[t] /\ Begun(new)'
    BY <2>1, <2>2, <2>3, ReturnBegins
  <2>5. /\ Len(Pending) \in Nat /\ Len(Pending') = Len(Pending) + 1
        /\ \A i \in 1..Len(Pending) : Pending'[i] = Pending[i]
        /\ \A i \in 1..Len(Pending') :
             i \in 1..Len(Pending) \/ (i = Len(Pending') /\ Pending'[i] = line[t])
    BY <1>a, <2>1, <2>3, AppendElements
  <2>6. AllBegun'
    <3>1. ASSUME NEW i \in 1..Len(Pending') PROVE Begun(Pending[i])'
      BY <1>a, <1>b, <2>4, <2>5 DEF AllBegun
    <3>2. ASSUME NEW i \in 1..Len(Trail') PROVE Begun(Trail[i].line)'
      BY <1>a, <1>b, <2>1 DEF AllBegun
    <3> QED
      BY <3>1, <3>2 DEF AllBegun
  <2>7. TrailOrdered'
    BY <2>1 DEF TrailOrdered
  <2>8. TrailFirst'
    BY <1>a, <2>1, <2>3, <2>5 DEF TrailFirst, AllBegun
  <2>9. PendingOrdered'
    <3> SUFFICES ASSUME NEW i \in 1..Len(Pending'), NEW j \in 1..Len(Pending'), i < j
                 PROVE  Precedes(Pending'[i], Pending'[j])
      BY DEF PendingOrdered, Precedes
    <3>1. i \in 1..Len(Pending)
      BY <2>5
    <3>2. CASE j \in 1..Len(Pending)
      BY <2>5, <3>1, <3>2 DEF PendingOrdered
    <3>3. CASE j = Len(Pending') /\ Pending'[j] = line[t]
      BY <1>a, <2>3, <2>5, <3>1, <3>3 DEF AllBegun
    <3> QED
      BY <2>5, <3>2, <3>3
  <2> QED
    BY <1>0, <2>6, <2>7, <2>8, <2>9
\* One more entry at the end of Trail.
<1>c. ASSUME NEW l \in Lines, Trail' = Append(Trail, EntryOf(l)), Begun(l)',
             bypassed \subseteq bypassed',
             \A i \in 1..Len(Trail) :
               LET k == Trail[i].line IN
               Differs(k, l) /\ (Precedes(k, l) \/ k \in bypassed)
      PROVE  /\ TrailOrdered'
             /\ (\A i \in 1..Len(Trail) : Begun(Trail[i].line))'
             /\ \A i \in 1..Len(Trail') :
                  \/ i \in 1..Len(Trail) /\ Trail'[i] = Trail[i]
                  \/ Trail'[i].line = l
  <2>1. EntryOf(l) \in Entries /\ EntryOf(l).line = l
    BY DEF EntryOf, Entries, Typed, TypeOK
  <2>2. /\ Len(Trail) \in Nat /\ Len(Trail') = Len(Trail) + 1
        /\ \A i \in 1..Len(Trail) : Trail'[i] = Trail[i]
        /\ \A i \in 1..Len(Trail') :
             i \in 1..Len(Trail) \/ (i = Len(Trail') /\ Trail'[i] = EntryOf(l))
    BY <1>a, <1>c, <2>1, AppendElements
  <2>3. TrailOrdered'
    <3> SUFFICES ASSUME NEW i \in 1..Len(Trail'), NEW j \in 1..Len(Trail'), i < j
                 PROVE  LET k == Trail'[i].line  m == Trail'[j].line IN
                        Differs(k, m) /\ (Precedes(k, m) \/ k \in bypassed')
      BY DEF TrailOrdered, Differs, Precedes
    <3>1. i \in 1..Len(Trail)
      BY <2>2
    <3>2. CASE j \in 1..Len(Trail)
      BY <1>c, <2>2, <3>1, <3>2 DEF TrailOrdered
    <3>3. CASE j = Len(Trail') /\ Trail'[j] = EntryOf(l)
      BY <1>c, <2>1, <2>2, <3>1, <3>3
    <3> QED
      BY <2>2, <3>2, <3>3
  <2>4. ASSUME NEW i \in 1..Len(Trail') PROVE Begun(Trail[i].line)'
    <3>1. CASE i \in 1..Len(Trail)
      BY <1>a, <1>b, <2>2, <3>1 DEF AllBegun
    <3>2. CASE Trail'[i] = EntryOf(l)
      BY <1>c, <2>1, <3>2
    <3> QED
      BY <2>2, <3>1, <3>2
  <2> QED
    BY <2>1, <2>2, <2>3, <2>4
<1>3. ASSUME NEW t \in Threads, Writes(t) PROVE Ordered'
  <2>1. /\ Return(t, "put") /\ pc[t] = "put"
        /\ Trail' = Append(Trail, EntryOf(line[t])) /\ Pending' = Pending
        /\ bypassed' = IF m_is_async THEN bypassed \cup {line[t]} ELSE bypassed
    BY <1>3 DEF Writes, WriteDirectly, Return, GoTo
  <2>2. pc[t] \in Holding
    BY <2>1 DEF Holding
  <2>3. /\ line[t] \in Lines
        /\ \A l \in Lines : Begun(l) => Precedes(l, line[t]) /\ Differs(l, line[t])
                                        /\ Differs(line[t], l)
    BY <2>2, HeldIsNewest
  <2>4. PICK new \in Lines : new = line[t] /\ Begun(new)'
    BY <2>1, <2>2, <2>3, ReturnBegins
  <2>5. /\ TrailOrdered'
        /\ (\A i \in 1..Len(Trail) : Begun(Trail[i].line))'
        /\ \A i \in 1..Len(Trail') :
             \/ i \in 1..Len(Trail) /\ Trail'[i] = Trail[i]
             \/ Trail'[i].line = line[t]
    <3>1. \A i \in 1..Len(Trail) :
            Differs(Trail[i].line, line[t]) /\ Precedes(Trail[i].line, line[t])
      BY <1>a, <2>3 DEF AllBegun
    <3> QED
      BY <1>c, <2>1, <2>3, <2>4, <3>1
  <2>6. AllBegun'
    <3>1. ASSUME NEW i \in 1..Len(Pending') PROVE Begun(Pending[i])'
      BY <1>a, <1>b, <2>1 DEF AllBegun
    <3> QED
      BY <2>5, <3>1 DEF AllBegun
  <2>7. PendingOrdered'
    BY <2>1 DEF PendingOrdered
  <2>8. ~m_is_async => Len(Pending) = 0
    <3>1. ~m_is_async => Pending = Queued(m_log_queue) /\ m_log_queue.m_size = 0
      BY PendingWithoutHand DEF Typed, OnlyAsync
    <3> QED
      BY <3>1, QueuedIsSequence DEF Typed
  <2>9. TrailFirst'
    <3> SUFFICES ASSUME NEW i \in 1..Len(Trail'), NEW j \in 1..Len(Pending)
                 PROVE  LET k == Trail'[i].line  l == Pending[j] IN
                        Differs(k, l) /\ (Precedes(k, l) \/ k \in bypassed')
      BY <2>1 DEF TrailFirst, Differs, Precedes
    <3>1. CASE i \in 1..Len(Trail) /\ Trail'[i] = Trail[i]
      BY <2>1, <3>1 DEF TrailFirst
    <3>2. CASE Trail'[i].line = line[t]
      BY <1>a, <2>1, <2>3, <2>8, <3>2 DEF AllBegun
    <3> QED
      BY <2>5, <3>1, <3>2
  <2> QED
    BY <1>0, <2>5, <2>6, <2>7, <2>9
<1>4. ASSUME TakesOver PROVE Ordered'
  <2>1. /\ hand \in Lines /\ Trail' = Append(Trail, EntryOf(hand))
        /\ Pending = <<hand>> \o Pending' /\ Pending' \in Seq(Lines)
        /\ bypassed' = bypassed
    BY <1>4 DEF TakesOver
  <2>2. /\ Len(Pending') \in Nat /\ Len(Pending) = Len(Pending') + 1
        /\ Pending[1] = hand
        /\ \A i \in 1..Len(Pending') : Pending'[i] = Pending[i + 1]
    <3>1. <<hand>> \in Seq(Lines) /\ Len(<<hand>>) = 1 /\ <<hand>>[1] = hand
      BY <2>1
    <3>2. /\ Len(<<hand>> \o Pending') = 1 + Len(Pending')
          /\ \A i \in 1..(1 + Len(Pending')) : (<<hand>> \o Pending')[i] =
               IF i <= 1 THEN <<hand>>[i] ELSE Pending'[i - 1]
      BY <2>1, <3>1, ConcatProperties
    <3>3. Len(Pending') \in Nat
      BY <2>1
    <3>4. Pending[1] = hand
      BY <2>1, <3>1, <3>2, <3>3
    <3>5. ASSUME NEW i \in 1..Len(Pending') PROVE Pending'[i] = Pending[i + 1]
      <4>1. i + 1 \in 1..(1 + Len(Pending')) /\ ~(i + 1 <= 1) /\ (i + 1) - 1 = i
        BY <3>3
      <4>2. (<<hand>> \o Pending')[i + 1] = Pending'[(i + 1) - 1]
        BY <3>2, <4>1
      <4> QED
        BY <2>1, <4>1, <4>2
    <3> QED
      BY <2>1, <3>2, <3>3, <3>4, <3>5
  <2>3. /\ 1 \in 1..Len(Pending)
        /\ \A i \in 1..Len(Pending') : i + 1 \in 1..Len(Pending) /\ 1 < i + 1
        /\ \A i, j \in 1..Len(Pending') : i < j => i + 1 < j + 1
    BY <2>2
  <2>4. ASSUME NEW i \in 1..Len(Trail)
        PROVE  LET k == Trail[i].line IN
               Differs(k, hand) /\ (Precedes(k, hand) \/ k \in bypassed)
    BY <2>2, <2>3 DEF TrailFirst, Differs, Precedes
  <2>5. PICK new \in Lines : new = hand /\ Begun(new)'
    <3>1. Begun(hand)
      BY <2>2, <2>3 DEF AllBegun
    <3> QED
      BY <1>b, <2>1, <3>1
  <2>6. /\ TrailOrdered'
        /\ (\A i \in 1..Len(Trail) : Begun(Trail[i].line))'
        /\ \A i \in 1..Len(Trail') :
             \/ i \in 1..Len(Trail) /\ Trail'[i] = Trail[i]
             \/ Trail'[i].line = hand
    BY <1>c, <2>1, <2>4, <2>5
  <2>7. AllBegun'
    <3>1. ASSUME NEW i \in 1..Len(Pending') PROVE Begun(Pending[i])'
      BY <1>a, <1>b, <2>2, <2>3 DEF AllBegun
    <3> QED
      BY <2>6, <3>1 DEF AllBegun
  <2>8. PendingOrdered'
    BY <2>2, <2>3 DEF PendingOrdered
  <2>9. TrailFirst'
    <3> SUFFICES ASSUME NEW i \in 1..Len(Trail'), NEW j \in 1..Len(Pending')
                 PROVE  LET k == Trail'[i].line  l == Pending'[j] IN
                        Differs(k, l) /\ (Precedes(k, l) \/ k \in bypassed)
      BY <2>1 DEF TrailFirst, Differs, Precedes
    <3>1. j + 1 \in 1..Len(Pending) /\ Pending'[j] = Pending[j + 1] /\ 1 < j + 1
      BY <2>2, <2>3
    <3>2. CASE i \in 1..Len(Trail) /\ Trail'[i] = Trail[i]
      BY <3>1, <3>2 DEF TrailFirst
    <3>3. CASE Trail'[i].line = hand
      <4>1. Precedes(hand, Pending[j + 1])
        BY <2>2, <2>3, <3>1 DEF PendingOrdered
      <4> QED
        BY <1>a, <2>1, <3>1, <3>3, <4>1, LogAssumption, SMTT(30)
        DEF Precedes, Differs, Lines
    <3> QED
      BY <2>6, <3>2, <3>3
  <2> QED
    BY <1>0, <2>6, <2>7, <2>8, <2>9
<1> QED
  BY <1>1, <1>2, <1>3, <1>4, Movements

\* The lines of a thread are written in the order of its calls, unless one is
\* written past the queue.
THEOREM WrittenInOrder == Spec => []InOrder
<1>1. Ordered => InOrder
  <2> SUFFICES ASSUME Ordered PROVE InOrder
    OBVIOUS
  <2>1. DOMAIN Trail = 1..Len(Trail)
    BY TrailIsSequence, LenProperties DEF Ordered, Typed
  <2> QED
    BY <2>1 DEF Ordered, TrailOrdered, InOrder, Trail, Precedes
<1> QED
  BY OrderedInit, OrderedStep, <1>1, PTL DEF Spec

-----------------------------------------------------------------------------
(***************************************************************************)
(* No line is lost, except to a push() that two threads tried at a time.   *)
(***************************************************************************)
LEMMA RoomStep == Typed /\ RoomOrCrowd /\ [Next]_vars => RoomOrCrowd'
<1> SUFFICES ASSUME Typed, RoomOrCrowd, [Next]_vars PROVE RoomOrCrowd'
  OBVIOUS
<1> USE DEF Typed
\* Nobody comes to push(), and the queue has as much room as before.
<1>a. ASSUME \A u \in Threads : pc'[u] = "push" =>
               pc[u] = "push" /\ line'[u] = line[u],
             UNCHANGED crowded,
             full(m_log_queue)' => full(m_log_queue)
      PROVE  RoomOrCrowd'
  BY <1>a DEF RoomOrCrowd
<1>1. ASSUME NEW t \in Threads, Call(t) PROVE RoomOrCrowd'
  BY <1>1, <1>a DEF Call, GoTo, TypeOK
<1>2. ASSUME NEW t \in Threads, Roll(t) PROVE RoomOrCrowd'
  BY <1>2, <1>a DEF Roll, GoTo, TypeOK, ghosts
<1>3. ASSUME NEW t \in Threads, TestFull(t) PROVE RoomOrCrowd'
  <2>1. UNCHANGED <<m_log_queue, line>>
    BY <1>3 DEF TestFull
  <2>2. CASE m_is_async /\ ~full(m_log_queue)
    <3>1. /\ pc' = [pc EXCEPT ![t] = "push"] /\ pc[t] = "full"
          /\ crowded' = crowded \cup Crowd(t)
      BY <1>3, <2>2 DEF TestFull, GoTo
    <3>2. ASSUME NEW u \in Threads \ {t}, pc[u] = "push"
          PROVE  line[u] \in crowded' /\ line[t] \in crowded'
      BY <3>1, <3>2 DEF Crowd
    <3> SUFFICES ASSUME NEW u \in Threads, pc'[u] = "push", line[u] \notin crowded'
                 PROVE  \A v \in Threads \ {u} : pc'[v] # "push"
      BY <2>1, <2>2 DEF RoomOrCrowd
    <3>3. u = t
      BY <3>1, <3>2 DEF TypeOK
    <3> QED
      BY <3>1, <3>2, <3>3 DEF TypeOK
  <2>3. CASE ~(m_is_async /\ ~full(m_log_queue))
    BY <1>3, <2>1, <2>3, <1>a DEF TestFull, GoTo, TypeOK
  <2> QED
    BY <2>2, <2>3
<1>4. ASSUME NEW t \in Threads, Push(t) PROVE RoomOrCrowd'
  <2>1. /\ pc[t] = "push" /\ crowded' = crowded
        /\ \A u \in Threads : pc'[u] = "push" =>
             u # t /\ pc[u] = "push" /\ line'[u] = line[u]
    BY <1>4 DEF Push, Return, GoTo, TypeOK
  <2> QED
    BY <2>1 DEF RoomOrCrowd
<1>5. ASSUME NEW t \in Threads, WriteDirectly(t) \/ FlushAfter(t)
      PROVE  RoomOrCrowd'
  BY <1>5, <1>a DEF WriteDirectly, FlushAfter, Return, GoTo, TypeOK, ghosts
<1>6. ASSUME Wait \/ WakeSpuriously \/ WriteQueued PROVE RoomOrCrowd'
  BY <1>6, <1>a DEF Wait, WakeSpuriously, WriteQueued, Flusher, ghosts, callers
<1>7. ASSUME Pop PROVE RoomOrCrowd'
  <2>1. full(m_log_queue)' => full(m_log_queue)
    BY <1>7, MaxSizeAssumption DEF Pop, Rest, full, TypeOK, IsQueue
  <2> QED
    BY <1>7, <2>1, <1>a DEF Pop, Flusher, ghosts, callers
<1>8. CASE Midnight \/ End
  BY <1>8, <1>a DEF Midnight, End, ghosts, callers
<1>9. CASE UNCHANGED vars
  BY <1>9, <1>a DEF vars, ghosts, callers
<1> QED
  BY <1>1, <1>2, <1>3, <1>4, <1>5, <1>6, <1>7, <1>8, <1>9 DEF Next, Write

\* A line that a thread has is left by Push and WriteDirectly alone.
LEMMA LineStays ==
  ASSUME Typed, [Next]_vars, NEW t \in Threads, NEW n \in 1..written[t],
         Is(line[t], t, n)
  PROVE  Is(line[t], t, n)' \/ Push(t) \/ WriteDirectly(t)
<1> USE DEF Typed
<1>1. ASSUME NEW u \in Threads, Call(u) PROVE Is(line[t], t, n)'
  <2>1. u # t
    BY <1>1 DEF Call, GoTo, Held, Holding, Is
  <2> QED
    BY <1>1, <2>1 DEF Call, Is, TypeOK
<1>2. ASSUME NEW u \in Threads, NEW from, Return(u, from), u # t
      PROVE  Is(line[t], t, n)'
  BY <1>2 DEF Return, Is, TypeOK
<1>3. ASSUME UNCHANGED line PROVE Is(line[t], t, n)'
  BY <1>3 DEF Is
<1> QED
  BY <1>1, <1>2, <1>3
  DEF Next, Write, Roll, TestFull, Push, WriteDirectly, FlushAfter,
      Wait, WakeSpuriously, Pop, WriteQueued, Flusher, Midnight, End, vars, callers

LEMMA CrowdedGrows ==
  ASSUME [Next]_vars PROVE crowded \subseteq crowded'
BY DEF Next, Write, Call, Roll, TestFull, Push, WriteDirectly, FlushAfter, Return,
       Wait, WakeSpuriously, Pop, WriteQueued, Flusher, Midnight, End, vars, ghosts

LEMMA WrittenGrows ==
  ASSUME Typed, [Next]_vars, NEW t \in Threads, NEW n \in 1..written'[t]
  PROVE  n \in 1..written[t] \/ Is(line[t], t, n)'
<1>1. ASSUME NEW u \in Threads, Call(u)
      PROVE  n \in 1..written[t] \/ Is(line[t], t, n)'
  <2>1. /\ written[u] \in Nat /\ written' = [written EXCEPT ![u] = written[u] + 1]
        /\ line'[u] = [by |-> u, n |-> written[u] + 1, day |-> day]
        /\ line'[u] \in Lines
    <3>1. written[u] + 1 \in 1..MaxLines
      BY <1>1, LogAssumption DEF Call, Typed, TypeOK
    <3> QED
      BY <1>1, <3>1, LogAssumption DEF Call, Typed, TypeOK, Lines
  <2>2. line'[u] # NoLine
    BY <2>1, LogAssumption
  <2> QED
    BY <2>1, <2>2 DEF Is, Typed, TypeOK
<1>2. ASSUME UNCHANGED written PROVE n \in 1..written[t]
  BY <1>2
<1> QED
  BY <1>1, <1>2
  DEF Next, Write, Roll, TestFull, Push, WriteDirectly, FlushAfter, Return,
      Wait, WakeSpuriously, Pop, WriteQueued, Flusher, Midnight, End, vars, callers

OnTrail(t, n) == \E i \in 1..Len(Trail) : Is(Trail[i].line, t, n)

IsPending(t, n) == \E i \in 1..Len(Pending) : Is(Pending[i], t, n)

LEMMA OnTrailStays ==
  ASSUME Typed, [Next]_vars, NEW t, NEW n, OnTrail(t, n)
  PROVE  OnTrail(t, n)'
<1>1. Trail \in Seq(Entries)
  BY TrailIsSequence DEF Typed
<1>2. ASSUME NEW l \in Lines, Trail' = Append(Trail, EntryOf(l))
      PROVE  OnTrail(t, n)'
  <2>1. EntryOf(l) \in Entries
    BY DEF EntryOf, Entries, Typed, TypeOK
  <2>2. /\ Len(Trail) \in Nat /\ Len(Trail') = Len(Trail) + 1
        /\ \A i \in 1..Len(Trail) : Trail'[i] = Trail[i]
    BY <1>1, <1>2, <2>1, AppendElements
  <2>3. \A i \in 1..Len(Trail) : i \in 1..Len(Trail')
    BY <2>2
  <2> QED
    BY <2>2, <2>3 DEF OnTrail, Is
<1>3. ASSUME NEW u \in Threads, Writes(u) PROVE OnTrail(t, n)'
  <2>1. line[u] \in Lines
    BY <1>3 DEF Writes, WriteDirectly, Return, GoTo, Typed, Held, Holding
  <2> QED
    BY <1>2, <1>3, <2>1 DEF Writes
<1>4. ASSUME UNCHANGED Trail PROVE OnTrail(t, n)'
  BY <1>4 DEF OnTrail, Is
<1> QED
  BY <1>2, <1>3, <1>4, Movements DEF Pushes, TakesOver

\* The line that goes to the end of Trail is there.
LEMMA LastIsOnTrail ==
  ASSUME Typed, NEW l \in Lines, Trail' = Append(Trail, EntryOf(l)),
         NEW t, NEW n, Is(l, t, n)
  PROVE  OnTrail(t, n)'
<1>1. EntryOf(l) \in Entries /\ EntryOf(l).line = l
  BY DEF EntryOf, Entries, Typed, TypeOK
<1>2. Trail'[Len(Trail')] = EntryOf(l) /\ Len(Trail') \in 1..Len(Trail')
  BY <1>1, TrailIsSequence, AppendElements DEF Typed
<1> QED
  BY <1>1, <1>2 DEF OnTrail, Is

LEMMA PendingStays ==
  ASSUME Typed, [Next]_vars, NEW t, NEW n, IsPending(t, n)
  PROVE  IsPending(t, n)' \/ OnTrail(t, n)'
<1>1. Pending \in Seq(Lines)
  BY PendingIsSequence
<1>2. ASSUME NEW u \in Threads, Pushes(u) PROVE IsPending(t, n)'
  <2>1. line[u] \in Lines
    BY <1>2 DEF Pushes, Push, Return, GoTo, Typed, Held, Holding
  <2>2. /\ Len(Pending) \in Nat /\ Len(Pending') = Len(Pending) + 1
        /\ \A i \in 1..Len(Pending) : Pending'[i] = Pending[i]
    BY <1>1, <1>2, <2>1, AppendElements DEF Pushes
  <2>3. \A i \in 1..Len(Pending) : i \in 1..Len(Pending')
    BY <2>2
  <2> QED
    BY <2>2, <2>3 DEF IsPending, Is
<1>3. ASSUME TakesOver PROVE IsPending(t, n)' \/ OnTrail(t, n)'
  <2>1. PICK i \in 1..Len(Pending) : Is(Pending[i], t, n)
    BY DEF IsPending
  <2>2. /\ hand \in Lines /\ Pending = <<hand>> \o Pending'
        /\ Pending' \in Seq(Lines)
    BY <1>3 DEF TakesOver
  <2>3. /\ Len(Pending') \in Nat
        /\ Len(Pending) = 1 + Len(Pending')
        /\ Pending[i] = IF i <= 1 THEN hand ELSE Pending'[i - 1]
    <3>1. <<hand>> \in Seq(Lines) /\ Len(<<hand>>) = 1 /\ <<hand>>[1] = hand
      BY <2>2
    <3>2. /\ Len(<<hand>> \o Pending') = 1 + Len(Pending')
          /\ \A j \in 1..(1 + Len(Pending')) : (<<hand>> \o Pending')[j] =
               IF j <= 1 THEN <<hand>>[j] ELSE Pending'[j - 1]
      BY <2>2, <3>1, ConcatProperties
    <3>3. Len(Pending') \in Nat /\ (i <= 1 => i = 1)
      BY <2>2
    <3> QED
      BY <2>2, <3>1, <3>2, <3>3
  <2>4. CASE i <= 1
    <3>1. Is(hand, t, n)
      BY <2>1, <2>3, <2>4
    <3> QED
      BY <1>3, <2>2, <3>1, LastIsOnTrail DEF TakesOver
  <2>5. CASE ~(i <= 1)
    <3>1. i - 1 \in 1..Len(Pending')
      BY <2>3, <2>5
    <3>2. Is(Pending'[i - 1], t, n)
      BY <2>1, <2>3, <2>5
    <3> QED
      BY <3>1, <3>2 DEF IsPending, Is
  <2> QED
    BY <2>4, <2>5
<1>4. ASSUME UNCHANGED Pending PROVE IsPending(t, n)'
  BY <1>4 DEF IsPending, Is
<1> QED
  BY <1>2, <1>3, <1>4, Movements DEF Writes

LEMMA TrackedInit == Init => Tracked
<1> SUFFICES ASSUME Init PROVE Tracked
  OBVIOUS
<1>1. RoomOrCrowd
  BY DEF Init, RoomOrCrowd
<1>2. Present
  <2>1. \A t \in Threads : written[t] = 0
    BY DEF Init
  <2>2. \A t \in Threads : 1..written[t] = {}
    BY <2>1
  <2> QED
    BY <2>2 DEF Present
<1> QED
  BY <1>1, <1>2, OrderedInit DEF Tracked

LEMMA TrackedStep == Tracked /\ [Next]_vars => Tracked'
<1> SUFFICES ASSUME Tracked, [Next]_vars PROVE Tracked'
  OBVIOUS
<1>1. Typed /\ Ordered' /\ RoomOrCrowd'
  BY OrderedStep, RoomStep DEF Tracked, Ordered
<1>2. ASSUME NEW t \in Threads, NEW n \in 1..written'[t]
      PROVE  OnTrail(t, n)' \/ IsPending(t, n)' \/ Is(line[t], t, n)'
             \/ IsCrowded(t, n)'
  <2>1. CASE ~(n \in 1..written[t])
    BY <1>1, <2>1, WrittenGrows
  <2>2. CASE n \in 1..written[t]
    <3>1. OnTrail(t, n) \/ IsPending(t, n) \/ Is(line[t], t, n) \/ IsCrowded(t, n)
      BY <2>2 DEF Tracked, Present, OnTrail, IsPending
    <3>2. CASE OnTrail(t, n)
      BY <1>1, <3>2, OnTrailStays
    <3>3. CASE IsPending(t, n)
      BY <1>1, <3>3, PendingStays
    <3>4. CASE IsCrowded(t, n)
      BY <3>4, CrowdedGrows DEF IsCrowded, Is
    <3>5. CASE Is(line[t], t, n)
      <4>1. Is(line[t], t, n)' \/ Push(t) \/ WriteDirectly(t)
        BY <1>1, <2>2, <3>5, LineStays
      <4>2. CASE WriteDirectly(t)
        <5>1. Writes(t) /\ line[t] \in Lines
          BY <1>1, <4>2, WriteMoves
          DEF WriteDirectly, Return, GoTo, Typed, Held, Holding
        <5> QED
          BY <1>1, <3>5, <5>1, LastIsOnTrail DEF Writes
      <4>3. CASE Push(t) /\ full(m_log_queue)
        <5>1. line[t] \in crowded
          BY <4>3 DEF Tracked, RoomOrCrowd, Push, Return, GoTo
        <5> QED
          BY <3>5, <5>1, CrowdedGrows DEF IsCrowded, Is
      <4>4. CASE Push(t) /\ ~full(m_log_queue)
        <5>1. line[t] \in Lines /\ Pending' = Append(Pending, line[t])
          BY <1>1, <4>4, PushMoves
          DEF Pushes, Push, Return, GoTo, Typed, Held, Holding
        <5>2. /\ Len(Pending') \in 1..Len(Pending')
              /\ Pending'[Len(Pending')] = line[t]
          BY <1>1, <5>1, PendingIsSequence, AppendElements
        <5> QED
          BY <3>5, <5>2 DEF IsPending, Is
      <4> QED
        BY <4>1, <4>2, <4>3, <4>4
    <3> QED
      BY <3>1, <3>2, <3>3, <3>4, <3>5
  <2> QED
    BY <2>1, <2>2
<1>3. Present'
  BY <1>2 DEF Present, OnTrail, IsPending
<1> QED
  BY <1>1, <1>3 DEF Tracked

\* Of the numbers of copies in the five places, one is 1 at most.
LEMMA AtMostOne ==
  ASSUME NEW A, \A x, y \in A : x = y
  PROVE  Cardinality(A) = IF A = {} THEN 0 ELSE 1
<1>1. CASE A = {}
  BY <1>1, FS_EmptySet
<1>2. CASE \E x \in A : A = {x}
  BY <1>2, FS_Singleton
<1> QED
  BY <1>1, <1>2

LEMMA TrailParts ==
  ASSUME TypeOK
  PROVE  /\ Len(log) \in Nat /\ DOMAIN log = 1..Len(log)
         /\ \A i \in DOMAIN log :
              i \in 1..Len(Trail) /\ Trail[i] = log[i] /\ i <= Len(log)
         /\ \A i \in DOMAIN stream :
              /\ Len(log) + i \in 1..Len(Trail) /\ Trail[Len(log) + i] = stream[i]
              /\ i \in Nat \ {0}
         /\ \A i \in 1..Len(Trail) :
              IF i <= Len(log) THEN i \in DOMAIN log
              ELSE i - Len(log) \in DOMAIN stream /\ Trail[i] = stream[i - Len(log)]
<1>1. /\ log \in Seq(Entries) /\ stream \in Seq(Entries)
      /\ Len(log) \in Nat /\ Len(stream) \in Nat
      /\ DOMAIN log = 1..Len(log) /\ DOMAIN stream = 1..Len(stream)
  BY TrailIsSequence, LenProperties
<1>2. /\ Len(Trail) = Len(log) + Len(stream)
      /\ \A i \in 1..(Len(log) + Len(stream)) :
           Trail[i] = IF i <= Len(log) THEN log[i] ELSE stream[i - Len(log)]
  BY <1>1, ConcatProperties DEF Trail
<1>3. ASSUME NEW i \in DOMAIN log
      PROVE  i \in 1..Len(Trail) /\ Trail[i] = log[i] /\ i <= Len(log)
  BY <1>1, <1>2, <1>3
<1>4. ASSUME NEW i \in DOMAIN stream
      PROVE  /\ Len(log) + i \in 1..Len(Trail) /\ Trail[Len(log) + i] = stream[i]
             /\ i \in Nat \ {0}
  <2>1. i \in 1..Len(stream)
    BY <1>1
  <2>2. /\ Len(log) + i \in 1..(Len(log) + Len(stream)) /\ ~(Len(log) + i <= Len(log))
        /\ (Len(log) + i) - Len(log) = i
    BY <1>1, <2>1
  <2>3. Trail[Len(log) + i] = stream[(Len(log) + i) - Len(log)]
    BY <1>2, <2>2
  <2> QED
    BY <1>2, <2>1, <2>2, <2>3
<1>5. ASSUME NEW i \in 1..Len(Trail)
      PROVE  IF i <= Len(log) THEN i \in DOMAIN log
             ELSE i - Len(log) \in DOMAIN stream /\ Trail[i] = stream[i - Len(log)]
  BY <1>1, <1>2
<1> QED
  BY <1>1, <1>3, <1>4, <1>5

LEMMA PendingParts ==
  ASSUME Typed
  PROVE  /\ DOMAIN Queued(m_log_queue) = 1..Len(Queued(m_log_queue))
         /\ hand = NoLine => Pending = Queued(m_log_queue)
         /\ hand # NoLine =>
              /\ 1 \in 1..Len(Pending) /\ Pending[1] = hand
              /\ \A i \in DOMAIN Queued(m_log_queue) :
                   /\ i \in Nat \ {0} /\ i + 1 \in 1..Len(Pending)
                   /\ Pending[i + 1] = Queued(m_log_queue)[i]
              /\ \A i \in 1..Len(Pending) :
                   \/ i = 1
                   \/ /\ i - 1 \in DOMAIN Queued(m_log_queue)
                      /\ Pending[i] = Queued(m_log_queue)[i - 1]
<1> DEFINE Q == Queued(m_log_queue)
<1>1. Q \in Seq(Lines) /\ Len(Q) \in Nat /\ DOMAIN Q = 1..Len(Q)
  BY QueuedIsSequence, LenProperties DEF Typed
<1>2. CASE hand = NoLine
  BY <1>1, <1>2, PendingWithoutHand
<1>3. CASE hand # NoLine
  <2>1. <<hand>> \in Seq(Lines) /\ Len(<<hand>>) = 1 /\ <<hand>>[1] = hand
    BY <1>3 DEF Typed, TypeOK
  <2>2. Pending = <<hand>> \o Q
    BY <1>3, PendingWithoutHand
  <2> HIDE DEF Q
  <2>3. /\ Len(Pending) = 1 + Len(Q)
        /\ \A i \in 1..(1 + Len(Q)) :
             Pending[i] = IF i <= 1 THEN <<hand>>[i] ELSE Q[i - 1]
    BY <1>1, <2>1, <2>2, ConcatProperties
  <2>4. 1 \in 1..Len(Pending) /\ Pending[1] = hand
    BY <1>1, <2>1, <2>3
  <2>5. ASSUME NEW i \in DOMAIN Q
        PROVE  i \in Nat \ {0} /\ i + 1 \in 1..Len(Pending) /\ Pending[i + 1] = Q[i]
    <3>1. /\ i \in 1..Len(Q) /\ i + 1 \in 1..(1 + Len(Q))
          /\ ~(i + 1 <= 1) /\ (i + 1) - 1 = i
      BY <1>1
    <3>2. Pending[i + 1] = Q[(i + 1) - 1]
      BY <2>3, <3>1
    <3> QED
      BY <2>3, <3>1, <3>2
  <2>6. ASSUME NEW i \in 1..Len(Pending), i # 1
        PROVE  i - 1 \in DOMAIN Q /\ Pending[i] = Q[i - 1]
    BY <1>1, <2>3, <2>6
  <2>7. DOMAIN Q = 1..Len(Q)
    BY <1>1
  <2> USE DEF Q
  <2> QED
    BY <1>3, <2>4, <2>5, <2>6, <2>7
<1> QED
  BY <1>2, <1>3

\* A line is on Trail, pending, or with a thread, and there once.
LEMMA Exclusive ==
  ASSUME Ordered, NEW t \in Threads, NEW n
  PROVE  /\ \A i, j \in 1..Len(Trail) :
              Is(Trail[i].line, t, n) /\ Is(Trail[j].line, t, n) => i = j
         /\ \A i, j \in 1..Len(Pending) :
              Is(Pending[i], t, n) /\ Is(Pending[j], t, n) => i = j
         /\ ~(OnTrail(t, n) /\ IsPending(t, n))
         /\ \A u \in Threads : Is(line[u], t, n) =>
              u = t /\ ~OnTrail(t, n) /\ ~IsPending(t, n)
<1>1. ASSUME NEW i \in 1..Len(Trail), NEW j \in 1..Len(Trail), i < j
      PROVE  ~(Is(Trail[i].line, t, n) /\ Is(Trail[j].line, t, n))
  BY <1>1 DEF Ordered, TrailOrdered, Differs, Is
<1>2. ASSUME NEW i \in 1..Len(Pending), NEW j \in 1..Len(Pending), i < j
      PROVE  ~(Is(Pending[i], t, n) /\ Is(Pending[j], t, n))
  <2>1. Precedes(Pending[i], Pending[j])
    BY <1>2 DEF Ordered, PendingOrdered
  <2>2. Pending[i].n \in Nat
    <3>1. Pending[i] \in Lines
      BY PendingIsSequence, ElementOfSeq DEF Ordered
    <3> QED
      BY <3>1, LogAssumption DEF Lines
  <2> QED
    BY <2>1, <2>2 DEF Precedes, Is
<1>3. ~(OnTrail(t, n) /\ IsPending(t, n))
  BY DEF OnTrail, IsPending, Ordered, TrailFirst, Differs, Is
<1>4. ASSUME NEW u \in Threads, Is(line[u], t, n)
      PROVE  u = t /\ ~OnTrail(t, n) /\ ~IsPending(t, n)
  <2>1. pc[u] \in Holding /\ u = t /\ n = written[t] /\ written[t] \in Nat
    BY <1>4 DEF Is, Ordered, Typed, Held, TypeOK
  <2>2. line[t] # NoLine
    BY <1>4, <2>1 DEF Is
  <2> QED
    BY <2>1, <2>2 DEF Ordered, AllBegun, Begun, OnTrail, IsPending, Is
<1>5. Len(Trail) \in Nat /\ Len(Pending) \in Nat
  BY TrailIsSequence, PendingIsSequence DEF Ordered, Typed
<1>6. ASSUME NEW i \in 1..Len(Trail), NEW j \in 1..Len(Trail),
             Is(Trail[i].line, t, n), Is(Trail[j].line, t, n)
      PROVE  i = j
  <2>1. ~(i < j) /\ ~(j < i)
    BY <1>1, <1>6
  <2> QED
    BY <1>5, <2>1
<1>7. ASSUME NEW i \in 1..Len(Pending), NEW j \in 1..Len(Pending),
             Is(Pending[i], t, n), Is(Pending[j], t, n)
      PROVE  i = j
  <2>1. ~(i < j) /\ ~(j < i)
    BY <1>2, <1>7
  <2> QED
    BY <1>5, <2>1
<1> QED
  BY <1>3, <1>4, <1>6, <1>7

\* A line that was begun is somewhere exactly once, or was lost to a push()
\* that two threads were about to make at the same time.
THEOREM LinesAreKept == Spec => []NothingLost
<1>1. Tracked => NothingLost
  <2> SUFFICES ASSUME Tracked, NEW t \in Threads, NEW n \in 1..written[t]
               PROVE  Copies(t, n) = 1 \/ (Copies(t, n) = 0 /\ IsCrowded(t, n))
    BY DEF NothingLost
  <2> DEFINE Q == Queued(m_log_queue)
             L == Places(t, n, log)
             S == Places(t, n, stream)
             W == {i \in DOMAIN Q : Is(Q[i], t, n)}
             H == {u \in Threads : Is(line[u], t, n)}
  <2>0. Ordered /\ Typed /\ TypeOK
    BY DEF Tracked, Ordered, Typed
  <2>1. (\A i, j \in L : i = j) /\ (\A i, j \in S : i = j) /\ ~(L # {} /\ S # {})
    <3>1. \A i \in L : i \in DOMAIN log /\ i \in 1..Len(Trail)
                       /\ Is(Trail[i].line, t, n) /\ i <= Len(log)
      BY <2>0, TrailParts DEF Places
    <3>2. \A i \in S : /\ Len(log) + i \in 1..Len(Trail) /\ i \in Nat \ {0}
                       /\ Is(Trail[Len(log) + i].line, t, n)
      BY <2>0, TrailParts DEF Places
    <3>3. ASSUME NEW i \in S, NEW j \in S PROVE i = j
      <4>1. Len(log) + i = Len(log) + j
        BY <2>0, <3>2, Exclusive
      <4> QED
        BY <2>0, <3>2, <4>1, TrailParts
    <3>4. ASSUME NEW i \in L, NEW j \in S PROVE FALSE
      <4>1. i = Len(log) + j
        BY <2>0, <3>1, <3>2, Exclusive
      <4> QED
        BY <2>0, <3>1, <3>2, <4>1, TrailParts
    <3>5. ASSUME NEW i \in L, NEW j \in L PROVE i = j
      BY <2>0, <3>1, Exclusive
    <3> QED
      BY <3>3, <3>4, <3>5
  <2>2. L # {} \/ S # {} <=> OnTrail(t, n)
    <3>1. ASSUME L # {} PROVE OnTrail(t, n)
      BY <2>0, <3>1, TrailParts DEF Places, OnTrail
    <3>2. ASSUME S # {} PROVE OnTrail(t, n)
      BY <2>0, <3>2, TrailParts DEF Places, OnTrail
    <3>3. ASSUME OnTrail(t, n) PROVE L # {} \/ S # {}
      <4>1. PICK i \in 1..Len(Trail) : Is(Trail[i].line, t, n)
        BY <3>3 DEF OnTrail
      <4>2. CASE i <= Len(log)
        BY <2>0, <4>1, <4>2, TrailParts DEF Places
      <4>3. CASE ~(i <= Len(log))
        <5>1. i - Len(log) \in S
          BY <2>0, <4>1, <4>3, TrailParts DEF Places
        <5> QED
          BY <5>1
      <4> QED
        BY <4>2, <4>3
    <3> QED
      BY <3>1, <3>2, <3>3
  <2>3. /\ \A i, j \in W : i = j
        /\ ~(W # {} /\ Is(hand, t, n))
        /\ W # {} \/ Is(hand, t, n) <=> IsPending(t, n)
    <3>1. CASE hand = NoLine
      BY <2>0, <3>1, PendingParts, Exclusive DEF IsPending, Is
    <3>2. CASE hand # NoLine
      <4>1. \A i \in W : /\ i \in Nat \ {0} /\ i + 1 \in 1..Len(Pending)
                         /\ Is(Pending[i + 1], t, n)
        BY <2>0, <3>2, PendingParts
      <4>2. ASSUME NEW i \in W, NEW j \in W PROVE i = j
        <5>1. i + 1 = j + 1
          BY <2>0, <4>1, Exclusive
        <5> QED
          BY <4>1, <5>1
      <4>3. ASSUME NEW i \in W, Is(hand, t, n) PROVE FALSE
        <5>1. 1 \in 1..Len(Pending) /\ Is(Pending[1], t, n)
          BY <2>0, <3>2, <4>3, PendingParts
        <5>2. i + 1 = 1
          BY <2>0, <4>1, <5>1, Exclusive
        <5> QED
          BY <4>1, <5>2
      <4>4. ASSUME W # {} \/ Is(hand, t, n) PROVE IsPending(t, n)
        BY <2>0, <3>2, <4>1, <4>4, PendingParts DEF IsPending
      <4>5. ASSUME IsPending(t, n) PROVE W # {} \/ Is(hand, t, n)
        <5>1. PICK i \in 1..Len(Pending) : Is(Pending[i], t, n)
          BY <4>5 DEF IsPending
        <5>2. i = 1 \/ i - 1 \in W
          BY <2>0, <3>2, <5>1, PendingParts
        <5> QED
          BY <2>0, <3>2, <5>1, <5>2, PendingParts
      <4> QED
        BY <4>2, <4>3, <4>4, <4>5
    <3> QED
      BY <3>1, <3>2
  <2>4. /\ \A u, v \in H : u = v
        /\ H # {} => ~OnTrail(t, n) /\ ~IsPending(t, n)
        /\ Is(line[t], t, n) => H # {}
    BY <2>0, Exclusive
  <2>5. ~(OnTrail(t, n) /\ IsPending(t, n))
    BY <2>0, Exclusive
  <2>6. OnTrail(t, n) \/ IsPending(t, n) \/ Is(line[t], t, n) \/ IsCrowded(t, n)
    BY DEF Tracked, Present, OnTrail, IsPending
  <2>7. /\ Cardinality(L) = IF L = {} THEN 0 ELSE 1
        /\ Cardinality(S) = IF S = {} THEN 0 ELSE 1
        /\ Cardinality(W) = IF W = {} THEN 0 ELSE 1
        /\ Cardinality(H) = IF H = {} THEN 0 ELSE 1
    BY <2>1, <2>3, <2>4, AtMostOne
  <2>8. Copies(t, n) = Cardinality(L) + Cardinality(S) + Cardinality(W)
                       + Cardinality(H) + (IF Is(hand, t, n) THEN 1 ELSE 0)
    BY DEF Copies
  <2> HIDE DEF L, S, W, H
  <2> QED
    BY <2>1, <2>2, <2>3, <2>4, <2>5, <2>6, <2>7, <2>8
<1> QED
  BY TrackedInit, TrackedStep, <1>1, PTL DEF Spec

-----------------------------------------------------------------------------
(***************************************************************************)
(* The file a line is in.                                                  *)
(***************************************************************************)
UnderWayParts ==
  \A l : l \in UnderWay <=>
    /\ l \in Lines
    /\ \/ \E t \in Threads : pc[t] = "roll" /\ line[t] = l
       \/ HasRolled(l)

LEMMA UnderWayIs == Typed => UnderWayParts
<1> SUFFICES ASSUME Typed, NEW l
             PROVE  l \in UnderWay <=>
                      /\ l \in Lines
                      /\ \/ \E t \in Threads : pc[t] = "roll" /\ line[t] = l
                         \/ HasRolled(l)
  BY DEF UnderWayParts
<1> DEFINE Q == Queued(m_log_queue)
<1>1. /\ \A i \in DOMAIN Q : Q[i] \in Lines
      /\ ToSet(Q) = {Q[i] : i \in DOMAIN Q}
  BY QueuedIsSequence, LenProperties DEF Typed, ToSet
<1>2. l \in UnderWay <=>
        /\ l # NoLine
        /\ \/ \E t \in Threads : line[t] = l
           \/ \E i \in DOMAIN Q : Q[i] = l
           \/ hand = l
  BY <1>1 DEF UnderWay
<1>3. \A t \in Threads : line[t] \in Lines \cup {NoLine}
  BY DEF Typed, TypeOK
<1>4. NoLine \notin Lines
  BY LogAssumption
<1>5. l \in Lines =>
        ((\E i \in 1..Len(Pending) : Pending[i] = l)
           <=> hand = l \/ \E i \in DOMAIN Q : Q[i] = l)
  <2>1. CASE hand = NoLine
    BY <1>4, <2>1, PendingParts
  <2>2. CASE hand # NoLine
    <3>1. ASSUME NEW i \in DOMAIN Q PROVE i + 1 \in 1..Len(Pending) /\ Pending[i + 1] = Q[i]
      BY <2>2, PendingParts
    <3>2. 1 \in 1..Len(Pending) /\ Pending[1] = hand
      BY <2>2, PendingParts
    <3>3. ASSUME NEW i \in 1..Len(Pending)
          PROVE  i = 1 \/ (i - 1 \in DOMAIN Q /\ Pending[i] = Q[i - 1])
      BY <2>2, PendingParts
    <3> HIDE DEF Q
    <3> QED
      BY <3>1, <3>2, <3>3
  <2> QED
    BY <2>1, <2>2
<1>6. hand \in Lines \cup {NoLine}
  BY DEF Typed, TypeOK
<1> QED
  BY <1>1, <1>2, <1>3, <1>4, <1>5, <1>6 DEF HasRolled

\* What was in Pending after a step was there before, or came from a thread.
LEMMA PendingComesFrom ==
  ASSUME Typed, [Next]_vars, NEW i \in 1..Len(Pending')
  PROVE  \/ \E j \in 1..Len(Pending) : Pending[j] = Pending'[i]
         \/ \E t \in Threads : Push(t) /\ line[t] = Pending'[i]
<1>1. ASSUME NEW t \in Threads, Pushes(t)
      PROVE  \/ \E j \in 1..Len(Pending) : Pending[j] = Pending'[i]
             \/ line[t] = Pending'[i]
  <2>1. line[t] \in Lines
    BY <1>1 DEF Pushes, Push, Return, GoTo, Typed, Held, Holding
  <2> QED
    BY <1>1, <2>1, PendingIsSequence, AppendElements DEF Pushes
<1>2. ASSUME TakesOver
      PROVE  \E j \in 1..Len(Pending) : Pending[j] = Pending'[i]
  <2>1. /\ hand \in Lines /\ Pending = <<hand>> \o Pending'
        /\ Pending' \in Seq(Lines)
    BY <1>2 DEF TakesOver
  <2>2. <<hand>> \in Seq(Lines) /\ Len(<<hand>>) = 1 /\ Len(Pending') \in Nat
    BY <2>1
  <2>3. /\ Len(Pending) = 1 + Len(Pending')
        /\ \A j \in 1..(1 + Len(Pending')) :
             Pending[j] = IF j <= 1 THEN <<hand>>[j] ELSE Pending'[j - 1]
    BY <2>1, <2>2, ConcatProperties
  <2>4. i + 1 \in 1..(1 + Len(Pending')) /\ ~(i + 1 <= 1) /\ (i + 1) - 1 = i
    BY <2>2
  <2>5. Pending[i + 1] = Pending'[(i + 1) - 1]
    BY <2>3, <2>4
  <2> QED
    BY <2>3, <2>4, <2>5
<1> QED
  BY <1>1, <1>2, Movements DEF Pushes, Writes

LEMMA RolledBefore ==
  ASSUME Typed, [Next]_vars, NEW l \in Lines, HasRolled(l)'
  PROVE  HasRolled(l) \/ \E t \in Threads : Roll(t) /\ line[t] = l
<1> USE DEF Typed
<1>1. CASE \E i \in 1..Len(Pending') : Pending'[i] = l
  <2>1. \/ \E j \in 1..Len(Pending) : Pending[j] = l
        \/ \E t \in Threads : Push(t) /\ line[t] = l
    BY <1>1, PendingComesFrom
  <2> QED
    BY <2>1 DEF HasRolled, Push, Return, GoTo
<1>2. ASSUME NEW t \in Threads, pc'[t] # "roll", line'[t] = l
      PROVE  HasRolled(l) \/ (Roll(t) /\ line[t] = l)
  <2>1. l # NoLine
    BY LogAssumption
  <2>2. ASSUME NEW u \in Threads, Call(u) PROVE HasRolled(l)
    BY <1>2, <2>2 DEF Call, GoTo, TypeOK, HasRolled
  <2>3. ASSUME NEW u \in Threads, Roll(u)
        PROVE  HasRolled(l) \/ (Roll(t) /\ line[t] = l)
    BY <1>2, <2>3 DEF Roll, GoTo, TypeOK, HasRolled
  <2>4. ASSUME NEW u \in Threads, NEW from \in {"push", "put"}, Return(u, from)
        PROVE  HasRolled(l)
    BY <1>2, <2>1, <2>4 DEF Return, GoTo, TypeOK, HasRolled
  <2>5. ASSUME NEW u \in Threads, TestFull(u) \/ FlushAfter(u)
        PROVE  HasRolled(l)
    BY <1>2, <2>5 DEF TestFull, FlushAfter, GoTo, TypeOK, HasRolled
  <2>6. ASSUME UNCHANGED <<pc, line>> PROVE HasRolled(l)
    BY <1>2, <2>6 DEF HasRolled
  <2> QED
    BY <2>2, <2>3, <2>4, <2>5, <2>6
    DEF Next, Write, Push, WriteDirectly, Wait, WakeSpuriously, Pop, WriteQueued,
        Flusher, Midnight, End, vars, callers
<1> QED
  BY <1>1, <1>2 DEF HasRolled

LEMMA UnderWayNext == Typed' => UnderWayParts'
BY UnderWayIs, PTL

LEMMA UnderWayBefore ==
  ASSUME Typed, Typed', [Next]_vars, NEW l, l \in UnderWay'
  PROVE  l \in UnderWay \/ \E t \in Threads : Call(t) /\ line'[t] = l
<1>1. /\ l \in Lines
      /\ \/ \E t \in Threads : pc'[t] = "roll" /\ line'[t] = l
         \/ HasRolled(l)'
  BY UnderWayNext DEF UnderWayParts
<1>1a. /\ (\E t \in Threads : pc[t] = "roll" /\ line[t] = l) => l \in UnderWay
       /\ HasRolled(l) => l \in UnderWay
  BY <1>1, UnderWayIs DEF UnderWayParts
<1>2. CASE HasRolled(l)'
  <2>1. HasRolled(l) \/ \E t \in Threads : pc[t] = "roll" /\ line[t] = l
    BY <1>1, <1>2, RolledBefore DEF Roll, GoTo
  <2> QED
    BY <1>1a, <2>1
<1>3. ASSUME NEW t \in Threads, pc'[t] = "roll", line'[t] = l
      PROVE  Call(t) \/ (pc[t] = "roll" /\ line[t] = l)
  <2> USE DEF Typed, TypeOK
  <2>1. ASSUME NEW u \in Threads, Call(u)
        PROVE  Call(t) \/ (pc[t] = "roll" /\ line[t] = l)
    <3>1. CASE u = t
      BY <2>1, <3>1
    <3>2. CASE u # t
      <4>1. pc'[t] = pc[t] /\ line'[t] = line[t]
        BY <2>1, <3>2 DEF Call, GoTo
      <4> QED
        BY <1>3, <4>1
    <3> QED
      BY <3>1, <3>2
  <2>2. ASSUME NEW u \in Threads, NEW from \in {"push", "put"}, Return(u, from)
        PROVE  pc[t] = "roll" /\ line[t] = l
    BY <1>3, <2>2 DEF Return, GoTo
  <2>3. ASSUME NEW u \in Threads, Roll(u) \/ TestFull(u) \/ FlushAfter(u)
        PROVE  pc[t] = "roll" /\ line[t] = l
    BY <1>3, <2>3 DEF Roll, TestFull, FlushAfter, GoTo
  <2>4. ASSUME UNCHANGED <<pc, line>> PROVE pc[t] = "roll" /\ line[t] = l
    BY <1>3, <2>4
  <2> QED
    BY <2>1, <2>2, <2>3, <2>4
    DEF Next, Write, Push, WriteDirectly, Wait, WakeSpuriously, Pop, WriteQueued,
        Flusher, Midnight, End, vars, callers
<1> QED
  BY <1>1, <1>1a, <1>2, <1>3

LEMMA DatedInit == Init => Dated
<1> SUFFICES ASSUME Init PROVE Dated
  OBVIOUS
<1>1. Ordered /\ Typed
  BY OrderedInit DEF Ordered
<1>2. Len(Trail) = 0
  BY DEF Init, Trail
<1>3. \A l \in Lines : ~HasRolled(l)
  <2>1. Len(Pending) = 0
    <3>1. Pending = Queued(m_log_queue)
      BY <1>1, PendingWithoutHand DEF Init
    <3>2. m_log_queue.m_size = 0
      BY DEF Init, Empty
    <3> QED
      BY <1>1, <3>1, <3>2, QueuedIsSequence DEF Typed
  <2>2. \A t \in Threads : line[t] = NoLine
    BY DEF Init
  <2> QED
    BY <2>1, <2>2, LogAssumption DEF HasRolled
<1>4. UnderWay = {}
  <2>1. \A t \in Threads : line[t] = NoLine
    BY DEF Init
  <2>2. ASSUME NEW l \in UnderWay PROVE FALSE
    BY <1>1, <1>3, <2>1, UnderWayIs, LogAssumption DEF UnderWayParts
  <2> QED
    BY <2>2
<1>5. m_fp.day = m_today
  BY DEF Init
<1> QED
  BY <1>1, <1>2, <1>3, <1>4, <1>5 DEF Dated, OfToday, FileOfDay, Filed

LEMMA MidnightGrows ==
  ASSUME [Next]_vars PROVE atMidnight \subseteq atMidnight'
BY DEF Next, Write, Call, Roll, TestFull, Push, WriteDirectly, FlushAfter, Return,
       Wait, WakeSpuriously, Pop, WriteQueued, Flusher, Midnight, End, vars, ghosts

LEMMA OfTodayStep == Dated /\ Typed' /\ [Next]_vars => OfToday'
<1> SUFFICES ASSUME Dated, Typed', [Next]_vars PROVE OfToday'
  OBVIOUS
<1> USE DEF Dated
<1>1. ASSUME NEW t \in Threads, Call(t) PROVE OfToday'
  <2>1. PICK new : new = line'[t]
    OBVIOUS
  <2>2. /\ new = [by |-> t, n |-> written[t] + 1, day |-> day] /\ new.day = day
        /\ day' = day
        /\ atMidnight' = atMidnight \cup {new : l \in {u \in UnderWay : u.day # day}}
    BY <1>1, <2>1 DEF Call, Typed, TypeOK
  <2>3. ASSUME NEW u \in Threads, Call(u) PROVE u = t
    BY <1>1, <2>3 DEF Call, GoTo, Typed, TypeOK
  <2>4. \A l : l \in UnderWay' => l \in UnderWay \/ l = new
    BY <2>1, <2>3, UnderWayBefore
  <2>5. ASSUME NEW l \in UnderWay', l \notin atMidnight' PROVE \A k \in UnderWay : k.day = day
    <3>1. CASE l \in UnderWay
      BY <2>2, <2>5, <3>1 DEF OfToday
    <3>2. CASE l = new
      BY <2>2, <2>5, <3>2
    <3> QED
      BY <2>4, <2>5, <3>1, <3>2
  <2> QED
    BY <2>2, <2>4, <2>5 DEF OfToday
<1>2. CASE Midnight
  <2>1. ~\E t \in Threads : Call(t)
    BY <1>2, LogAssumption DEF Midnight, Call, Typed, TypeOK
  <2>2. UnderWay' \subseteq atMidnight'
    BY <1>2, <2>1, UnderWayBefore DEF Midnight
  <2> QED
    BY <2>2 DEF OfToday
<1>3. CASE ~(\E t \in Threads : Call(t)) /\ UNCHANGED day
  <2>1. UnderWay' \subseteq UnderWay
    BY <1>3, UnderWayBefore
  <2> QED
    BY <1>3, <2>1, MidnightGrows DEF OfToday
<1>4. UNCHANGED day \/ Midnight
  BY DEF Next, Write, Call, Roll, TestFull, Push, WriteDirectly, FlushAfter, Return,
         Wait, WakeSpuriously, Pop, WriteQueued, Flusher, End, vars
<1> QED
  BY <1>1, <1>2, <1>3, <1>4

LEMMA FileOfDayStep == Dated /\ [Next]_vars => FileOfDay'
<1> SUFFICES ASSUME Dated, [Next]_vars PROVE FileOfDay'
  OBVIOUS
<1> USE DEF Dated
<1>1. ASSUME NEW t \in Threads, Roll(t) PROVE FileOfDay'
  <2>1. pc[t] = "roll" /\ UNCHANGED <<line, atMidnight>> /\ ChooseFile(line[t].day)
    BY <1>1 DEF Roll, GoTo, ghosts
  <2>2. PICK new : new = line[t]
    OBVIOUS
  <2>3. new \in Lines /\ ChooseFile(new.day)
    BY <2>1, <2>2, HeldIsNewest DEF Holding
  <2>4. m_fp'.day = new.day /\ m_today' = new.day
    <3>1. CASE OpenDay(new.day)
      BY <3>1 DEF OpenDay
    <3>2. CASE m_today = new.day /\ OpenPart(new.day)
      BY <3>2 DEF OpenPart
    <3>3. CASE m_today = new.day /\ StayInFile
      BY <3>3 DEF StayInFile, FileOfDay
    <3> QED
      BY <2>3, <3>1, <3>2, <3>3 DEF ChooseFile
  <2>5. new \in UnderWay
    BY <2>1, <2>2, <2>3, UnderWayIs DEF UnderWayParts
  <2>6. ASSUME NEW l \in Lines, HasRolled(l)', l \notin atMidnight
        PROVE  l.day = new.day
    <3>1. HasRolled(l) \/ \E u \in Threads : pc[u] = "roll" /\ line[u] = l
      BY <2>6, RolledBefore DEF Roll, GoTo
    <3>2. l \in UnderWay
      BY <3>1, UnderWayIs DEF UnderWayParts
    <3> QED
      BY <2>5, <2>6, <3>2 DEF OfToday
  <2> QED
    BY <2>1, <2>4, <2>6 DEF FileOfDay
<1>2. CASE ~\E t \in Threads : Roll(t)
  <2>1. UNCHANGED <<m_fp, m_today>>
    BY <1>2
    DEF Next, Write, Call, TestFull, Push, WriteDirectly, FlushAfter, Return,
        Wait, WakeSpuriously, Pop, WriteQueued, Flusher, Midnight, End, vars, files
  <2>2. \A l \in Lines : HasRolled(l)' => HasRolled(l)
    BY <1>2, RolledBefore
  <2> QED
    BY <2>1, <2>2, MidnightGrows DEF FileOfDay
<1> QED
  BY <1>1, <1>2

LEMMA FiledStep == Dated /\ [Next]_vars => Filed'
<1> SUFFICES ASSUME Dated, [Next]_vars PROVE Filed'
  OBVIOUS
<1> USE DEF Dated
<1>1. Trail \in Seq(Entries)
  BY TrailIsSequence DEF Typed
<1>2. ASSUME NEW l \in Lines, HasRolled(l), Trail' = Append(Trail, EntryOf(l)),
             UNCHANGED atMidnight
      PROVE  Filed'
  <2>1. EntryOf(l) \in Entries /\ EntryOf(l).line = l /\ EntryOf(l).file = m_fp
    BY DEF EntryOf, Entries, Typed, TypeOK
  <2>2. /\ \A i \in 1..Len(Trail) : Trail'[i] = Trail[i]
        /\ \A i \in 1..Len(Trail') :
             i \in 1..Len(Trail) \/ (i = Len(Trail') /\ Trail'[i] = EntryOf(l))
    BY <1>1, <1>2, <2>1, AppendElements
  <2>3. l \notin atMidnight => m_fp.day = l.day
    BY <1>2 DEF FileOfDay
  <2> QED
    BY <1>2, <2>1, <2>2, <2>3 DEF Filed
<1>3. ASSUME NEW t \in Threads, Writes(t) PROVE Filed'
  <2>1. /\ line[t] \in Lines /\ HasRolled(line[t])
        /\ Trail' = Append(Trail, EntryOf(line[t])) /\ UNCHANGED atMidnight
    BY <1>3, HeldIsNewest
    DEF Writes, WriteDirectly, Return, GoTo, Holding, HasRolled
  <2> QED
    BY <1>2, <2>1
<1>4. CASE TakesOver
  <2>1. hand \in Lines /\ hand # NoLine /\ UNCHANGED atMidnight
    BY <1>4, LogAssumption DEF TakesOver, WriteQueued, Flusher, ghosts
  <2>2. HasRolled(hand)
    BY <2>1, PendingParts DEF HasRolled
  <2> QED
    BY <1>2, <1>4, <2>1, <2>2 DEF TakesOver
<1>5. CASE UNCHANGED Trail
  BY <1>5, MidnightGrows DEF Filed
<1> QED
  BY <1>3, <1>4, <1>5, Movements DEF Pushes

\* A line is in a file of its day, unless it was under way together with a
\* line of another day, or at midnight.
THEOREM FilesAreDated == Spec => []RightFile
<1>1. Dated /\ [Next]_vars => Dated'
  <2> SUFFICES ASSUME Dated, [Next]_vars PROVE Dated'
    OBVIOUS
  <2>1. Typed'
    BY TypedStep DEF Dated
  <2> QED
    BY <2>1, OfTodayStep, FileOfDayStep, FiledStep DEF Dated
<1>2. Dated => RightFile
  <2> SUFFICES ASSUME Dated, NEW e \in ToSet(Trail), e.line \notin atMidnight
               PROVE  e.file.day = e.line.day
    BY DEF RightFile, Trail
  <2>1. PICK i \in 1..Len(Trail) : e = Trail[i]
    <3>1. DOMAIN Trail = 1..Len(Trail)
      BY TrailIsSequence, LenProperties DEF Dated, Typed
    <3> QED
      BY <3>1 DEF ToSet
  <2> QED
    BY <2>1 DEF Dated, Filed
<1> QED
  BY DatedInit, <1>1, <1>2, PTL DEF Spec

-----------------------------------------------------------------------------
(***************************************************************************)
(* What flush() makes durable.                                             *)
(***************************************************************************)
LEMMA BypassedStep == Typed /\ Bypassed /\ [Next]_vars => Bypassed'
<1> SUFFICES ASSUME Typed, Bypassed, [Next]_vars, NEW l \in bypassed'
             PROVE  Begun(l)'
  BY DEF Bypassed
<1>1. CASE l \in bypassed
  <2>1. l \in Lines /\ Begun(l)
    BY <1>1 DEF Bypassed, Typed, TypeOK
  <2> QED
    BY <2>1, BegunStays
<1>2. ASSUME NEW t \in Threads, Writes(t), l = line[t] PROVE Begun(l)'
  <2>1. pc[t] \in Holding /\ Return(t, "put")
    BY <1>2 DEF Writes, WriteDirectly, Return, GoTo, Holding
  <2> QED
    BY <1>2, <2>1, ReturnBegins
<1> QED
  BY <1>1, <1>2, Movements DEF Pushes, Writes, TakesOver

Grows ==
  stream' = stream \/ \E l \in Lines : stream' = Append(stream, EntryOf(l))

\* Either the stream is written out, or it keeps what is in it and a thread
\* that is to flush still is.
LEMMA StreamMoves ==
  ASSUME Typed, [Next]_vars
  PROVE  \/ Flush
         \/ /\ UNCHANGED <<log, ended>> /\ Grows
            /\ \A t \in Threads : pc[t] = "flush" => pc'[t] = "flush"
<1> USE DEF Typed
<1> DEFINE Stay == \A t \in Threads : pc[t] = "flush" => pc'[t] = "flush"
<1>1. ASSUME NEW t \in Threads, Call(t)
      PROVE  UNCHANGED <<log, ended>> /\ Grows /\ Stay
  BY <1>1 DEF Call, GoTo, kept, Grows, TypeOK
<1>2. ASSUME NEW t \in Threads, Roll(t)
      PROVE  Flush \/ (UNCHANGED <<log, ended>> /\ Grows /\ Stay)
  <2>1. Flush \/ UNCHANGED <<log, stream>>
    BY <1>2 DEF Roll, ChooseFile, OpenDay, OpenPart, StayInFile, Reopen, kept
  <2>2. UNCHANGED ended /\ Stay
    BY <1>2 DEF Roll, GoTo, TypeOK
  <2> QED
    BY <2>1, <2>2 DEF Grows
<1>3. ASSUME NEW t \in Threads, TestFull(t)
      PROVE  UNCHANGED <<log, ended>> /\ Grows /\ Stay
  BY <1>3 DEF TestFull, GoTo, kept, Grows, TypeOK
<1>4. ASSUME NEW t \in Threads, NEW from \in {"push", "put"}, Return(t, from)
      PROVE  UNCHANGED ended /\ Stay
  BY <1>4 DEF Return, GoTo, TypeOK
<1>5. ASSUME NEW t \in Threads, Push(t) PROVE UNCHANGED log /\ Grows
  BY <1>5 DEF Push, kept, Grows
<1>6. ASSUME NEW t \in Threads, WriteDirectly(t) PROVE UNCHANGED log /\ Grows
  <2>1. line[t] \in Lines
    BY <1>6, HeldIsNewest DEF WriteDirectly, Return, GoTo, Holding
  <2> QED
    BY <1>6, <2>1 DEF WriteDirectly, Fputs, Grows, EntryOf
<1>7. ASSUME NEW t \in Threads, FlushAfter(t) PROVE Flush
  BY <1>7 DEF FlushAfter
<1>8. ASSUME Wait \/ WakeSpuriously \/ Pop \/ Midnight \/ UNCHANGED vars
      PROVE  UNCHANGED <<log, ended>> /\ Grows /\ Stay
  BY <1>8
  DEF Wait, WakeSpuriously, Pop, Flusher, Midnight, vars, callers, kept, Grows
<1>9. ASSUME WriteQueued PROVE UNCHANGED <<log, ended>> /\ Grows /\ Stay
  <2>1. hand \in Lines
    BY <1>9 DEF WriteQueued, Flusher, HandHeld, TypeOK
  <2> QED
    BY <1>9, <2>1 DEF WriteQueued, Flusher, Fputs, callers, Grows, EntryOf
<1>10. ASSUME End PROVE Flush
  BY <1>10 DEF End
<1> HIDE DEF Stay
<1>11. Flush \/ (UNCHANGED <<log, ended>> /\ Grows /\ Stay)
  BY <1>1, <1>2, <1>3, <1>4, <1>5, <1>6, <1>7, <1>8, <1>9, <1>10
  DEF Next, Write, Push, WriteDirectly
<1> QED
  BY <1>11 DEF Stay

LEMMA FlushFiles ==
  ASSUME TypeOK, Flush, NEW t, NEW n, InFile(t, n) \/ InStream(t, n)
  PROVE  InFile(t, n)'
<1>1. log' = Trail /\ DOMAIN Trail = 1..Len(Trail)
  BY TrailIsSequence, LenProperties DEF Flush, Trail
<1>2. \E i \in 1..Len(Trail) : Is(Trail[i].line, t, n)
  BY TrailParts DEF InFile, InStream
<1> QED
  BY <1>1, <1>2 DEF InFile, Is

\* The line that fputs appends is in the stream, and so are those before.
LEMMA StreamGrows ==
  ASSUME TypeOK, NEW l \in Lines, stream' = Append(stream, EntryOf(l)),
         NEW t, NEW n, InStream(t, n) \/ Is(l, t, n)
  PROVE  InStream(t, n)'
<1>1. stream \in Seq(Entries) /\ EntryOf(l) \in Entries /\ EntryOf(l).line = l
  BY TrailIsSequence DEF EntryOf, Entries, TypeOK
<1>2. stream' \in Seq(Entries)
  BY <1>1
<1>3. /\ DOMAIN stream = 1..Len(stream) /\ DOMAIN stream' = 1..Len(stream')
      /\ Len(stream') = Len(stream) + 1 /\ Len(stream) \in Nat
      /\ \A i \in 1..Len(stream) : stream'[i] = stream[i]
      /\ stream'[Len(stream')] = EntryOf(l) /\ Len(stream') \in 1..Len(stream')
  BY <1>1, <1>2, LenProperties, AppendElements
<1>4. \A i \in 1..Len(stream) : i \in 1..Len(stream')
  BY <1>3
<1> QED
  BY <1>1, <1>3, <1>4 DEF InStream, Is

LEMMA DurableStep == Flushed /\ Typed' /\ [Next]_vars => Durable'
<1> SUFFICES ASSUME Flushed, Typed', [Next]_vars,
                    NEW t \in Threads, NEW n \in 1..written'[t], Direct(t, n)'
             PROVE  \/ Is(line[t], t, n)'
                    \/ InFile(t, n)'
                    \/ /\ InStream(t, n)'
                       /\ ~ended' /\ (t \in Flushers => pc'[t] = "flush")
  BY DEF Durable
<1> USE DEF Flushed
<1>0. TypeOK /\ Typed
  BY DEF Typed
<1>1. CASE Is(line[t], t, n) /\ WriteDirectly(t)
  <2>1. /\ Fputs(line[t]) /\ line[t] \in Lines /\ ~ended'
        /\ t \in Flushers => pc'[t] = "flush"
    BY <1>1, <1>0, HeldIsNewest
    DEF WriteDirectly, Return, GoTo, Holding, TypeOK
  <2>2. InStream(t, n)'
    BY <1>0, <1>1, <2>1, StreamGrows DEF Fputs, EntryOf
  <2> QED
    BY <2>1, <2>2
<1>2. CASE n \in 1..written[t] /\ Direct(t, n)
  <2>1. CASE Is(line[t], t, n)
    <3>1. ASSUME Push(t) PROVE FALSE
      <4>1. pc[t] = "push" /\ pc[t] \in Holding
        BY <3>1 DEF Push, Return, GoTo, Holding
      <4>2. PICK l \in bypassed : Is(l, t, n)
        BY <1>0, <1>2, <4>1 DEF Direct, Typed, OnlyAsync
      <4>3. Begun(l)
        BY DEF Bypassed
      <4>4. line[t] # NoLine /\ line[t].n = written[t] /\ written[t] \in Nat
        BY <1>0, <4>1, HeldIsNewest, LogAssumption DEF TypeOK
      <4> QED
        BY <2>1, <4>2, <4>3, <4>4 DEF Begun, Is
    <3> QED
      BY <1>0, <1>1, <1>2, <2>1, <3>1, LineStays
  <2>2. CASE InFile(t, n)
    <3>1. CASE Flush
      BY <1>0, <2>2, <3>1, FlushFiles
    <3>2. CASE UNCHANGED log
      BY <2>2, <3>2 DEF InFile, Is
    <3> QED
      BY <1>0, <3>1, <3>2, StreamMoves
  <2>3. CASE InStream(t, n) /\ ~ended /\ (t \in Flushers => pc[t] = "flush")
    <3>1. CASE Flush
      BY <1>0, <2>3, <3>1, FlushFiles
    <3>2. CASE Grows
      <4>1. ASSUME UNCHANGED stream PROVE InStream(t, n)'
        BY <2>3, <4>1 DEF InStream, Is
      <4> QED
        BY <1>0, <2>3, <3>1, <3>2, <4>1, StreamGrows, StreamMoves DEF Grows
    <3> QED
      BY <1>0, <3>1, <3>2, StreamMoves
  <2> QED
    BY <1>2, <2>1, <2>2, <2>3 DEF Durable
<1>3. CASE n \in 1..written[t] /\ ~Direct(t, n)
  <2>1. UNCHANGED m_is_async
    BY DEF Next, Write, Call, Roll, TestFull, Push, WriteDirectly, FlushAfter,
           Return, Wait, WakeSpuriously, Pop, WriteQueued, Flusher, Midnight, End,
           vars
  <2>2. PICK l \in bypassed' : Is(l, t, n)
    BY <1>3, <2>1 DEF Direct, Is
  <2>3. l \notin bypassed
    BY <1>3, <2>2 DEF Direct
  <2>4. PICK u \in Threads : WriteDirectly(u) /\ l = line[u]
    BY <1>0, <2>2, <2>3, Movements DEF Pushes, Writes, TakesOver
  <2>5. u = t
    BY <1>0, <2>2, <2>4, HeldIsNewest
    DEF WriteDirectly, Return, GoTo, Holding, Is
  <2> QED
    BY <1>1, <2>2, <2>4, <2>5
<1> QED
  BY <1>0, <1>2, <1>3, WrittenGrows

\* Once flush() has returned, and when the process ends, a line that its
\* thread wrote itself is in a file.
THEOREM FlushReachesTheFile == Spec => []FlushedIsDurable
<1>1. Init => Flushed
  <2> SUFFICES ASSUME Init PROVE Flushed
    OBVIOUS
  <2>1. Typed /\ Bypassed
    BY TypedInit DEF Init, Bypassed
  <2>2. \A t \in Threads : written[t] = 0
    BY DEF Init
  <2>3. \A t \in Threads : 1..written[t] = {}
    BY <2>2
  <2> QED
    BY <2>1, <2>3 DEF Flushed, Durable
<1>2. Flushed /\ [Next]_vars => Flushed'
  <2> SUFFICES ASSUME Flushed, [Next]_vars PROVE Flushed'
    OBVIOUS
  <2>1. Typed'
    BY TypedStep DEF Flushed
  <2> QED
    BY <2>1, BypassedStep, DurableStep DEF Flushed
<1>3. Flushed => FlushedIsDurable
  <2> SUFFICES ASSUME Flushed, NEW t \in Threads, NEW n \in 1..written[t],
                      pc[t] = "idle", t \in Flushers \/ ended, Direct(t, n)
               PROVE  Places(t, n, log) # {}
    BY DEF FlushedIsDurable, Direct
  <2>1. ~Is(line[t], t, n)
    BY DEF Flushed, Typed, Held, Holding, Is
  <2>2. InFile(t, n)
    BY <2>1 DEF Flushed, Durable
  <2> QED
    BY <2>2 DEF InFile, Places
<1> QED
  BY <1>1, <1>2, <1>3, PTL DEF Spec

=============================================================================
