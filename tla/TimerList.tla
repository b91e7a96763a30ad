----------------------------- MODULE TimerList -----------------------------
(***************************************************************************)
(* timer/lst_timer.h: the doubly linked list in which main keeps a timer   *)
(* per connection, the one that expires first at the head, and the calls   *)
(* main.cpp makes on it: a new connection adds a timer, traffic adjusts    *)
(* it, a closed connection deletes it, SIGALRM ticks.                      *)
(*                                                                         *)
(* Timers are addresses.  The two loops, the search for the place of a     *)
(* timer and the tick, take one action per round; main is the only thread  *)
(* that touches the list, so nothing happens between two rounds.           *)
(***************************************************************************)
EXTENDS Naturals, FiniteSets

CONSTANTS
  Timers,      \* the addresses of util_timer objects
  Null,
  Life,        \* 3 * TIMESLOT
  MaxTime,     \* bound: the last value of time(NULL)
  MaxBack      \* bound: how often the wall clock may be set back

ASSUME TimersAssumption ==
  /\ IsFiniteSet(Timers)
  /\ Null \notin Timers
  /\ Life \in Nat /\ MaxTime \in Nat /\ MaxBack \in Nat

VARIABLES
  head, tail,          \* of the list; tail is only meaningful if head # Null
  next, prev, expire,  \* the fields of each timer
  live,                \* the timers that are allocated
  now,                 \* what time(NULL) returns
  back,                \* how often the clock was set back
  pc,                  \* "idle", "walk" (private add_timer) or "tick"
  timer, walker,       \* add_timer's timer and its variable prev
  cur                  \* tick()'s variable cur

links  == <<next, prev>>
clock  == <<now, back>>
locals == <<timer, walker, cur>>
vars   == <<head, tail, links, expire, live, clock, pc, locals>>

Init ==
  /\ head = Null /\ tail = Null
  /\ next = [t \in Timers |-> Null] /\ prev = [t \in Timers |-> Null]
  /\ expire = [t \in Timers |-> 0]
  /\ live = {}
  /\ now = 0 /\ back = 0
  /\ pc = "idle"
  /\ timer = Null /\ walker = Null /\ cur = 0

-----------------------------------------------------------------------------
(***************************************************************************)
(* A new connection (main.cpp:251-257): a timer is allocated, its deadline *)
(* set, and add_timer puts it first or looks for its place.                *)
(***************************************************************************)
New(t) ==
  /\ pc = "idle"
  /\ t \notin live
  /\ live' = live \cup {t}
  /\ expire' = [expire EXCEPT ![t] = now + Life]
  /\ UNCHANGED clock

AddFirst(t) ==
  /\ New(t)
  /\ head = Null
  /\ head' = t /\ tail' = t
  /\ UNCHANGED <<links, pc, locals>>

AddFront(t) ==
  /\ New(t)
  /\ head # Null
  /\ expire'[t] < expire[head]
  /\ next' = [next EXCEPT ![t] = head]
  /\ prev' = [prev EXCEPT ![head] = t]
  /\ head' = t
  /\ UNCHANGED <<tail, pc, locals>>

Walk(t, from) ==
  /\ pc' = "walk"
  /\ timer' = t /\ walker' = from
  /\ UNCHANGED cur

AddBehind(t) ==
  /\ New(t)
  /\ head # Null
  /\ expire'[t] >= expire[head]
  /\ Walk(t, head)
  /\ UNCHANGED <<head, tail, links>>

(***************************************************************************)
(* The loop of the private add_timer                                       *)
(***************************************************************************)
Searching == pc = "walk"

Found ==
  /\ pc' = "idle"
  /\ timer' = Null /\ walker' = Null
  /\ UNCHANGED <<cur, head, expire, live, clock>>

WalkOn ==
  /\ Searching
  /\ next[walker] # Null
  /\ expire[timer] >= expire[next[walker]]
  /\ walker' = next[walker]
  /\ UNCHANGED <<head, tail, links, expire, live, clock, pc, timer, cur>>

\* Slip: the successor's prev is forgotten.
WalkInsert_NoPrev ==
  /\ Searching
  /\ next[walker] # Null
  /\ expire[timer] < expire[next[walker]]
  /\ next' = [next EXCEPT ![walker] = timer, ![timer] = next[walker]]
  /\ prev' = [prev EXCEPT ![timer] = walker]
  /\ Found
  /\ UNCHANGED tail

WalkInsert ==
  /\ Searching
  /\ next[walker] # Null
  /\ expire[timer] < expire[next[walker]]
  /\ next' = [next EXCEPT ![walker] = timer, ![timer] = next[walker]]
  /\ prev' = [prev EXCEPT ![next[walker]] = timer, ![timer] = walker]
  /\ Found
  /\ UNCHANGED tail

WalkAppend ==
  /\ Searching
  /\ next[walker] = Null
  /\ next' = [next EXCEPT ![walker] = timer, ![timer] = Null]
  /\ prev' = [prev EXCEPT ![timer] = walker]
  /\ tail' = timer
  /\ Found

-----------------------------------------------------------------------------
(***************************************************************************)
(* Traffic on a connection (main.cpp:354-360, 382-388): its deadline moves *)
(* to now + Life, and adjust_timer moves the timer towards the tail.       *)
(***************************************************************************)
\* Slip: the deadline is extended instead of set anew.
Touch_Extend(t) ==
  /\ pc = "idle"
  /\ t \in live
  /\ expire' = [expire EXCEPT ![t] = @ + Life]
  /\ UNCHANGED <<tail, live, clock>>

Touch(t) ==
  /\ pc = "idle"
  /\ t \in live
  /\ expire' = [expire EXCEPT ![t] = now + Life]
  /\ UNCHANGED <<tail, live, clock>>

\* Slip: the comparison is the wrong way round.
InPlace_Swapped(t) == next[t] # Null => now + Life > expire[next[t]]

InPlace(t) == next[t] # Null => now + Life < expire[next[t]]

AdjustInPlace(t) ==
  /\ Touch(t)
  /\ InPlace(t)
  /\ UNCHANGED <<head, links, pc, locals>>

AdjustHead(t) ==
  /\ Touch(t)
  /\ ~InPlace(t)
  /\ t = head
  /\ head' = next[t]
  /\ prev' = [prev EXCEPT ![next[t]] = Null]
  /\ next' = [next EXCEPT ![t] = Null]
  /\ Walk(t, next[t])

AdjustMiddle(t) ==
  /\ Touch(t)
  /\ ~InPlace(t)
  /\ t # head
  /\ next' = [next EXCEPT ![prev[t]] = next[t]]
  /\ prev' = [prev EXCEPT ![next[t]] = prev[t]]
  /\ Walk(t, next[t])
  /\ UNCHANGED head

-----------------------------------------------------------------------------
(***************************************************************************)
(* A connection is closed (main.cpp:302, 368, 396): del_timer unlinks its  *)
(* timer and deletes it.  The fields of a deleted timer are not read any   *)
(* more; the model clears them.                                            *)
(***************************************************************************)
Delete(t) ==
  /\ live' = live \ {t}
  /\ expire' = [expire EXCEPT ![t] = 0]
  /\ UNCHANGED clock

Unlink(t) ==
  /\ pc = "idle"
  /\ t \in live
  /\ Delete(t)
  /\ UNCHANGED <<pc, locals>>

DelOnly(t) ==
  /\ Unlink(t)
  /\ t = head /\ t = tail
  /\ head' = Null /\ tail' = Null
  /\ UNCHANGED links

DelHead(t) ==
  /\ Unlink(t)
  /\ t = head /\ t # tail
  /\ head' = next[t]
  /\ prev' = [prev EXCEPT ![next[t]] = Null]
  /\ next' = [next EXCEPT ![t] = Null]
  /\ UNCHANGED tail

DelTail(t) ==
  /\ Unlink(t)
  /\ t # head /\ t = tail
  /\ tail' = prev[t]
  /\ next' = [next EXCEPT ![prev[t]] = Null]
  /\ prev' = [prev EXCEPT ![t] = Null]
  /\ UNCHANGED head

DelMiddle(t) ==
  /\ Unlink(t)
  /\ t # head /\ t # tail
  /\ next' = [next EXCEPT ![prev[t]] = next[t], ![t] = Null]
  /\ prev' = [prev EXCEPT ![next[t]] = prev[t], ![t] = Null]
  /\ UNCHANGED <<head, tail>>

-----------------------------------------------------------------------------
(***************************************************************************)
(* tick() reads the clock once and fires timers from the head on: cb_func  *)
(* closes the connection, the timer is unlinked and deleted.  tail is left *)
(* alone, also when the list becomes empty.                                *)
(***************************************************************************)
TickStart ==
  /\ pc = "idle"
  /\ head # Null
  /\ pc' = "tick"
  /\ cur' = now
  /\ UNCHANGED <<head, tail, links, expire, live, clock, timer, walker>>

TickFire ==
  /\ pc = "tick"
  /\ head # Null
  /\ cur >= expire[head]
  /\ head' = next[head]
  /\ prev' = IF next[head] = Null THEN prev
             ELSE [prev EXCEPT ![next[head]] = Null]
  /\ next' = [next EXCEPT ![head] = Null]
  /\ Delete(head)
  /\ UNCHANGED <<tail, pc, locals>>

TickEnd ==
  /\ pc = "tick"
  /\ head # Null => cur < expire[head]
  /\ pc' = "idle"
  /\ cur' = 0
  /\ UNCHANGED <<head, tail, links, expire, live, clock, timer, walker>>

-----------------------------------------------------------------------------
(***************************************************************************)
(* time(NULL) is the wall clock: it advances, and may be set back.         *)
(***************************************************************************)
SetClock(t) ==
  /\ pc = "idle"
  /\ now' = t
  /\ UNCHANGED <<head, tail, links, expire, live, pc, locals>>

Advance == now < MaxTime /\ SetClock(now + 1) /\ UNCHANGED back

SetBack ==
  /\ back < MaxBack
  /\ back' = back + 1
  /\ \E t \in 0..MaxTime : t < now /\ SetClock(t)

-----------------------------------------------------------------------------
Add(t)    == AddFirst(t) \/ AddFront(t) \/ AddBehind(t)
Adjust(t) == AdjustInPlace(t) \/ AdjustHead(t) \/ AdjustMiddle(t)
Del(t)    == DelOnly(t) \/ DelHead(t) \/ DelTail(t) \/ DelMiddle(t)
WalkStep  == WalkOn \/ WalkInsert \/ WalkAppend
TickStep  == TickFire \/ TickEnd

Next ==
  \/ \E t \in Timers : Add(t) \/ Adjust(t) \/ Del(t)
  \/ WalkStep
  \/ TickStart \/ TickStep
  \/ Advance \/ SetBack

Spec == Init /\ [][Next]_vars

(***************************************************************************)
(* The loops run to their end, and SIGALRM comes again and again, however  *)
(* often main is busy with a connection in between.                        *)
(***************************************************************************)
FairSpec ==
  Spec /\ WF_vars(WalkStep) /\ WF_vars(TickStep) /\ SF_vars(TickStart)

-----------------------------------------------------------------------------
\* Every pointer is a timer or NULL.
TypeOK ==
  /\ {head, tail, timer, walker} \subseteq Timers \cup {Null}
  /\ next \in [Timers -> Timers \cup {Null}]
  /\ prev \in [Timers -> Timers \cup {Null}]
  /\ expire \in [Timers -> 0..(MaxTime + Life)]
  /\ live \subseteq Timers
  /\ now \in 0..MaxTime /\ back \in 0..MaxBack /\ cur \in 0..MaxTime
  /\ pc \in {"idle", "walk", "tick"}

\* The sequence s is the list: head, tail and both links of every timer
\* agree with it, and it holds every allocated timer.
IsList(s) ==
  LET n == Cardinality(live) IN
  /\ live = {s[i] : i \in 1..n}
  /\ head = s[1] /\ prev[s[1]] = Null
  /\ tail = s[n] /\ next[s[n]] = Null
  /\ \A i \in 1..(n - 1) : next[s[i]] = s[i + 1] /\ prev[s[i + 1]] = s[i]

\* The pointers form one doubly linked list of exactly the allocated timers.
WellLinked ==
  pc # "walk" =>
    IF live = {} THEN head = Null
    ELSE \E s \in [1..Cardinality(live) -> live] : IsList(s)

Steady == back = 0   \* the clock was never set back

Ascending ==
  pc # "walk" =>
    \A t \in live : next[t] # Null => expire[t] <= expire[next[t]]

\* Between two calls no timer is lost, none is reached after its deletion,
\* whatever the order of adds, adjusts, deletes and ticks, and even if the
\* clock is set back.  The list is in ascending order of expiry as long as the
\* clock never went back (adjust_timer moves a timer towards the tail only).
SortedList == WellLinked /\ (Steady => Ascending)

\* A connection whose time has come is closed in the end, unless there is
\* traffic on it or the clock was set back: no timer hides behind one that
\* expires later.
DueIsFired ==
  \A t \in Timers :
    (t \in live /\ expire[t] <= now) ~>
      (t \notin live \/ expire[t] > now \/ ~Steady)

=============================================================================
