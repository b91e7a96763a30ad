-------------------------- MODULE TimerListProofs --------------------------
(***************************************************************************)
(* Proofs about TimerList, for any number of timers.                       *)
(***************************************************************************)
EXTENDS TimerList, FiniteSetTheorems, TLAPS

Typed == TypeOK /\ (pc = "walk" => timer \in Timers /\ walker \in Timers)

\* The timers in the list: all but the one whose place is searched for.
Linked == IF pc = "walk" THEN live \ {timer} ELSE live

(***************************************************************************)
(* The timers of L, linked by the functions nx and pv from h to tl, are    *)
(* the n elements of s in their order.                                     *)
(***************************************************************************)
Chain(s, n, L, h, tl, nx, pv) ==
  /\ n \in Nat /\ s \in [1..n -> L]
  /\ \A t \in L : \E i \in 1..n : s[i] = t
  /\ \A i, j \in 1..n : s[i] = s[j] => i = j
  /\ h = IF n = 0 THEN Null ELSE s[1]
  /\ n # 0 => tl = s[n]
  /\ \A i \in 1..n : /\ nx[s[i]] = IF i = n THEN Null ELSE s[i + 1]
                     /\ pv[s[i]] = IF i = 1 THEN Null ELSE s[i - 1]

Chained(L, h, tl, nx, pv) == \E n \in Nat : \E s \in [1..n -> L] : Chain(s, n, L, h, tl, nx, pv)

\* What the fields of a linked timer say of its neighbours.
Neighbourly(L, h, tl, nx, pv) ==
  /\ h \in L \cup {Null} /\ (h = Null <=> L = {}) /\ (L # {} => tl \in L)
  /\ h \in L /\ h = tl => L = {h}
  /\ \A t \in L : /\ nx[t] \in L \cup {Null} /\ pv[t] \in L \cup {Null}
                  /\ nx[t] # t /\ pv[t] # t
                  /\ (pv[t] = Null <=> t = h) /\ (nx[t] = Null <=> t = tl)
  /\ \A t, u \in L : nx[t] = u <=> pv[u] = t

\* t is taken out.
Cut(t, L, h, tl, nx, pv, h2, tl2, nx2, pv2) ==
  /\ h2 = IF h = t THEN nx[t] ELSE h
  /\ L # {t} => tl2 = IF tl = t THEN pv[t] ELSE tl
  /\ \A u \in L \ {t} : /\ nx2[u] = IF nx[u] = t THEN nx[t] ELSE nx[u]
                        /\ pv2[u] = IF pv[u] = t THEN pv[t] ELSE pv[u]

\* t is put between w and the timer behind it.
PutBehind(w, t, L, tl, nx, pv, tl2, nx2, pv2) ==
  /\ tl2 = IF nx[w] = Null THEN t ELSE tl
  /\ nx2[w] = t /\ nx2[t] = nx[w] /\ pv2[t] = w
  /\ nx[w] # Null => pv2[nx[w]] = t
  /\ \A u \in L : (u # w => nx2[u] = nx[u]) /\ (u # nx[w] => pv2[u] = pv[u])

\* t is put before the head.
PutFirst(t, L, h, tl, nx, pv, tl2, nx2, pv2) ==
  /\ tl2 = IF L = {} THEN t ELSE tl
  /\ nx2[t] = h /\ pv2[t] = Null
  /\ L # {} => pv2[h] = t
  /\ \A u \in L : nx2[u] = nx[u] /\ (u # h => pv2[u] = pv[u])

Linking == Chained(Linked, head, tail, next, prev)

\* add_timer's search is past a timer that does not expire later.
Walking ==
  pc = "walk" => /\ timer \in live /\ walker \in Linked
                 /\ expire[walker] <= expire[timer]

\* A timer that is not allocated is not linked.
Cleared == \A t \in Timers \ live : next[t] = Null /\ prev[t] = Null

\* While the clock was never set back, no deadline is later than that of a
\* timer set now.
Ordered ==
  Steady => /\ \A t \in Linked : next[t] # Null => expire[t] <= expire[next[t]]
            /\ \A t \in live : expire[t] <= now + Life

Kept == Typed /\ Linking /\ Walking /\ Cleared /\ Ordered

-----------------------------------------------------------------------------
(***************************************************************************)
(* Linked lists.                                                           *)
(***************************************************************************)
LEMMA ChainLinks ==
  ASSUME NEW L \in SUBSET Timers, NEW h, NEW tl, NEW nx, NEW pv,
         Chained(L, h, tl, nx, pv)
  PROVE  Neighbourly(L, h, tl, nx, pv)
<1>1. PICK n \in Nat : \E s \in [1..n -> L] : Chain(s, n, L, h, tl, nx, pv)
  BY DEF Chained
<1>s. PICK s \in [1..n -> L] : Chain(s, n, L, h, tl, nx, pv)
  BY <1>1
<1>2. /\ \A t \in L : \E i \in 1..n : s[i] = t
      /\ \A i, j \in 1..n : s[i] = s[j] => i = j
      /\ h = IF n = 0 THEN Null ELSE s[1]
      /\ n # 0 => tl = s[n]
      /\ \A i \in 1..n : nx[s[i]] = IF i = n THEN Null ELSE s[i + 1]
      /\ \A i \in 1..n : pv[s[i]] = IF i = 1 THEN Null ELSE s[i - 1]
  BY <1>s DEF Chain
<1>3. \A t \in L : t # Null
  BY TimersAssumption
<1>4. /\ h \in L \cup {Null} /\ (h = Null <=> L = {}) /\ (L # {} => tl \in L)
  <2>1. CASE n = 0
    BY <1>2, <2>1
  <2>2. CASE n # 0
    <3>1. s[1] \in L /\ s[n] \in L
      BY <2>2
    <3> QED
      BY <1>2, <1>3, <2>2, <3>1
  <2> QED
    BY <2>1, <2>2
<1>a. h \in L /\ h = tl => L = {h}
  <2> SUFFICES ASSUME h \in L, h = tl PROVE L = {h}
    OBVIOUS
  <2>1. n # 0
    BY <1>2, <1>3
  <2>2. s[1] = s[n] /\ 1 \in 1..n /\ n \in 1..n
    BY <1>2, <2>1
  <2>3. n = 1
    BY <1>2, <2>2
  <2>4. \A u \in L : u = s[1]
    BY <1>2, <2>3
  <2> QED
    BY <1>2, <2>1, <2>4
<1>5. ASSUME NEW t \in L
      PROVE  /\ nx[t] \in L \cup {Null} /\ nx[t] # t /\ (nx[t] = Null <=> t = tl)
             /\ \A u \in L : nx[t] = u => pv[u] = t
  <2>1. PICK i \in 1..n : s[i] = t
    BY <1>2
  <2>2. CASE i = n
    BY <1>2, <1>3, <2>1, <2>2
  <2>3. CASE i # n
    <3>1. PICK j \in 1..n : j = i + 1 /\ j - 1 = i /\ j # 1
      BY <2>3
    <3>2. nx[t] = s[j] /\ s[j] \in L /\ s[j] # t /\ pv[s[j]] = t
      BY <1>2, <2>1, <2>3, <3>1
    <3>3. t # tl
      BY <1>2, <2>1, <2>3
    <3> QED
      BY <1>3, <3>2, <3>3
  <2> QED
    BY <2>2, <2>3
<1>6. ASSUME NEW u \in L
      PROVE  /\ pv[u] \in L \cup {Null} /\ pv[u] # u /\ (pv[u] = Null <=> u = h)
             /\ \A t \in L : pv[u] = t => nx[t] = u
  <2>1. PICK i \in 1..n : s[i] = u
    BY <1>2
  <2>2. CASE i = 1
    BY <1>2, <1>3, <2>1, <2>2
  <2>3. CASE i # 1
    <3>1. PICK j \in 1..n : j = i - 1 /\ j + 1 = i /\ j # n
      BY <2>3
    <3>2. pv[u] = s[j] /\ s[j] \in L /\ s[j] # u /\ nx[s[j]] = u
      BY <1>2, <2>1, <2>3, <3>1
    <3>3. u # h
      BY <1>2, <2>1, <2>3
    <3> QED
      BY <1>3, <3>2, <3>3
  <2> QED
    BY <2>2, <2>3
<1> QED
  BY <1>4, <1>5, <1>6, <1>a DEF Neighbourly

LEMMA ChainRemove ==
  ASSUME NEW L \in SUBSET Timers, NEW h, NEW tl, NEW nx, NEW pv,
         Chained(L, h, tl, nx, pv), NEW t \in L,
         NEW h2, NEW tl2, NEW nx2, NEW pv2,
         Cut(t, L, h, tl, nx, pv, h2, tl2, nx2, pv2)
  PROVE  Chained(L \ {t}, h2, tl2, nx2, pv2)
<1> USE DEF Cut
<1>1. PICK n \in Nat : \E s \in [1..n -> L] : Chain(s, n, L, h, tl, nx, pv)
  BY DEF Chained
<1>s. PICK s \in [1..n -> L] : Chain(s, n, L, h, tl, nx, pv)
  BY <1>1
<1>2. /\ \A u \in L : \E i \in 1..n : s[i] = u
      /\ \A i, j \in 1..n : s[i] = s[j] => i = j
      /\ h = IF n = 0 THEN Null ELSE s[1]
      /\ n # 0 => tl = s[n]
      /\ \A i \in 1..n : nx[s[i]] = IF i = n THEN Null ELSE s[i + 1]
      /\ \A i \in 1..n : pv[s[i]] = IF i = 1 THEN Null ELSE s[i - 1]
  BY <1>s DEF Chain
<1>3. PICK k \in 1..n : s[k] = t
  BY <1>2
<1>4. PICK m \in Nat : m + 1 = n
  <2>1. n - 1 \in Nat /\ (n - 1) + 1 = n
    BY <1>3
  <2> QED
    BY <2>1
<1> DEFINE place(i) == IF i < k THEN i ELSE i + 1
           r == [i \in 1..m |-> s[place(i)]]
<1>5. ASSUME NEW i \in 1..m
      PROVE  /\ place(i) \in 1..n /\ place(i) # k /\ r[i] = s[place(i)]
             /\ r[i] \in L \ {t}
  <2>1. place(i) \in 1..n /\ place(i) # k
    BY <1>4
  <2>2. r[i] = s[place(i)]
    OBVIOUS
  <2>3. s[place(i)] \in L /\ s[place(i)] # t
    BY <1>2, <1>3, <2>1
  <2> QED
    BY <2>1, <2>2, <2>3
<1>6. \A j \in 1..n : j # k => \E i \in 1..m : place(i) = j
  <2>1. ASSUME NEW j \in 1..n, j < k PROVE \E i \in 1..m : place(i) = j
    <3>1. j \in 1..m
      BY <1>4, <2>1
    <3> QED
      BY <2>1, <3>1
  <2>2. ASSUME NEW j \in 1..n, j > k PROVE \E i \in 1..m : place(i) = j
    <3>1. j - 1 \in 1..m /\ ~(j - 1 < k) /\ (j - 1) + 1 = j
      BY <1>4, <2>2
    <3> QED
      BY <3>1
  <2> QED
    BY <2>1, <2>2
<1> HIDE DEF r
<1>7. ASSUME NEW u \in L \ {t} PROVE \E i \in 1..m : r[i] = u
  <2>1. PICK j \in 1..n : s[j] = u /\ j # k
    BY <1>2, <1>3
  <2>2. PICK i \in 1..m : place(i) = j
    BY <1>6, <2>1
  <2>3. r[i] = s[place(i)]
    BY <1>5
  <2> QED
    BY <2>1, <2>2, <2>3
<1>8. ASSUME NEW i \in 1..m, NEW j \in 1..m, r[i] = r[j] PROVE i = j
  <2>1. s[place(i)] = s[place(j)] /\ place(i) \in 1..n /\ place(j) \in 1..n
    BY <1>5, <1>8
  <2>2. place(i) = place(j)
    BY <1>2, <2>1
  <2> QED
    BY <2>2
<1>9. r \in [1..m -> L \ {t}]
  BY <1>5 DEF r
<1>10. h2 = IF m = 0 THEN Null ELSE r[1]
  BY <1>2, <1>3, <1>4, <1>5
<1>11. m # 0 => tl2 = r[m]
  <2> SUFFICES ASSUME m # 0 PROVE tl2 = r[m]
    OBVIOUS
  <2>1. r[m] = s[place(m)] /\ r[m] \in L \ {t}
    BY <1>5
  <2>2. tl2 = IF tl = t THEN pv[t] ELSE tl
    BY <2>1
  <2>3. CASE k = n
    <3>1. place(m) = n - 1 /\ n # 1 /\ n \in 1..n
      BY <1>4, <2>3
    <3>2. tl = t /\ pv[t] = s[n - 1]
      BY <1>2, <1>3, <2>3, <3>1
    <3> QED
      BY <2>1, <2>2, <3>1, <3>2
  <2>4. CASE k # n
    <3>1. place(m) = n /\ n \in 1..n
      BY <1>4, <2>4
    <3>2. tl = s[n] /\ tl # t
      BY <1>2, <1>3, <2>4, <3>1
    <3> QED
      BY <2>1, <2>2, <3>1, <3>2
  <2> QED
    BY <2>3, <2>4
<1>12. ASSUME NEW i \in 1..m
       PROVE  nx2[r[i]] = IF i = m THEN Null ELSE r[i + 1]
  <2>1. PICK j \in 1..n : j = place(i) /\ j # k /\ r[i] = s[j] /\ r[i] \in L \ {t}
    BY <1>5
  <2>2. nx2[r[i]] = IF nx[s[j]] = t THEN nx[t] ELSE nx[s[j]]
    BY <2>1
  <2>3. nx[s[j]] = IF j = n THEN Null ELSE s[j + 1]
    BY <1>2
  <2>4. nx[t] = IF k = n THEN Null ELSE s[k + 1]
    BY <1>2, <1>3
  <2>5. i # m => i + 1 \in 1..m /\ r[i + 1] = s[place(i + 1)]
    <3> SUFFICES ASSUME i # m PROVE i + 1 \in 1..m /\ r[i + 1] = s[place(i + 1)]
      OBVIOUS
    <3>1. i + 1 \in 1..m
      OBVIOUS
    <3> QED
      BY <1>5, <3>1
  <2>6. CASE j + 1 = k
    <3>1. nx[s[j]] = t
      BY <1>3, <2>3, <2>6
    <3>2. k = n => i = m
      BY <1>4, <2>1, <2>6
    <3>3. k # n => i # m /\ place(i + 1) = k + 1
      BY <1>4, <2>1, <2>6
    <3> QED
      BY <2>2, <2>4, <2>5, <3>1, <3>2, <3>3
  <2>7. CASE j + 1 # k
    <3>1. j = n => i = m
      BY <1>4, <2>1
    <3>2. j # n => i # m /\ place(i + 1) = j + 1
      BY <1>4, <2>1, <2>7
    <3>3. nx[s[j]] # t
      <4>1. CASE j = n
        BY <2>3, <4>1, TimersAssumption
      <4>2. CASE j # n
        <5>1. j + 1 \in 1..n
          BY <4>2
        <5> QED
          BY <1>2, <1>3, <2>3, <2>7, <4>2, <5>1
      <4> QED
        BY <4>1, <4>2
    <3> QED
      BY <2>2, <2>3, <2>5, <3>1, <3>2, <3>3
  <2> QED
    BY <2>6, <2>7
<1>13. ASSUME NEW i \in 1..m
       PROVE  pv2[r[i]] = IF i = 1 THEN Null ELSE r[i - 1]
  <2>1. PICK j \in 1..n : j = place(i) /\ j # k /\ r[i] = s[j] /\ r[i] \in L \ {t}
    BY <1>5
  <2>2. pv2[r[i]] = IF pv[s[j]] = t THEN pv[t] ELSE pv[s[j]]
    BY <2>1
  <2>3. pv[s[j]] = IF j = 1 THEN Null ELSE s[j - 1]
    BY <1>2
  <2>4. pv[t] = IF k = 1 THEN Null ELSE s[k - 1]
    BY <1>2, <1>3
  <2>5. i # 1 => i - 1 \in 1..m /\ r[i - 1] = s[place(i - 1)]
    <3> SUFFICES ASSUME i # 1 PROVE i - 1 \in 1..m /\ r[i - 1] = s[place(i - 1)]
      OBVIOUS
    <3>1. i - 1 \in 1..m
      OBVIOUS
    <3> QED
      BY <1>5, <3>1
  <2>6. CASE j - 1 = k
    <3>1. pv[s[j]] = t
      BY <1>3, <2>3, <2>6
    <3>2. k = 1 => i = 1
      BY <2>1, <2>6
    <3>3. k # 1 => i # 1 /\ place(i - 1) = k - 1
      BY <2>1, <2>6
    <3> QED
      BY <2>2, <2>4, <2>5, <3>1, <3>2, <3>3
  <2>7. CASE j - 1 # k
    <3>1. j = 1 => i = 1
      BY <2>1
    <3>2. j # 1 => i # 1 /\ place(i - 1) = j - 1
      BY <2>1, <2>7
    <3>3. pv[s[j]] # t
      <4>1. CASE j = 1
        BY <2>3, <4>1, TimersAssumption
      <4>2. CASE j # 1
        <5>1. j - 1 \in 1..n
          BY <4>2
        <5> QED
          BY <1>2, <1>3, <2>3, <2>7, <4>2, <5>1
      <4> QED
        BY <4>1, <4>2
    <3> QED
      BY <2>2, <2>3, <2>5, <3>1, <3>2, <3>3
  <2> QED
    BY <2>6, <2>7
<1>14. Chain(r, m, L \ {t}, h2, tl2, nx2, pv2)
  BY <1>7, <1>8, <1>9, <1>10, <1>11, <1>12, <1>13 DEF Chain
<1> QED
  BY <1>9, <1>14 DEF Chained


LEMMA ChainInsert ==
  ASSUME NEW L \in SUBSET Timers, NEW h, NEW tl, NEW nx, NEW pv,
         Chained(L, h, tl, nx, pv), NEW w \in L, NEW t \in Timers \ L,
         NEW tl2, NEW nx2, NEW pv2,
         PutBehind(w, t, L, tl, nx, pv, tl2, nx2, pv2)
  PROVE  Chained(L \cup {t}, h, tl2, nx2, pv2)
<1> USE DEF PutBehind
<1>1. PICK n \in Nat : \E s \in [1..n -> L] : Chain(s, n, L, h, tl, nx, pv)
  BY DEF Chained
<1>s. PICK s \in [1..n -> L] : Chain(s, n, L, h, tl, nx, pv)
  BY <1>1
<1>2. /\ \A u \in L : \E i \in 1..n : s[i] = u
      /\ \A i, j \in 1..n : s[i] = s[j] => i = j
      /\ h = IF n = 0 THEN Null ELSE s[1]
      /\ n # 0 => tl = s[n]
      /\ \A i \in 1..n : nx[s[i]] = IF i = n THEN Null ELSE s[i + 1]
      /\ \A i \in 1..n : pv[s[i]] = IF i = 1 THEN Null ELSE s[i - 1]
  BY <1>s DEF Chain
<1>3. PICK k \in 1..n : s[k] = w
  BY <1>2
<1>4. PICK m \in Nat : m = n + 1
  OBVIOUS
<1> DEFINE r == [i \in 1..m |-> IF i <= k THEN s[i] ELSE IF i = k + 1 THEN t ELSE s[i - 1]]
<1>5. ASSUME NEW i \in 1..n, i <= k PROVE i \in 1..m /\ r[i] = s[i] /\ s[i] \in L
  BY <1>4, <1>5
<1>6. k + 1 \in 1..m /\ r[k + 1] = t
  BY <1>4
<1>7. ASSUME NEW i \in 1..n, i > k
      PROVE  i + 1 \in 1..m /\ r[i + 1] = s[i] /\ s[i] \in L
  <2>1. i + 1 \in 1..m /\ ~(i + 1 <= k) /\ i + 1 # k + 1 /\ (i + 1) - 1 = i
    BY <1>4, <1>7
  <2>2. r[i + 1] = s[(i + 1) - 1]
    BY <2>1
  <2> QED
    BY <2>1, <2>2
<1>8. \A j \in 1..m : \/ j \in 1..n /\ j <= k
                      \/ j = k + 1
                      \/ \E i \in 1..n : i > k /\ j = i + 1
  <2> SUFFICES ASSUME NEW j \in 1..m, j > k + 1 PROVE \E i \in 1..n : i > k /\ j = i + 1
    BY <1>4
  <2>1. j - 1 \in 1..n /\ j - 1 > k /\ j = (j - 1) + 1
    BY <1>4
  <2> QED
    BY <2>1
<1> HIDE DEF r
<1>9. r \in [1..m -> L \cup {t}]
  <2>1. ASSUME NEW j \in 1..m PROVE r[j] \in L \cup {t}
    <3>1. CASE j \in 1..n /\ j <= k
      BY <1>5, <3>1
    <3>2. CASE j = k + 1
      BY <1>6, <3>2
    <3>3. ASSUME NEW i \in 1..n, i > k, j = i + 1 PROVE r[j] \in L
      BY <1>7, <3>3
    <3> QED
      BY <1>8, <3>1, <3>2, <3>3
  <2> QED
    BY <2>1 DEF r
<1>10. ASSUME NEW u \in L \cup {t} PROVE \E i \in 1..m : r[i] = u
  <2>1. CASE u = t
    BY <1>6, <2>1
  <2>2. CASE u # t
    <3>1. PICK i \in 1..n : s[i] = u
      BY <1>2, <2>2
    <3> QED
      BY <1>5, <1>7, <3>1
  <2> QED
    BY <2>1, <2>2
<1>11. ASSUME NEW i \in 1..m, NEW j \in 1..m, r[i] = r[j] PROVE i = j
  <2>1. ASSUME NEW a \in 1..m, a # k + 1
        PROVE  \E b \in 1..n : r[a] = s[b] /\ s[b] \in L /\ b = (IF a <= k THEN a ELSE a - 1)
    <3>1. CASE a <= k
      <4>1. a \in 1..n
        BY <3>1
      <4> QED
        BY <1>5, <3>1, <4>1
    <3>2. CASE ~(a <= k)
      <4>1. PICK b \in 1..n : b > k /\ a = b + 1
        BY <1>8, <2>1, <3>2
      <4>2. r[a] = s[b] /\ s[b] \in L /\ b = a - 1
        BY <1>7, <4>1
      <4> QED
        BY <3>2, <4>2
    <3> QED
      BY <3>1, <3>2
  <2>2. CASE i = k + 1 \/ j = k + 1
    <3>1. \A a \in 1..m : r[a] = t => a = k + 1
      BY <2>1
    <3> QED
      BY <1>6, <1>11, <2>2, <3>1
  <2>3. CASE i # k + 1 /\ j # k + 1
    <3>1. PICK a \in 1..n : r[i] = s[a] /\ a = (IF i <= k THEN i ELSE i - 1)
      BY <2>1, <2>3
    <3>2. PICK b \in 1..n : r[j] = s[b] /\ b = (IF j <= k THEN j ELSE j - 1)
      BY <2>1, <2>3
    <3>3. s[a] = s[b]
      BY <1>11, <3>1, <3>2
    <3>4. a = b
      BY <1>2, <3>3
    <3> QED
      BY <2>3, <3>1, <3>2, <3>4
  <2> QED
    BY <2>2, <2>3
<1>12. h = IF m = 0 THEN Null ELSE r[1]
  <2>1. 1 \in 1..n /\ 1 <= k
    OBVIOUS
  <2>2. r[1] = s[1] /\ m # 0 /\ n # 0
    BY <1>4, <1>5, <2>1
  <2> QED
    BY <1>2, <2>2
<1>13. tl2 = r[m]
  <2>1. CASE k = n
    <3>1. nx[w] = Null /\ m = k + 1
      BY <1>2, <1>3, <1>4, <2>1
    <3> QED
      BY <1>6, <3>1
  <2>2. CASE k # n
    <3>1. n \in 1..n /\ n > k /\ k + 1 \in 1..n
      BY <2>2
    <3>2. r[m] = s[n] /\ tl = s[n]
      BY <1>2, <1>4, <1>7, <3>1
    <3>3. nx[w] = s[k + 1] /\ s[k + 1] \in L
      BY <1>2, <1>3, <2>2, <3>1
    <3>4. nx[w] # Null
      BY <3>3, TimersAssumption
    <3> QED
      BY <3>2, <3>4
  <2> QED
    BY <2>1, <2>2
<1>14. nx[w] = IF k = n THEN Null ELSE s[k + 1]
  BY <1>2, <1>3
<1>15. ASSUME NEW i \in 1..m
       PROVE  nx2[r[i]] = IF i = m THEN Null ELSE r[i + 1]
  <2>1. CASE i < k
    <3>1. i \in 1..n /\ i + 1 \in 1..n /\ i + 1 <= k /\ i # n /\ i # m
      BY <1>4, <2>1
    <3>2. r[i] = s[i] /\ r[i + 1] = s[i + 1] /\ s[i] \in L
      BY <1>5, <2>1, <3>1
    <3>3. s[i] # w /\ nx[s[i]] = s[i + 1]
      BY <1>2, <1>3, <2>1, <3>1
    <3> QED
      BY <3>1, <3>2, <3>3
  <2>2. CASE i = k
    <3>1. i # m /\ r[i] = w /\ r[i + 1] = t
      BY <1>3, <1>4, <1>5, <1>6, <2>2
    <3> QED
      BY <3>1
  <2>3. CASE i = k + 1
    <3>1. r[i] = t
      BY <1>6, <2>3
    <3>2. CASE k = n
      BY <1>4, <1>14, <2>3, <3>1, <3>2
    <3>3. CASE k # n
      <4>1. i # m /\ k + 1 \in 1..n /\ k + 1 > k
        BY <1>4, <2>3, <3>3
      <4>2. r[i + 1] = s[k + 1]
        BY <1>7, <2>3, <4>1
      <4> QED
        BY <1>14, <3>1, <3>3, <4>1, <4>2
    <3> QED
      BY <3>2, <3>3
  <2>4. CASE i > k + 1
    <3>1. PICK a \in 1..n : a > k /\ i = a + 1
      BY <1>8, <2>4
    <3>2. r[i] = s[a] /\ s[a] \in L
      BY <1>7, <3>1
    <3>3. nx2[r[i]] = IF a = n THEN Null ELSE s[a + 1]
      BY <1>2, <1>3, <3>1, <3>2, SMTT(30)
    <3>4. a = n <=> i = m
      BY <1>4, <3>1
    <3>5. a # n => r[i + 1] = s[a + 1]
      <4> SUFFICES ASSUME a # n PROVE r[i + 1] = s[a + 1]
        OBVIOUS
      <4>1. PICK b \in 1..n : b = a + 1 /\ b > k
        BY <3>1
      <4>2. r[b + 1] = s[b]
        BY <1>7, <4>1
      <4> QED
        BY <3>1, <4>1, <4>2
    <3> QED
      BY <3>3, <3>4, <3>5
  <2> QED
    BY <2>1, <2>2, <2>3, <2>4
<1>16. ASSUME NEW i \in 1..m
       PROVE  pv2[r[i]] = IF i = 1 THEN Null ELSE r[i - 1]
  <2>0. \A a \in 1..n : a # k + 1 => s[a] # nx[w]
    <3>1. CASE k = n
      BY <1>14, <3>1, TimersAssumption
    <3>2. CASE k # n
      <4>1. k + 1 \in 1..n
        BY <3>2
      <4> QED
        BY <1>2, <1>14, <3>2, <4>1
    <3> QED
      BY <3>1, <3>2
  <2>1. CASE i <= k
    <3>1. i \in 1..n /\ i # k + 1
      BY <2>1
    <3>2. r[i] = s[i] /\ s[i] \in L
      BY <1>5, <2>1, <3>1
    <3>3. pv2[s[i]] = IF i = 1 THEN Null ELSE s[i - 1]
      BY <1>2, <2>0, <3>1, <3>2
    <3>4. i # 1 => r[i - 1] = s[i - 1]
      <4> SUFFICES ASSUME i # 1 PROVE r[i - 1] = s[i - 1]
        OBVIOUS
      <4>1. i - 1 \in 1..n /\ i - 1 <= k
        BY <2>1
      <4> QED
        BY <1>5, <4>1
    <3> QED
      BY <3>2, <3>3, <3>4
  <2>2. CASE i = k + 1
    <3>1. r[i] = t /\ i # 1 /\ i - 1 = k
      BY <1>6, <2>2
    <3>2. r[k] = w
      BY <1>3, <1>5
    <3> QED
      BY <3>1, <3>2
  <2>3. CASE i = k + 2
    <3>1. PICK a \in 1..n : a = k + 1 /\ i = a + 1 /\ a > k
      BY <1>4, <2>3
    <3>2. r[i] = s[a] /\ s[a] = nx[w] /\ nx[w] # Null
      <4>1. k # n /\ s[a] \in L
        BY <3>1
      <4> QED
        BY <1>7, <1>14, <3>1, <4>1, TimersAssumption
    <3>3. i # 1 /\ r[i - 1] = t
      BY <1>6, <3>1
    <3> QED
      BY <3>2, <3>3
  <2>4. CASE i > k + 2
    <3>1. PICK a \in 1..n : a > k /\ i = a + 1 /\ a # k + 1 /\ a # 1
      BY <1>8, <2>4
    <3>2. r[i] = s[a] /\ s[a] \in L
      BY <1>7, <3>1
    <3>3. pv2[r[i]] = s[a - 1]
      BY <1>2, <2>0, <3>1, <3>2
    <3>4. PICK b \in 1..n : b = a - 1 /\ b > k /\ i - 1 = b + 1
      BY <2>4, <3>1
    <3>5. r[b + 1] = s[b]
      BY <1>7, <3>4
    <3> QED
      BY <2>4, <3>3, <3>4, <3>5
  <2> QED
    BY <2>1, <2>2, <2>3, <2>4
<1>17. Chain(r, m, L \cup {t}, h, tl2, nx2, pv2)
  BY <1>9, <1>10, <1>11, <1>12, <1>13, <1>15, <1>16 DEF Chain
<1> QED
  BY <1>9, <1>17 DEF Chained


LEMMA ChainFront ==
  ASSUME NEW L \in SUBSET Timers, NEW h, NEW tl, NEW nx, NEW pv,
         Chained(L, h, tl, nx, pv), NEW t \in Timers \ L,
         NEW tl2, NEW nx2, NEW pv2,
         PutFirst(t, L, h, tl, nx, pv, tl2, nx2, pv2)
  PROVE  Chained(L \cup {t}, t, tl2, nx2, pv2)
<1> USE DEF PutFirst
<1>1. PICK n \in Nat : \E s \in [1..n -> L] : Chain(s, n, L, h, tl, nx, pv)
  BY DEF Chained
<1>s. PICK s \in [1..n -> L] : Chain(s, n, L, h, tl, nx, pv)
  BY <1>1
<1>2. /\ \A u \in L : \E i \in 1..n : s[i] = u
      /\ \A i, j \in 1..n : s[i] = s[j] => i = j
      /\ h = IF n = 0 THEN Null ELSE s[1]
      /\ n # 0 => tl = s[n]
      /\ \A i \in 1..n : nx[s[i]] = IF i = n THEN Null ELSE s[i + 1]
      /\ \A i \in 1..n : pv[s[i]] = IF i = 1 THEN Null ELSE s[i - 1]
  BY <1>s DEF Chain
<1>3. PICK m \in Nat : m = n + 1
  OBVIOUS
<1>4. L = {} <=> n = 0
  <2>1. n # 0 => s[1] \in L
    OBVIOUS
  <2> QED
    BY <1>2, <2>1
<1> DEFINE r == [i \in 1..m |-> IF i = 1 THEN t ELSE s[i - 1]]
<1>5. 1 \in 1..m /\ r[1] = t
  BY <1>3
<1>6. ASSUME NEW i \in 1..n PROVE i + 1 \in 1..m /\ r[i + 1] = s[i] /\ s[i] \in L
  <2>1. i + 1 \in 1..m /\ i + 1 # 1 /\ (i + 1) - 1 = i
    BY <1>3
  <2>2. r[i + 1] = s[(i + 1) - 1]
    BY <2>1
  <2> QED
    BY <2>1, <2>2
<1>7. ASSUME NEW j \in 1..m, j # 1 PROVE \E i \in 1..n : j = i + 1
  <2>1. j - 1 \in 1..n /\ j = (j - 1) + 1
    BY <1>3, <1>7
  <2> QED
    BY <2>1
<1> HIDE DEF r
<1>8. r \in [1..m -> L \cup {t}]
  <2>1. ASSUME NEW j \in 1..m PROVE r[j] \in L \cup {t}
    <3>1. CASE j = 1
      BY <1>5, <3>1
    <3>2. ASSUME NEW i \in 1..n, j = i + 1 PROVE r[j] \in L
      BY <1>6, <3>2
    <3> QED
      BY <1>7, <3>1, <3>2
  <2> QED
    BY <2>1 DEF r
<1>9. ASSUME NEW u \in L \cup {t} PROVE \E i \in 1..m : r[i] = u
  <2>1. CASE u = t
    BY <1>5, <2>1
  <2>2. CASE u # t
    <3>1. PICK i \in 1..n : s[i] = u
      BY <1>2, <2>2
    <3> QED
      BY <1>6, <3>1
  <2> QED
    BY <2>1, <2>2
<1>10. ASSUME NEW i \in 1..m, NEW j \in 1..m, r[i] = r[j] PROVE i = j
  <2>1. ASSUME NEW a \in 1..m, r[a] = t PROVE a = 1
    <3>1. ASSUME NEW b \in 1..n, a = b + 1 PROVE FALSE
      BY <1>6, <2>1, <3>1
    <3> QED
      BY <1>7, <3>1
  <2>2. CASE i = 1 \/ j = 1
    BY <1>5, <1>10, <2>1, <2>2
  <2>3. CASE i # 1 /\ j # 1
    <3>1. PICK a \in 1..n : i = a + 1 /\ r[i] = s[a]
      BY <1>6, <1>7, <2>3
    <3>2. PICK b \in 1..n : j = b + 1 /\ r[j] = s[b]
      BY <1>6, <1>7, <2>3
    <3>3. s[a] = s[b]
      BY <1>10, <3>1, <3>2
    <3>4. a = b
      BY <1>2, <3>3
    <3> QED
      BY <3>1, <3>2, <3>4
  <2> QED
    BY <2>2, <2>3
<1>11. tl2 = r[m]
  <2>1. CASE n = 0
    BY <1>3, <1>4, <1>5, <2>1
  <2>2. CASE n # 0
    <3>1. n \in 1..n /\ m = n + 1
      BY <1>3, <2>2
    <3> QED
      BY <1>2, <1>4, <1>6, <2>2, <3>1
  <2> QED
    BY <2>1, <2>2
<1>12. ASSUME NEW i \in 1..m
       PROVE  /\ nx2[r[i]] = IF i = m THEN Null ELSE r[i + 1]
              /\ pv2[r[i]] = IF i = 1 THEN Null ELSE r[i - 1]
  <2>1. CASE i = 1
    <3>1. nx2[r[i]] = h /\ pv2[r[i]] = Null
      BY <1>5, <2>1
    <3>2. n # 0 => r[2] = s[1] /\ 1 + 1 = 2
      BY <1>6
    <3> QED
      BY <1>2, <1>3, <2>1, <3>1, <3>2
  <2>2. CASE i # 1
    <3>1. PICK a \in 1..n : i = a + 1 /\ r[i] = s[a] /\ s[a] \in L
      BY <1>6, <1>7, <2>2
    <3>2. nx2[r[i]] = IF a = n THEN Null ELSE s[a + 1]
      BY <1>2, <3>1
    <3>3. a # n => r[i + 1] = s[a + 1]
      <4> SUFFICES ASSUME a # n PROVE r[i + 1] = s[a + 1]
        OBVIOUS
      <4>1. PICK b \in 1..n : b = a + 1
        OBVIOUS
      <4>2. r[b + 1] = s[b]
        BY <1>6
      <4> QED
        BY <3>1, <4>1, <4>2
    <3>4. a = n <=> i = m
      BY <1>3, <3>1
    <3>5. i - 1 = a
      BY <3>1
    <3>6. CASE a = 1
      <4>1. s[a] = h /\ n # 0
        BY <1>2, <3>6
      <4>2. pv2[r[i]] = t
        BY <1>4, <3>1, <4>1
      <4> QED
        BY <1>5, <2>2, <3>2, <3>3, <3>4, <3>5, <3>6, <4>2
    <3>7. CASE a # 1
      <4>1. PICK b \in 1..n : b = a - 1 /\ b + 1 = a
        BY <3>7
      <4>2. 1 \in 1..n /\ s[a] # s[1] /\ h = s[1]
        BY <1>2, <3>7
      <4>3. pv2[r[i]] = s[b]
        BY <1>2, <3>1, <3>7, <4>1, <4>2
      <4>4. r[b + 1] = s[b]
        BY <1>6
      <4> QED
        BY <2>2, <3>2, <3>3, <3>4, <3>5, <4>1, <4>3, <4>4
    <3> QED
      BY <3>6, <3>7
  <2> QED
    BY <2>1, <2>2
<1>13. m # 0 /\ t = r[1]
  BY <1>3, <1>5
<1>14. Chain(r, m, L \cup {t}, t, tl2, nx2, pv2)
  BY <1>8, <1>9, <1>10, <1>11, <1>12, <1>13 DEF Chain
<1> QED
  BY <1>8, <1>14 DEF Chained


-----------------------------------------------------------------------------
(***************************************************************************)
(* Types.                                                                  *)
(***************************************************************************)
LEMMA TypedStep == Typed /\ [Next]_vars => Typed'
<1> SUFFICES ASSUME Typed, [Next]_vars PROVE Typed'
  OBVIOUS
<1> USE TimersAssumption DEF Typed, TypeOK, links, clock, locals
<1>1. now + Life \in 0..(MaxTime + Life) /\ 0 \in 0..(MaxTime + Life)
  OBVIOUS
<1>2. ASSUME NEW t \in Timers, Add(t) PROVE Typed'
  BY <1>1, <1>2 DEF Add, AddFirst, AddFront, AddBehind, New, Walk
<1>3. ASSUME NEW t \in Timers, Adjust(t) PROVE Typed'
  BY <1>1, <1>3 DEF Adjust, AdjustInPlace, AdjustHead, AdjustMiddle, Touch, Walk,
      InPlace
<1>4. ASSUME NEW t \in Timers, Del(t) PROVE Typed'
  BY <1>1, <1>4 DEF Del, DelOnly, DelHead, DelTail, DelMiddle, Unlink, Delete
<1>5. CASE WalkStep
  BY <1>5 DEF WalkStep, WalkOn, WalkInsert, WalkAppend, Searching, Found
<1>6. CASE TickStart \/ TickStep
  BY <1>1, <1>6 DEF TickStart, TickStep, TickFire, TickEnd, Delete
<1>7. CASE Advance \/ SetBack
  BY <1>7 DEF Advance, SetBack, SetClock
<1>8. CASE UNCHANGED vars
  BY <1>8 DEF vars
<1> QED
  BY <1>2, <1>3, <1>4, <1>5, <1>6, <1>7, <1>8 DEF Next

\* Every variable keeps its type: head, tail, the cursors of add_timer and tick
\* and both links of a timer are timers of the pool or NULL, whatever way the
\* clock is set.
THEOREM TypeCorrect == Spec => []TypeOK
<1>1. Init => Typed
  BY TimersAssumption DEF Init, Typed, TypeOK
<1>2. Typed => TypeOK
  BY DEF Typed
<1> QED
  BY <1>1, <1>2, TypedStep, PTL DEF Spec


-----------------------------------------------------------------------------
(***************************************************************************)
(* The list.                                                               *)
(***************************************************************************)
LEMMA LinkedIs ==
  ASSUME Typed
  PROVE  /\ Linked \in SUBSET Timers /\ Linked \subseteq live
         /\ pc # "walk" => Linked = live
         /\ pc = "walk" => Linked = live \ {timer}
BY DEF Typed, TypeOK, Linked

LEMMA Neighbours == ASSUME Kept PROVE Neighbourly(Linked, head, tail, next, prev)
<1>1. Linked \in SUBSET Timers /\ Chained(Linked, head, tail, next, prev)
  BY LinkedIs DEF Kept, Linking
<1> QED
  BY <1>1, ChainLinks

\* The list, its order and the bound of the deadlines while nothing is linked
\* or unlinked.
LEMMA SameList ==
  ASSUME Kept, Linked' = Linked, UNCHANGED <<head, tail, next, prev>>,
         TypeOK', Steady' => Steady /\ now <= now',
         \A t \in Linked : expire'[t] = expire[t],
         \A t \in live' : (t \in live /\ expire'[t] = expire[t])
                          \/ expire'[t] = now' + Life
  PROVE  Linking' /\ Ordered'
<1>1. Linking'
  BY DEF Kept, Linking
<1>2. \A t \in Linked : next[t] # Null => next[t] \in Linked
  BY Neighbours DEF Neighbourly
<1>3. /\ now \in Nat /\ now' \in Nat /\ Life \in Nat
      /\ \A t \in live : expire[t] \in Nat
  <2>1. TypeOK
    BY DEF Kept, Typed
  <2> QED
    BY <2>1, TimersAssumption DEF TypeOK
<1>4. ASSUME Steady' PROVE \A t \in live' : expire'[t] <= now' + Life
  BY <1>3, <1>4 DEF Kept, Ordered
<1>5. Ordered'
  BY <1>2, <1>4 DEF Kept, Ordered
<1> QED
  BY <1>1, <1>5

\* A timer is taken out of the list.
Unlinks(t) ==
  /\ Cut(t, live, head, tail, next, prev, head', tail', next', prev')
  /\ \A u \in live \ {t} : expire'[u] = expire[u]

LEMMA UnlinksKept ==
  ASSUME Kept, pc # "walk", NEW t \in live, Unlinks(t), Linked' = live \ {t},
         UNCHANGED <<now, back>>,
         \A u \in live' : (u \in live /\ expire'[u] = expire[u])
                          \/ expire'[u] = now + Life
  PROVE  Linking' /\ Ordered'
<1>0. Linked = live /\ live \in SUBSET Timers
  BY LinkedIs DEF Kept
<1>1. Linking'
  <2>1. Chained(live, head, tail, next, prev)
    BY <1>0 DEF Kept, Linking
  <2>2. Cut(t, live, head, tail, next, prev, head', tail', next', prev')
    BY DEF Unlinks
  <2>3. Chained(live \ {t}, head', tail', next', prev')
    BY <1>0, <2>1, <2>2, ChainRemove
  <2> QED
    BY <2>3 DEF Linking
<1>2. expire \in [Timers -> 0..(MaxTime + Life)] /\ MaxTime + Life \in Nat /\ now + Life \in Nat
  BY TimersAssumption DEF Kept, Typed, TypeOK
<1>a. \A u \in live \ {t} : next'[u] # Null => next'[u] \in live \ {t}
  <2>1. Chained(live \ {t}, head', tail', next', prev') /\ live \ {t} \in SUBSET Timers
    BY <1>0, <1>1 DEF Linking
  <2>2. Neighbourly(live \ {t}, head', tail', next', prev')
    BY <2>1, ChainLinks
  <2> QED
    BY <2>2 DEF Neighbourly
<1>3. ASSUME Steady, NEW u \in live \ {t}, next'[u] # Null
      PROVE  expire'[u] <= expire'[next'[u]]
  <2>1. \A v \in live : next[v] # Null =>
          next[v] \in live /\ next[v] # v /\ expire[v] <= expire[next[v]]
    BY <1>0, <1>3, Neighbours DEF Kept, Ordered, Neighbourly
  <2>2. \A v \in live : expire[v] \in Nat
    BY <1>0, <1>2
  <2>3. CASE next[u] = t
    <3>1. next'[u] = next[t] /\ t # Null
      BY <1>0, <2>3, TimersAssumption DEF Unlinks, Cut
    <3>3. expire'[next'[u]] = expire[next[t]] /\ next[t] # Null
      BY <1>3, <1>a, <3>1 DEF Unlinks, Cut
    <3>4. expire[u] <= expire[t] /\ expire[t] <= expire[next[t]] /\ expire'[u] = expire[u]
      BY <1>3, <2>1, <2>3, <3>1 DEF Unlinks, Cut
    <3> QED
      BY <2>1, <2>2, <3>1, <3>3, <3>4
  <2>4. CASE next[u] # t
    <3>1. next'[u] = next[u] /\ next[u] \in live \ {t}
      BY <1>3, <1>a, <2>4 DEF Unlinks, Cut
    <3>2. expire'[u] = expire[u] /\ expire'[next[u]] = expire[next[u]]
      BY <3>1 DEF Unlinks, Cut
    <3>3. expire[u] <= expire[next[u]]
      BY <1>3, <2>1, <3>1
    <3> QED
      BY <3>1, <3>2, <3>3
  <2> QED
    BY <2>3, <2>4
<1>4. Ordered'
  BY <1>2, <1>3 DEF Kept, Ordered, Steady
<1> QED
  BY <1>1, <1>4


LEMMA KeptInit == Init => Kept
<1> SUFFICES ASSUME Init PROVE Kept
  OBVIOUS
<1>1. Typed
  BY TimersAssumption DEF Init, Typed, TypeOK
<1>2. Linked = {} /\ live = {} /\ pc = "idle"
  BY DEF Init, Linked
<1>3. Linking
  <2>1. PICK s \in [1..0 -> {}] : TRUE
    <3>1. [i \in 1..0 |-> i] \in [1..0 -> {}]
      OBVIOUS
    <3> QED
      BY <3>1
  <2>2. Chain(s, 0, {}, head, tail, next, prev)
    BY DEF Chain, Init
  <2> QED
    BY <1>2, <2>2 DEF Linking, Chained
<1>4. Walking /\ Cleared /\ Ordered
  BY <1>2 DEF Walking, Cleared, Ordered, Init
<1> QED
  BY <1>1, <1>3, <1>4 DEF Kept

LEMMA AddKept ==
  ASSUME Kept, Typed', NEW t \in Timers, Add(t) PROVE Kept'
<1> USE DEF links, clock, locals
<1>1. /\ pc = "idle" /\ t \notin live /\ live' = live \cup {t}
      /\ expire' = [expire EXCEPT ![t] = now + Life] /\ UNCHANGED clock
  BY DEF Add, AddFirst, AddFront, AddBehind, New
<1>2. /\ Linked = live /\ live \in SUBSET Timers /\ t # Null
      /\ next[t] = Null /\ prev[t] = Null
      /\ next \in [Timers -> Timers \cup {Null}]
      /\ prev \in [Timers -> Timers \cup {Null}]
      /\ expire \in [Timers -> 0..(MaxTime + Life)] /\ now + Life \in Nat
  BY <1>1, LinkedIs, TimersAssumption DEF Kept, Typed, TypeOK, Cleared
<1>3. /\ Neighbourly(live, head, tail, next, prev)
      /\ Chained(live, head, tail, next, prev)
  BY <1>2, Neighbours DEF Kept, Linking
<1>4. /\ expire'[t] = now + Life /\ \A u \in live : expire'[u] = expire[u] /\ u # t
      /\ \A u \in live : expire[u] \in Nat
  BY <1>1, <1>2
<1>5. Cleared' <=> \A u \in Timers \ live' : next'[u] = Null /\ prev'[u] = Null
  BY DEF Cleared
<1>6. ASSUME AddFirst(t) \/ AddFront(t) PROVE Kept'
  <2>1. /\ pc' = "idle" /\ Linked' = live \cup {t} /\ head' = t
    BY <1>1, <1>6 DEF AddFirst, AddFront, Linked
  <2>2. PutFirst(t, live, head, tail, next, prev, tail', next', prev')
    <3>1. CASE AddFirst(t)
      BY <1>2, <1>3, <3>1 DEF AddFirst, PutFirst, Neighbourly
    <3>2. CASE AddFront(t)
      <4>1. head \in live /\ live # {} /\ head # t
        BY <1>3, <1>4, <3>2 DEF AddFront, Neighbourly
      <4>2. /\ next' = [next EXCEPT ![t] = head]
            /\ prev' = [prev EXCEPT ![head] = t] /\ tail' = tail
        BY <3>2 DEF AddFront
      <4>3. next'[t] = head /\ prev'[t] = Null /\ prev'[head] = t
        BY <1>2, <4>1, <4>2
      <4>4. \A u \in live : next'[u] = next[u] /\ (u # head => prev'[u] = prev[u])
        BY <1>2, <1>4, <4>2
      <4> QED
        BY <4>1, <4>2, <4>3, <4>4 DEF PutFirst
    <3> QED
      BY <1>6, <3>1, <3>2
  <2>3. Linking'
    <3>1. t \in Timers \ live
      BY <1>1
    <3>2. Chained(live \cup {t}, t, tail', next', prev')
      BY <1>2, <1>3, <2>2, <3>1, ChainFront
    <3> QED
      BY <2>1, <3>2 DEF Linking
  <2>4. \A u \in Timers \ (live \cup {t}) : next'[u] = Null /\ prev'[u] = Null
    <3>1. \A u \in Timers \ (live \cup {t}) : next'[u] = next[u] /\ prev'[u] = prev[u]
      <4>1. CASE AddFirst(t)
        BY <4>1 DEF AddFirst
      <4>2. CASE AddFront(t)
        BY <1>2, <1>3, <4>2 DEF AddFront, Neighbourly
      <4> QED
        BY <1>6, <4>1, <4>2
    <3> QED
      BY <3>1 DEF Kept, Cleared
  <2>5. Ordered'
    <3>1. \A u \in live : next'[u] = next[u] /\ next[u] \in live \cup {Null}
      BY <1>3, <2>2 DEF PutFirst, Neighbourly
    <3>2. next'[t] = head /\ (head # Null => head \in live /\ now + Life < expire[head])
      <4>1. CASE AddFirst(t)
        BY <2>2, <4>1 DEF AddFirst, PutFirst
      <4>2. CASE AddFront(t)
        BY <1>3, <1>4, <2>2, <4>2 DEF AddFront, PutFirst, Neighbourly
      <4> QED
        BY <1>6, <4>1, <4>2
    <3>3. /\ \A u \in live' : Steady => expire'[u] <= now + Life
          /\ \A u \in live : Steady /\ next[u] # Null => expire[u] <= expire[next[u]]
      BY <1>1, <1>2, <1>4 DEF Kept, Ordered
    <3>4. ASSUME Steady, NEW u \in live \cup {t}, next'[u] # Null
          PROVE  expire'[u] <= expire'[next'[u]]
      <4>1. CASE u = t
        BY <1>2, <1>4, <3>2, <3>4, <4>1
      <4>2. CASE u # t
        BY <1>4, <3>1, <3>3, <3>4, <4>2
      <4> QED
        BY <4>1, <4>2
    <3> QED
      BY <1>1, <2>1, <3>3, <3>4 DEF Ordered, Steady
  <2>6. Walking'
    BY <2>1 DEF Walking
  <2> QED
    BY <1>1, <1>5, <2>3, <2>4, <2>5, <2>6 DEF Kept
<1>7. CASE AddBehind(t)
  <2>1. /\ UNCHANGED <<head, tail, next, prev>> /\ head # Null
        /\ expire'[t] >= expire[head]
        /\ pc' = "walk" /\ timer' = t /\ walker' = head
    BY <1>7 DEF AddBehind, Walk
  <2>2. Linked' = live /\ head \in live
    BY <1>1, <1>3, <2>1 DEF Linked, Neighbourly
  <2>3. TypeOK' /\ (Steady' <=> Steady) /\ now <= now'
    BY <1>1 DEF Typed, Kept, TypeOK, Steady
  <2>4. Linking' /\ Ordered'
    BY <1>1, <1>2, <1>4, <2>1, <2>2, <2>3, SameList
  <2>5. Walking'
    BY <1>1, <1>4, <2>1, <2>2 DEF Walking
  <2>6. Cleared'
    BY <1>1, <2>1 DEF Kept, Cleared
  <2> QED
    BY <2>4, <2>5, <2>6 DEF Kept
<1> QED
  BY <1>6, <1>7 DEF Add

LEMMA WalkKept ==
  ASSUME Kept, Typed', WalkStep PROVE Kept'
<1> USE DEF links, clock, locals
<1>1. pc = "walk" /\ UNCHANGED <<head, expire, live, now, back>>
  BY DEF WalkStep, WalkOn, WalkInsert, WalkAppend, Searching, Found
<1>2. /\ Linked = live \ {timer} /\ Linked \in SUBSET Timers /\ timer \in live
      /\ timer \in Timers \ Linked /\ timer # Null /\ walker \in Linked
      /\ next \in [Timers -> Timers \cup {Null}]
      /\ prev \in [Timers -> Timers \cup {Null}]
  BY <1>1, LinkedIs, TimersAssumption DEF Kept, Typed, TypeOK, Walking
<1>3. /\ Neighbourly(Linked, head, tail, next, prev)
      /\ Chained(Linked, head, tail, next, prev)
      /\ \A u \in Linked : next[u] \in Linked \cup {Null}
  BY Neighbours DEF Kept, Linking, Neighbourly
<1>4. /\ \A u \in live : expire[u] \in Nat
      /\ expire[walker] <= expire[timer]
      /\ \A u \in live : Steady => expire[u] <= now + Life
      /\ \A u \in Linked : Steady /\ next[u] # Null => expire[u] <= expire[next[u]]
  BY <1>1, <1>2, TimersAssumption DEF Kept, Typed, TypeOK, Walking, Ordered
<1>5. CASE WalkOn
  <2>1. /\ UNCHANGED <<tail, next, prev, pc, timer>> /\ walker' = next[walker]
        /\ next[walker] # Null /\ expire[timer] >= expire[next[walker]]
    BY <1>5 DEF WalkOn
  <2>2. Linked' = Linked /\ walker' \in Linked /\ walker' \in live
    BY <1>1, <1>2, <1>3, <2>1 DEF Linked
  <2>3. Walking'
    BY <1>1, <1>2, <1>4, <2>1, <2>2 DEF Walking
  <2>4. Linking' /\ Cleared' /\ Ordered'
    BY <1>1, <2>1, <2>2 DEF Kept, Linking, Cleared, Ordered, Steady
  <2> QED
    BY <2>3, <2>4 DEF Kept
<1>6. ASSUME WalkInsert \/ WalkAppend PROVE Kept'
  <2>1. pc' = "idle" /\ Linked' = Linked \cup {timer}
    BY <1>1, <1>2, <1>6 DEF WalkInsert, WalkAppend, Found, Linked
  <2>2. PutBehind(walker, timer, Linked, tail, next, prev, tail', next', prev')
    <3>1. CASE WalkInsert
      <4>1. /\ next[walker] # Null /\ next[walker] \in Linked /\ tail' = tail
            /\ next' = [next EXCEPT ![walker] = timer, ![timer] = next[walker]]
            /\ prev' = [prev EXCEPT ![next[walker]] = timer, ![timer] = walker]
        BY <1>2, <1>3, <3>1 DEF WalkInsert
      <4>2. /\ next'[walker] = timer /\ next'[timer] = next[walker]
            /\ prev'[timer] = walker /\ prev'[next[walker]] = timer
        BY <1>2, <4>1
      <4>3. \A u \in Linked : (u # walker => next'[u] = next[u])
                              /\ (u # next[walker] => prev'[u] = prev[u])
        BY <1>2, <4>1
      <4> QED
        BY <4>1, <4>2, <4>3 DEF PutBehind
    <3>2. CASE WalkAppend
      <4>1. /\ next[walker] = Null /\ tail' = timer
            /\ next' = [next EXCEPT ![walker] = timer, ![timer] = Null]
            /\ prev' = [prev EXCEPT ![timer] = walker]
        BY <3>2 DEF WalkAppend
      <4>2. next'[walker] = timer /\ next'[timer] = Null /\ prev'[timer] = walker
        BY <1>2, <4>1
      <4>3. \A u \in Linked : (u # walker => next'[u] = next[u]) /\ prev'[u] = prev[u]
        BY <1>2, <4>1
      <4> QED
        BY <4>1, <4>2, <4>3 DEF PutBehind
    <3> QED
      BY <1>6, <3>1, <3>2
  <2>3. Linking'
    <3>1. Chained(Linked \cup {timer}, head, tail', next', prev')
      BY <1>2, <1>3, <2>2, ChainInsert
    <3> QED
      BY <1>1, <2>1, <3>1 DEF Linking
  <2>4. Walking'
    BY <2>1 DEF Walking
  <2>5. Cleared'
    <3>1. \A u \in Timers \ live : next'[u] = next[u] /\ prev'[u] = prev[u]
      <4>1. CASE WalkInsert
        BY <1>2, <1>3, <4>1 DEF WalkInsert
      <4>2. CASE WalkAppend
        BY <1>2, <4>2 DEF WalkAppend
      <4> QED
        BY <1>6, <4>1, <4>2
    <3> QED
      BY <1>1, <3>1 DEF Kept, Cleared
  <2>6. ASSUME Steady, NEW u \in Linked \cup {timer}, next'[u] # Null
        PROVE  expire[u] <= expire[next'[u]]
    <3>1. next[walker] # Null => expire[timer] < expire[next[walker]]
      BY <1>6 DEF WalkInsert, WalkAppend
    <3>2. CASE u = timer
      <4>1. next'[u] = next[walker] /\ next[walker] \in live
        BY <1>2, <1>3, <2>2, <2>6, <3>2 DEF PutBehind
      <4> QED
        BY <1>2, <1>4, <2>6, <3>1, <3>2, <4>1
    <3>3. CASE u = walker
      BY <1>4, <2>2, <3>3 DEF PutBehind
    <3>4. CASE u \in Linked /\ u # walker
      BY <1>4, <2>2, <2>6, <3>4 DEF PutBehind
    <3> QED
      BY <3>2, <3>3, <3>4
  <2>7. Ordered'
    BY <1>1, <1>4, <2>1, <2>6 DEF Ordered, Steady
  <2> QED
    BY <2>3, <2>4, <2>5, <2>7 DEF Kept
<1> QED
  BY <1>5, <1>6 DEF WalkStep


LEMMA AdjustKept ==
  ASSUME Kept, Typed', NEW t \in Timers, Adjust(t) PROVE Kept'
<1> USE DEF links, clock, locals
<1>1. /\ pc = "idle" /\ t \in live /\ UNCHANGED <<tail, live, now, back>>
      /\ expire' = [expire EXCEPT ![t] = now + Life]
  BY DEF Adjust, AdjustInPlace, AdjustHead, AdjustMiddle, Touch
<1>2. /\ Linked = live /\ live \in SUBSET Timers /\ t # Null
      /\ next \in [Timers -> Timers \cup {Null}]
      /\ prev \in [Timers -> Timers \cup {Null}]
      /\ expire \in [Timers -> 0..(MaxTime + Life)] /\ now \in Nat /\ now + Life \in Nat
  BY <1>1, LinkedIs, TimersAssumption DEF Kept, Typed, TypeOK
<1>3. Neighbourly(live, head, tail, next, prev)
  BY <1>2, Neighbours
<1>4. /\ expire'[t] = now + Life /\ \A u \in live \ {t} : expire'[u] = expire[u]
      /\ \A u \in live : expire[u] \in Nat
      /\ \A u \in live' : (u \in live /\ expire'[u] = expire[u])
                          \/ expire'[u] = now + Life
  BY <1>1, <1>2
<1>5. CASE AdjustInPlace(t)
  <2>1. /\ UNCHANGED <<head, next, prev, pc, timer, walker>>
        /\ (next[t] # Null => now + Life < expire[next[t]])
    BY <1>5 DEF AdjustInPlace, InPlace
  <2>2. Linked' = live
    BY <1>1, <2>1 DEF Linked
  <2>3. Linking' /\ Walking' /\ Cleared'
    BY <1>1, <1>2, <2>1, <2>2 DEF Kept, Linking, Walking, Cleared
  <2>4. ASSUME Steady, NEW u \in live, next[u] # Null PROVE expire'[u] <= expire'[next[u]]
    <3>1. next[u] \in live /\ next[u] # u
      BY <1>3, <2>4 DEF Neighbourly
    <3>2. expire[u] <= expire[next[u]] /\ expire[u] <= now + Life
      BY <1>2, <2>4 DEF Kept, Ordered
    <3>3. CASE u = t
      BY <1>2, <1>4, <2>1, <2>4, <3>1, <3>3
    <3>4. CASE next[u] = t
      BY <1>4, <3>1, <3>2, <3>4
    <3>5. CASE u # t /\ next[u] # t
      BY <1>4, <3>1, <3>2, <3>5
    <3> QED
      BY <3>3, <3>4, <3>5
  <2>5. ASSUME Steady, NEW u \in live PROVE expire'[u] <= now + Life
    BY <1>2, <1>4, <2>5 DEF Kept, Ordered
  <2>6. Ordered'
    BY <1>1, <2>1, <2>2, <2>4, <2>5 DEF Ordered, Steady
  <2> QED
    BY <2>3, <2>6 DEF Kept
<1>6. ASSUME AdjustHead(t) \/ AdjustMiddle(t) PROVE Kept'
  <2>1. /\ pc' = "walk" /\ timer' = t /\ walker' = next[t]
        /\ next[t] # Null /\ now + Life >= expire[next[t]]
    BY <1>2, <1>3, <1>6 DEF AdjustHead, AdjustMiddle, Walk, InPlace, Neighbourly
  <2>2. next[t] \in live /\ next[t] # t
    BY <1>1, <1>3, <2>1 DEF Neighbourly
  <2>3. Linked' = live \ {t}
    BY <1>1, <2>1 DEF Linked
  <2>4. Cut(t, live, head, tail, next, prev, head', tail', next', prev')
    <3>0. tail' = tail /\ tail # t
      BY <1>1, <1>3, <2>1 DEF Neighbourly
    <3>1. CASE AdjustHead(t)
      <4>1. /\ t = head /\ head' = next[t] /\ prev[t] = Null
            /\ prev' = [prev EXCEPT ![next[t]] = Null]
            /\ next' = [next EXCEPT ![t] = Null]
        BY <1>1, <1>3, <3>1 DEF AdjustHead, Neighbourly
      <4>2. ASSUME NEW u \in live \ {t}
            PROVE  /\ next'[u] = next[u] /\ next[u] # t
                   /\ prev'[u] = IF prev[u] = t THEN Null ELSE prev[u]
        <5>0. (next[u] = t <=> prev[t] = u) /\ u # Null
          BY <1>1, <1>2, <1>3, TimersAssumption DEF Neighbourly
        <5>1. next[u] # t
          BY <4>1, <5>0
        <5>2. prev[u] = t <=> u = next[t]
          BY <1>1, <1>3 DEF Neighbourly
        <5> QED
          BY <1>2, <4>1, <5>1, <5>2
      <4> QED
        BY <3>0, <4>1, <4>2 DEF Cut
    <3>2. CASE AdjustMiddle(t)
      <4>1. /\ t # head /\ head' = head /\ prev[t] \in live
            /\ next' = [next EXCEPT ![prev[t]] = next[t]]
            /\ prev' = [prev EXCEPT ![next[t]] = prev[t]]
        BY <1>1, <1>3, <3>2 DEF AdjustMiddle, Neighbourly
      <4>2. ASSUME NEW u \in live \ {t}
            PROVE  /\ next'[u] = IF next[u] = t THEN next[t] ELSE next[u]
                   /\ prev'[u] = IF prev[u] = t THEN prev[t] ELSE prev[u]
        <5>1. (prev[u] = t <=> u = next[t]) /\ (next[u] = t <=> u = prev[t])
          BY <1>1, <1>3 DEF Neighbourly
        <5> QED
          BY <1>2, <4>1, <5>1
      <4> QED
        BY <3>0, <4>1, <4>2 DEF Cut
    <3> QED
      BY <1>6, <3>1, <3>2
  <2>5. Linking' /\ Ordered'
    BY <1>1, <1>4, <2>3, <2>4, UnlinksKept DEF Unlinks
  <2>6. Walking'
    BY <1>1, <1>4, <2>1, <2>2, <2>3 DEF Walking
  <2>7. Cleared'
    <3>1. \A u \in Timers \ live : next'[u] = next[u] /\ prev'[u] = prev[u]
      <4>1. CASE AdjustHead(t)
        BY <1>1, <1>2, <2>2, <4>1 DEF AdjustHead
      <4>2. CASE AdjustMiddle(t)
        BY <1>1, <1>2, <1>3, <2>2, <4>2 DEF AdjustMiddle, Neighbourly
      <4> QED
        BY <1>6, <4>1, <4>2
    <3> QED
      BY <1>1, <3>1 DEF Kept, Cleared
  <2> QED
    BY <2>5, <2>6, <2>7 DEF Kept
<1> QED
  BY <1>5, <1>6 DEF Adjust

\* A timer is deleted: by del_timer, or at the head by tick.
LEMMA DeleteKept ==
  ASSUME Kept, Typed', NEW t \in live, pc # "walk", pc' # "walk", Delete(t),
         Cut(t, live, head, tail, next, prev, head', tail', next', prev'),
         next'[t] = Null, prev'[t] = Null,
         \A u \in Timers \ live : next'[u] = next[u] /\ prev'[u] = prev[u]
  PROVE  Kept'
<1> USE DEF clock
<1>1. /\ live' = live \ {t} /\ expire' = [expire EXCEPT ![t] = 0]
      /\ UNCHANGED <<now, back>> /\ live \subseteq Timers
      /\ expire \in [Timers -> 0..(MaxTime + Life)]
  BY DEF Delete, Kept, Typed, TypeOK
<1>2. Linked' = live \ {t}
  BY <1>1 DEF Linked
<1>3. \A u \in live \ {t} : expire'[u] = expire[u]
  BY <1>1
<1>4. Linking' /\ Ordered'
  BY <1>1, <1>2, <1>3, UnlinksKept DEF Unlinks
<1>5. Walking' /\ Cleared'
  BY <1>1 DEF Walking, Cleared, Kept
<1> QED
  BY <1>4, <1>5 DEF Kept

LEMMA DelKept ==
  ASSUME Kept, Typed', NEW t \in Timers, Del(t) PROVE Kept'
<1> USE DEF links, locals
<1>1. pc = "idle" /\ pc' = "idle" /\ t \in live /\ Delete(t)
  BY DEF Del, DelOnly, DelHead, DelTail, DelMiddle, Unlink
<1>2. /\ Linked = live /\ live \in SUBSET Timers /\ t # Null
      /\ next \in [Timers -> Timers \cup {Null}]
      /\ prev \in [Timers -> Timers \cup {Null}]
  BY <1>1, LinkedIs, TimersAssumption DEF Kept, Typed, TypeOK
<1>3. Neighbourly(live, head, tail, next, prev)
  BY <1>2, Neighbours
<1>4. /\ next[t] \in live \cup {Null} /\ prev[t] \in live \cup {Null}
      /\ next[t] # t /\ prev[t] # t
      /\ (prev[t] = Null <=> t = head) /\ (next[t] = Null <=> t = tail)
      /\ \A u \in live : (prev[u] = t <=> u = next[t]) /\ (next[u] = t <=> u = prev[t])
      /\ Null \notin live
  BY <1>1, <1>2, <1>3, TimersAssumption DEF Neighbourly
<1>5. CASE DelOnly(t)
  <2>1. /\ t = head /\ t = tail /\ head' = Null /\ tail' = Null
        /\ next' = next /\ prev' = prev
    BY <1>5 DEF DelOnly
  <2>2. Cut(t, live, head, tail, next, prev, head', tail', next', prev')
    BY <1>4, <2>1 DEF Cut
  <2>3. next'[t] = Null /\ prev'[t] = Null
    BY <1>4, <2>1
  <2> QED
    BY <1>1, <2>1, <2>2, <2>3, DeleteKept
<1>6. CASE DelHead(t)
  <2>1. /\ t = head /\ t # tail /\ head' = next[t] /\ tail' = tail
        /\ prev' = [prev EXCEPT ![next[t]] = Null]
        /\ next' = [next EXCEPT ![t] = Null]
    BY <1>6 DEF DelHead
  <2>2. \A u \in live \ {t} : /\ next'[u] = next[u] /\ next[u] # t
                              /\ prev'[u] = IF prev[u] = t THEN Null ELSE prev[u]
    BY <1>2, <1>4, <2>1
  <2>3. Cut(t, live, head, tail, next, prev, head', tail', next', prev')
    BY <1>4, <2>1, <2>2 DEF Cut
  <2>4. next'[t] = Null /\ prev'[t] = Null
    BY <1>2, <1>4, <2>1
  <2>5. \A u \in Timers \ live : next'[u] = next[u] /\ prev'[u] = prev[u]
    BY <1>1, <1>2, <1>4, <2>1
  <2> QED
    BY <1>1, <2>3, <2>4, <2>5, DeleteKept
<1>7. CASE DelTail(t)
  <2>1. /\ t # head /\ t = tail /\ tail' = prev[t] /\ head' = head
        /\ next' = [next EXCEPT ![prev[t]] = Null]
        /\ prev' = [prev EXCEPT ![t] = Null]
    BY <1>7 DEF DelTail
  <2>2. \A u \in live \ {t} : /\ prev'[u] = prev[u] /\ prev[u] # t
                              /\ next'[u] = IF next[u] = t THEN Null ELSE next[u]
    BY <1>2, <1>4, <2>1
  <2>3. Cut(t, live, head, tail, next, prev, head', tail', next', prev')
    BY <1>4, <2>1, <2>2 DEF Cut
  <2>4. next'[t] = Null /\ prev'[t] = Null
    BY <1>2, <1>4, <2>1
  <2>5. \A u \in Timers \ live : next'[u] = next[u] /\ prev'[u] = prev[u]
    BY <1>1, <1>2, <1>4, <2>1
  <2> QED
    BY <1>1, <2>3, <2>4, <2>5, DeleteKept
<1>8. CASE DelMiddle(t)
  <2>1. /\ t # head /\ t # tail /\ tail' = tail /\ head' = head
        /\ next' = [next EXCEPT ![prev[t]] = next[t], ![t] = Null]
        /\ prev' = [prev EXCEPT ![next[t]] = prev[t], ![t] = Null]
    BY <1>8 DEF DelMiddle
  <2>2. \A u \in live \ {t} : /\ prev'[u] = IF prev[u] = t THEN prev[t] ELSE prev[u]
                              /\ next'[u] = IF next[u] = t THEN next[t] ELSE next[u]
    BY <1>2, <1>4, <2>1
  <2>3. Cut(t, live, head, tail, next, prev, head', tail', next', prev')
    BY <1>4, <2>1, <2>2 DEF Cut
  <2>4. next'[t] = Null /\ prev'[t] = Null
    BY <1>2, <1>4, <2>1
  <2>5. \A u \in Timers \ live : next'[u] = next[u] /\ prev'[u] = prev[u]
    BY <1>1, <1>2, <1>4, <2>1
  <2> QED
    BY <1>1, <2>3, <2>4, <2>5, DeleteKept
<1> QED
  BY <1>5, <1>6, <1>7, <1>8 DEF Del

LEMMA FireKept == ASSUME Kept, Typed', TickFire PROVE Kept'
<1> USE DEF links, locals
<1>1. /\ pc = "tick" /\ pc' = "tick" /\ head # Null /\ Delete(head)
      /\ head' = next[head] /\ tail' = tail
      /\ prev' = IF next[head] = Null THEN prev ELSE [prev EXCEPT ![next[head]] = Null]
      /\ next' = [next EXCEPT ![head] = Null]
  BY DEF TickFire
<1>2. /\ Linked = live /\ live \in SUBSET Timers
      /\ next \in [Timers -> Timers \cup {Null}]
      /\ prev \in [Timers -> Timers \cup {Null}] /\ Null \notin live
  BY <1>1, LinkedIs, TimersAssumption DEF Kept, Typed, TypeOK
<1>3. Neighbourly(live, head, tail, next, prev)
  BY <1>2, Neighbours
<1>4. /\ head \in live /\ next[head] \in live \cup {Null} /\ prev[head] = Null
      /\ next[head] # head /\ (head = tail => live = {head})
      /\ \A u \in live : (prev[u] = head <=> u = next[head]) /\ next[u] # head
  BY <1>1, <1>2, <1>3 DEF Neighbourly
<1>5. \A u \in live \ {head} :
        /\ next'[u] = next[u] /\ next[u] # head
        /\ prev'[u] = IF prev[u] = head THEN Null ELSE prev[u]
  BY <1>1, <1>2, <1>4
<1>6. Cut(head, live, head, tail, next, prev, head', tail', next', prev')
  BY <1>1, <1>4, <1>5 DEF Cut
<1>7. next'[head] = Null /\ prev'[head] = Null
  BY <1>1, <1>2, <1>4
<1>8. \A u \in Timers \ live : next'[u] = next[u] /\ prev'[u] = prev[u]
  BY <1>1, <1>2, <1>4
<1> QED
  BY <1>1, <1>4, <1>6, <1>7, <1>8, DeleteKept

LEMMA KeptStep == Kept /\ [Next]_vars => Kept'
<1> SUFFICES ASSUME Kept, [Next]_vars PROVE Kept'
  OBVIOUS
<1> USE DEF links, clock, locals
<1>1. Typed'
  BY TypedStep DEF Kept
<1>2. ASSUME NEW t \in Timers, Add(t) \/ Adjust(t) \/ Del(t) PROVE Kept'
  BY <1>1, <1>2, AddKept, AdjustKept, DelKept
<1>3. CASE WalkStep
  BY <1>1, <1>3, WalkKept
<1>4. CASE TickFire
  BY <1>1, <1>4, FireKept
<1>5. CASE TickStart \/ TickEnd \/ Advance \/ SetBack
  <2>1. /\ UNCHANGED <<head, tail, next, prev, expire, live>>
        /\ pc # "walk" /\ pc' # "walk"
        /\ (Steady' => Steady /\ now <= now')
    BY <1>5, TimersAssumption
    DEF TickStart, TickEnd, Advance, SetBack, SetClock, Steady, Kept, Typed, TypeOK
  <2>2. Linked = live /\ Linked' = Linked
    BY <2>1 DEF Linked
  <2>3. Linking' /\ Ordered'
    BY <1>1, <2>1, <2>2, SameList DEF Typed
  <2>4. Walking' /\ Cleared'
    BY <2>1 DEF Walking, Cleared, Kept
  <2> QED
    BY <1>1, <2>3, <2>4 DEF Kept
<1>6. CASE UNCHANGED vars
  BY <1>1, <1>6 DEF vars, Kept, Linking, Linked, Walking, Cleared, Ordered, Steady
<1> QED
  BY <1>2, <1>3, <1>4, <1>5, <1>6 DEF Next, TickStep

LEMMA KeptIsSorted == Kept => SortedList
<1> SUFFICES ASSUME Kept PROVE SortedList
  OBVIOUS
<1>1. ASSUME pc # "walk", live # {} PROVE \E s \in [1..Cardinality(live) -> live] : IsList(s)
  <2>1. Linked = live /\ Chained(live, head, tail, next, prev)
    BY <1>1, LinkedIs DEF Kept, Linking
  <2>2. PICK n \in Nat : \E s \in [1..n -> live] : Chain(s, n, live, head, tail, next, prev)
    BY <2>1 DEF Chained
  <2>3. PICK s \in [1..n -> live] : Chain(s, n, live, head, tail, next, prev)
    BY <2>2
  <2>4. /\ \A t \in live : \E i \in 1..n : s[i] = t
        /\ \A i, j \in 1..n : s[i] = s[j] => i = j
        /\ head = IF n = 0 THEN Null ELSE s[1]
        /\ n # 0 => tail = s[n]
        /\ \A i \in 1..n : /\ next[s[i]] = IF i = n THEN Null ELSE s[i + 1]
                           /\ prev[s[i]] = IF i = 1 THEN Null ELSE s[i - 1]
    BY <2>3 DEF Chain
  <2>5. Cardinality(live) = n
    <3>1. IsFiniteSet(live)
      BY TimersAssumption, FS_Subset DEF Kept, Typed, TypeOK
    <3>2. s \in Bijection(1..n, live)
      BY <2>3, <2>4 DEF Bijection, Injection, Surjection, IsInjective
    <3>3. ExistsBijection(1..n, live)
      BY <3>2 DEF ExistsBijection
    <3> QED
      BY <2>2, <3>1, <3>3, FS_CountingElements
  <2>6. n # 0
    BY <1>1, <2>4
  <2>7. IsList(s)
    <3>1. live = {s[i] : i \in 1..n}
      BY <2>3, <2>4
    <3>2. 1 \in 1..n /\ n \in 1..n
      BY <2>2, <2>6
    <3>3. head = s[1] /\ prev[s[1]] = Null /\ tail = s[n] /\ next[s[n]] = Null
      BY <2>4, <2>6, <3>2
    <3>4. \A i \in 1..(n - 1) : next[s[i]] = s[i + 1] /\ prev[s[i + 1]] = s[i]
      <4> SUFFICES ASSUME NEW i \in 1..(n - 1)
                   PROVE  next[s[i]] = s[i + 1] /\ prev[s[i + 1]] = s[i]
        OBVIOUS
      <4>1. PICK j \in 1..n : j = i + 1 /\ j # 1 /\ j - 1 = i /\ i \in 1..n /\ i # n
        OBVIOUS
      <4> QED
        BY <2>4, <4>1
    <3> QED
      BY <2>5, <3>1, <3>3, <3>4 DEF IsList
  <2> QED
    BY <2>5, <2>7
<1>2. ASSUME pc # "walk", live = {} PROVE head = Null
  BY <1>2, LinkedIs, Neighbours DEF Kept, Neighbourly
<1>3. Steady => Ascending
  BY LinkedIs DEF Kept, Ordered, Ascending
<1> QED
  BY <1>1, <1>2, <1>3 DEF SortedList, WellLinked

\* Between two calls the list is a doubly linked list of exactly the timers
\* that are allocated, in ascending order unless the clock was set back.
THEOREM ListStaysSorted == Spec => []SortedList
BY KeptInit, KeptStep, KeptIsSorted, PTL DEF Spec

=============================================================================
