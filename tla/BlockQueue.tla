----------------------------- MODULE BlockQueue -----------------------------
(***************************************************************************)
(* log/block_queue.h: the circular array of block_queue<T>, without its    *)
(* mutex and its condition variable.  m_front and m_back are the places of *)
(* the element taken last and of the one put last.                         *)
(***************************************************************************)
EXTENDS Integers, Sequences

CONSTANTS m_max_size, Nothing   \* the bound, the value of a place never used

ASSUME MaxSizeAssumption == m_max_size \in Nat \ {0}

Empty == [m_array |-> [i \in 0..(m_max_size - 1) |-> Nothing],
          m_front |-> -1, m_back |-> -1, m_size |-> 0]

IsQueue(q, Items) ==
  q \in [m_array : [0..(m_max_size - 1) -> Items \cup {Nothing}],
         m_front : -1..(m_max_size - 1),
         m_back  : -1..(m_max_size - 1),
         m_size  : 0..m_max_size]

full(q) == q.m_size >= m_max_size

\* Slip: the last place is the bound itself.
After_OffByOne(place) == (place + 1) % (m_max_size + 1)

After(place) == (place + 1) % m_max_size

\* push() of an item that is not refused.
Put(q, item) ==
  [m_array |-> [q.m_array EXCEPT ![After(q.m_back)] = item],
   m_front |-> q.m_front, m_back |-> After(q.m_back), m_size |-> q.m_size + 1]

\* Slip: the item that was put last.
Item_Newest(q) == q.m_array[q.m_back]

\* pop(): what it returns, and the queue afterwards.
Item(q) == q.m_array[After(q.m_front)]

Rest(q) ==
  [m_array |-> q.m_array, m_front |-> After(q.m_front), m_back |-> q.m_back,
   m_size |-> q.m_size - 1]

\* The queued items, first in first.
Queued(q) == [i \in 1..q.m_size |-> q.m_array[(q.m_front + i) % m_max_size]]

=============================================================================
