------------------------------ MODULE LruCache ------------------------------
(***************************************************************************)
(* What the mapping cache promises: every slot keeps its keys in order of  *)
(* their last use; when a slot is full the least recently used key that is *)
(* not pinned makes room; if all of them are pinned nothing is cached.     *)
(* Which keys are pinned is for the cache to say: a key may become pinned  *)
(* or stop being so at any time.                                           *)
(***************************************************************************)
EXTENDS Naturals, Sequences, SequencesExt

CONSTANTS Keys, Slots, SlotSize, SlotOf(_)

VARIABLES
  order,    \* order[s]: the keys of slot s, the least recently used first
  pinned    \* the keys that are not to be evicted

Init == order = [s \in Slots |-> <<>>] /\ pinned = {}

\* Slot s comes to hold seq.  (The first conjunct, which the second implies,
\* spares TLC a comparison of all slots for most keys.)
Becomes(s, seq) == order'[s] = seq /\ order' = [order EXCEPT ![s] = seq]

\* The n-th key is used: it becomes the last.
Use(s, n) ==
  /\ Becomes(s, Append(RemoveAt(order[s], n), order[s][n]))
  /\ UNCHANGED pinned

\* A key is pinned, or not any longer.
Pin(k) ==
  /\ pinned' \in {pinned \cup {k}, pinned \ {k}}
  /\ UNCHANGED order

Insert(s, k) ==
  /\ \/ /\ Len(order[s]) < SlotSize
        /\ Becomes(s, Append(order[s], k))
     \/ /\ Len(order[s]) = SlotSize
        /\ \E n \in DOMAIN order[s] :
             /\ order[s][n] \notin pinned
             /\ \A m \in 1 .. n - 1 : order[s][m] \in pinned
             /\ Becomes(s, Append(RemoveAt(order[s], n), k))
  /\ pinned' \in {pinned, pinned \cup {k}}

Next == \E s \in Slots : LET cached == ToSet(order[s]) IN
          \/ \E n \in DOMAIN order[s] : Use(s, n)
          \/ \E k \in cached : Pin(k)
          \/ \E k \in Keys \ cached : SlotOf(k) = s /\ Insert(s, k)

Spec == Init /\ [][Next]_<<order, pinned>>

=============================================================================
