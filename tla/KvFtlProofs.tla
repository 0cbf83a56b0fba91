---------------------------- MODULE KvFtlProofs ----------------------------
(***************************************************************************)
(* Proofs about the key-value device of KvFtl, for any keys, hash function,*)
(* number of slots, lengths of values, and number of iterators, and a      *)
(* careful host.                                                           *)
(*                                                                         *)
(* The inductive invariant is KvInv.  That a chain leads to every entry    *)
(* (EntriesAreFound) is kept by a deletion because a chain leads from older*)
(* entries to newer ones (ChainsGetNewer), and the host deletes the newest;*)
(* that a key is in one slot (KeysAreUnique) follows from it, as a key is  *)
(* inserted when the search does not find it.  StillFound says what changes*)
(* of the chains do not hide an entry; each command is one of them.        *)
(***************************************************************************)
EXTENDS KvFtl, FiniteSetTheorems, WellFoundedInduction, TLAPS

-----------------------------------------------------------------------------
(* The inductive invariant.                                                *)

EntryType == [key : Keys \cup {NoKey}, mem_offset : Bytes \cup {NIL},
              length : Lengths \cup {NIL}, next_slot : Slots \cup {NIL}]

\* What can be expected of a key.
Values == {NoValue} \cup UNION {[1 .. n -> Data] : n \in Lengths}

\* A slot without an offset is empty in every field, and one with an offset has a
\* key, and a region of the storage that the allocator has given out.
EntriesOK ==
  \A s \in Slots :
    IF Occupied(s)
      THEN /\ kv_mapping_table[s].key \in Keys /\ kv_mapping_table[s].length \in Lengths
           /\ kv_mapping_table[s].mem_offset + kv_mapping_table[s].length <= latest
      ELSE kv_mapping_table[s] = Free

\* The regions of two entries do not overlap.
RegionsDisjoint ==
  \A s, t \in Slots : Occupied(s) /\ Occupied(t) /\ s # t =>
    \/ kv_mapping_table[s].mem_offset + kv_mapping_table[s].length <= kv_mapping_table[t].mem_offset
    \/ kv_mapping_table[t].mem_offset + kv_mapping_table[t].length <= kv_mapping_table[s].mem_offset

\* A chain leads from older entries to newer ones.
ChainsGetNewer ==
  \A s \in Slots : LET n == kv_mapping_table[s].next_slot
                   IN  Occupied(s) /\ n # NIL => ~Occupied(n) \/ kv_mapping_table[s].mem_offset < kv_mapping_table[n].mem_offset

\* A search for the key of an entry comes to the entry.
EntriesAreFound ==
  \A key \in Keys, s \in Slots : Occupied(s) /\ kv_mapping_table[s].key = key => s \in Visited(key)

\* A key is in one slot.
KeysAreUnique ==
  \A s, t \in Slots : Occupied(s) /\ Occupied(t) /\ kv_mapping_table[s].key = kv_mapping_table[t].key => s = t

\* The value of the entry at s.
ValueAt(s) == [n \in 1 .. kv_mapping_table[s].length |-> storage[kv_mapping_table[s].mem_offset + n - 1]]

ValuesAreKept ==
  /\ expected \in [Keys -> Values]
  /\ \A s \in Slots : Occupied(s) => expected[kv_mapping_table[s].key] = ValueAt(s)
  /\ \A key \in Keys \ Present : expected[key] = NoValue

TableInv == EntriesOK /\ RegionsDisjoint /\ ChainsGetNewer /\ EntriesAreFound /\ KeysAreUnique

\* What an iterator returned is still in the table.
IterInv == IterationIsComplete /\ \A i \in Handles : given[i] \subseteq Present

KvInv == TypeOK /\ TableInv /\ ValuesAreKept /\ IterInv

-----------------------------------------------------------------------------
(* Numbers.                                                                *)

\* A set of numbers that is not empty has a least one.
LEMMA MinIsLeast ==
  ASSUME NEW S \in SUBSET Nat, S # {}
  PROVE  Min(S) \in S /\ \A j \in S : Min(S) <= j
<1>1. PICK i \in S : \A j \in S : <<j, i>> \notin OpToRel(<, Nat)
  BY NatLessThanWellFounded, WFMin
<1>2. \A j \in S : ~(j < i)
  BY <1>1 DEF OpToRel
<1>3. \E x \in S : \A y \in S : x =< y
  BY <1>2
<1> QED
  BY <1>3 DEF Min

\* A sum of a slot and a number of steps is taken modulo the number of slots.
LEMMA Remainder ==
  ASSUME NEW n \in 0 .. 2 * HashSlots - 1
  PROVE  n % HashSlots = IF n < HashSlots THEN n ELSE n - HashSlots
<1> DEFINE q == n \div HashSlots
           r == n % HashSlots
<1>1. HashSlots \in Nat /\ HashSlots > 0
  BY KvAssumption
<1>2. q \in Nat /\ r \in 0 .. HashSlots - 1 /\ n = (HashSlots * q) + r
  BY <1>1
<1> HIDE DEF q, r
<1>3. CASE q = 0
  BY <1>1, <1>2, <1>3
<1>4. CASE q = 1
  BY <1>1, <1>2, <1>4
<1>5. CASE q > 1
  <2>1. PICK m \in Nat : q = m + 2
    BY <1>2, <1>5
  <2>2. HashSlots * q = HashSlots * m + 2 * HashSlots
    BY <1>1, <2>1
  <2>3. HashSlots * m \in Nat
    BY <1>1, \A a, b \in Nat : a * b \in Nat
  <2> QED
    BY <1>1, <1>2, <2>2, <2>3
<1>6. n % HashSlots = r
  BY DEF r
<1> QED
  BY <1>1, <1>2, <1>3, <1>4, <1>5, <1>6

-----------------------------------------------------------------------------
(* Chains.                                                                 *)

\* A search visits the first slot, and goes on from an entry to the next.
LEMMA VisitedFollows ==
  ASSUME TypeOK, NEW key \in Keys
  PROVE  /\ Occupied(Hash[key]) => Hash[key] \in Visited(key)
         /\ \A s \in Visited(key) :
              LET n == kv_mapping_table[s].next_slot
              IN  n # NIL /\ Occupied(n) => n \in Visited(key)
<1>1. Hash[key] \in Slots
  BY KvAssumption
<1>2. \A s \in Slots : kv_mapping_table[s].next_slot \in Slots \cup {NIL}
  BY DEF TypeOK
<1>3. Occupied(Hash[key]) => Hash[key] \in Visited(key)
  BY <1>1 DEF Visited, Entries
<1>4. ASSUME NEW s \in Visited(key), NEW n, n = kv_mapping_table[s].next_slot, n # NIL, Occupied(n)
      PROVE  n \in Visited(key)
  <2>1. s \in Slots /\ n \in Entries /\ Occupied(Hash[key])
    BY <1>2, <1>4 DEF Visited, Entries
  <2>2. ASSUME NEW R \in SUBSET Entries, Hash[key] \in R, FollowsChains(R)
        PROVE  n \in R
    <3>1. s \in R
      BY <2>2 DEF Visited
    <3> QED
      BY <1>4, <2>2, <3>1 DEF FollowsChains
  <2> QED
    BY <2>1, <2>2 DEF Visited
<1> QED
  BY <1>3, <1>4

\* The chain that begins at an entry has a last slot, the newest, and no entry
\* is chained to it.
LEMMA LastIsLast ==
  ASSUME TypeOK, ChainsGetNewer, NEW key \in Keys, Occupied(Hash[key])
  PROVE  LET last == LastSlot(key)
             n    == kv_mapping_table[last].next_slot
         IN  /\ last \in Visited(key) /\ last \in Slots /\ Occupied(last)
             /\ n = NIL \/ ~Occupied(n)
<1> DEFINE Off(s) == kv_mapping_table[s].mem_offset
           Ages   == {StorageSize - Off(s) : s \in Visited(key)}
<1>1. Visited(key) # {} /\ \A s \in Visited(key) : s \in Slots /\ Occupied(s)
  BY VisitedFollows DEF Visited, Entries
<1>2. \A s \in Visited(key) : Off(s) \in 0 .. StorageSize - 1
  BY <1>1 DEF TypeOK, Occupied, Bytes
<1>3. Ages \in SUBSET Nat /\ Ages # {}
  BY <1>1, <1>2, KvAssumption
<1>4. PICK s \in Visited(key) : \A t \in Visited(key) : StorageSize - Off(s) <= StorageSize - Off(t)
  <2> HIDE DEF Ages
  <2>1. Min(Ages) \in Ages /\ \A a \in Ages : Min(Ages) <= a
    BY <1>3, MinIsLeast
  <2> QED
    BY <2>1 DEF Ages
<1>5. \A t \in Visited(key) : Off(t) <= Off(s)
  <2> HIDE DEF Off
  <2> QED
    BY <1>2, <1>4, KvAssumption
<1>6. kv_mapping_table[s].next_slot \notin Visited(key)
  <2> SUFFICES ASSUME kv_mapping_table[s].next_slot \in Visited(key)
               PROVE  FALSE
    OBVIOUS
  <2> DEFINE n == kv_mapping_table[s].next_slot
  <2>1. n \in Slots /\ Occupied(n)
    BY <1>1
  <2>2. n # NIL
    BY <2>1 DEF Slots, NIL
  <2>3. Off(s) < Off(n)
    BY <1>1, <2>1, <2>2 DEF ChainsGetNewer
  <2> QED
    BY <1>2, <1>5, <2>3
<1>7. LastSlot(key) \in Visited(key)
      /\ kv_mapping_table[LastSlot(key)].next_slot \notin Visited(key)
  BY <1>6 DEF LastSlot
<1> QED
  BY <1>1, <1>7, VisitedFollows

\* The search for a slot, from any one, ends at one that is free.
LEMMA NextFreeIsFree ==
  ASSUME NEW s \in Slots, \E t \in Slots : ~Occupied(t)
  PROVE  NextFree(s) \in Slots /\ ~Occupied(NextFree(s))
<1> DEFINE steps == {n \in Slots : ~Occupied((s + n) % HashSlots)}
<1>1. PICK t \in Slots : ~Occupied(t)
  OBVIOUS
<1>2. HashSlots \in Nat /\ HashSlots > 0
  BY KvAssumption
<1>3. \A n \in Slots : (s + n) % HashSlots = IF s + n < HashSlots THEN s + n ELSE s + n - HashSlots
  BY <1>2, Remainder DEF Slots
<1>4. PICK n \in Slots : (s + n) % HashSlots = t
  <2> DEFINE m == IF s <= t THEN t - s ELSE t - s + HashSlots
  <2>1. m \in Slots /\ t = IF s + m < HashSlots THEN s + m ELSE s + m - HashSlots
    BY <1>2 DEF Slots
  <2> HIDE DEF m
  <2> QED
    BY <1>3, <2>1
<1>5. steps # {} /\ steps \in SUBSET Nat
  <2>1. n \in steps
    BY <1>1, <1>4
  <2>2. Slots \in SUBSET Nat
    BY <1>2 DEF Slots
  <2> QED
    BY <2>1, <2>2
<1>6. Min(steps) \in steps
  BY <1>5, MinIsLeast
<1>7. NextFree(s) = (s + Min(steps)) % HashSlots
  BY DEF NextFree
<1> HIDE DEF steps
<1>8. Min(steps) \in Slots /\ ~Occupied((s + Min(steps)) % HashSlots)
  BY <1>6 DEF steps
<1> QED
  BY <1>2, <1>3, <1>7, <1>8 DEF Slots

\* A key is found in the slot that has it.
LEMMA SlotOfKey ==
  ASSUME TypeOK, TableInv, NEW key \in Keys
  PROVE  /\ SlotOf(key) = NIL => \A s \in Slots : Occupied(s) => kv_mapping_table[s].key # key
         /\ SlotOf(key) # NIL => /\ SlotOf(key) \in Slots /\ Occupied(SlotOf(key))
                                 /\ kv_mapping_table[SlotOf(key)].key = key
<1> DEFINE hits == {s \in Visited(key) : kv_mapping_table[s].key = key}
<1>1. \A s \in Visited(key) : s \in Slots /\ Occupied(s)
  BY DEF Visited, Entries
<1>2. SlotOf(key) = IF hits = {} THEN NIL ELSE CHOOSE s \in hits : TRUE
  BY DEF SlotOf
<1>3. CASE hits = {}
  <2>1. \A s \in Slots : Occupied(s) => kv_mapping_table[s].key # key
    BY <1>3 DEF TableInv, EntriesAreFound
  <2> QED
    BY <1>2, <1>3, <2>1
<1>4. CASE hits # {}
  <2>1. SlotOf(key) \in hits
    BY <1>2, <1>4
  <2>2. SlotOf(key) \in Slots /\ Occupied(SlotOf(key)) /\ kv_mapping_table[SlotOf(key)].key = key
    BY <1>1, <2>1
  <2>3. SlotOf(key) # NIL
    BY <2>2 DEF Slots, NIL
  <2> QED
    BY <2>2, <2>3
<1> QED
  BY <1>3, <1>4

\* What stays an entry is found as before, if only entries without a successor
\* are cleared or get another.
LEMMA StillFound ==
  ASSUME TypeOK, NEW key \in Keys, NEW s \in Visited(key), Occupied(s)',
         \A t \in Slots : Occupied(t) =>
           \/ Occupied(t)' /\ kv_mapping_table'[t].next_slot = kv_mapping_table[t].next_slot
           \/ kv_mapping_table[t].next_slot = NIL
           \/ ~Occupied(kv_mapping_table[t].next_slot)
  PROVE  s \in Visited(key)'
<1>1. s \in Entries /\ s \in Entries' /\ Occupied(Hash[key]) /\ Hash[key] \in Slots
  BY KvAssumption DEF Visited, Entries
<1>2. Occupied(Hash[key])'
  <2> SUFFICES ASSUME ~Occupied(Hash[key])' PROVE FALSE
    OBVIOUS
  <2>1. FollowsChains({Hash[key]})
    BY <1>1 DEF FollowsChains
  <2>2. s \in {Hash[key]}
    BY <1>1, <2>1 DEF Visited, Entries
  <2> QED
    BY <2>2
<1>3. ASSUME NEW R \in SUBSET Entries', Hash[key] \in R, FollowsChains(R)'
      PROVE  s \in R
  <2> DEFINE R2 == {u \in Entries : u \in R \/ ~Occupied(u)'}
  <2>1. ASSUME NEW t \in R2, NEW n, n = kv_mapping_table[t].next_slot, n # NIL, Occupied(n)
        PROVE  n \in R2
    <3>1. t \in Slots /\ Occupied(t) /\ n \in Entries
      BY <2>1 DEF TypeOK, Entries
    <3>2. Occupied(t)' /\ kv_mapping_table'[t].next_slot = n
      BY <2>1, <3>1
    <3>3. t \in R
      BY <3>2
    <3>4. n \in R \/ ~Occupied(n)'
      BY <1>3, <2>1, <3>2, <3>3 DEF FollowsChains, Occupied
    <3> QED
      BY <3>1, <3>4
  <2>2. FollowsChains(R2)
    BY <2>1 DEF FollowsChains
  <2>3. R2 \in SUBSET Entries /\ Hash[key] \in R2
    BY <1>1, <1>3 DEF Entries
  <2>4. s \in R2
    BY <2>2, <2>3 DEF Visited
  <2> QED
    BY <2>4
<1> QED
  BY <1>1, <1>2, <1>3 DEF Visited

-----------------------------------------------------------------------------
(* What the commands do to the table.                                      *)

\* The new entry goes to a free slot, and an entry without a successor is
\* chained to it, unless the slot is where the search for the key begins.
NewEntry(slot, last, key, offset, length) ==
  /\ slot \in Slots /\ ~Occupied(slot)
  /\ \/ last = NIL /\ slot = Hash[key]
     \/ /\ last \in Visited(key) /\ last \in Slots /\ Occupied(last)
        /\ kv_mapping_table[last].next_slot = NIL \/ ~Occupied(kv_mapping_table[last].next_slot)
  /\ kv_mapping_table' =
       [s \in Slots |->
          IF s = slot THEN [key |-> key, mem_offset |-> offset, length |-> length, next_slot |-> NIL]
          ELSE IF s = last THEN [kv_mapping_table[s] EXCEPT !.next_slot = slot]
          ELSE kv_mapping_table[s]]

\* A store of a key that is not found adds an entry.
LEMMA InsertAdds ==
  ASSUME TypeOK, TableInv, NEW key \in Keys, NEW data \in Data, NEW length \in Lengths,
         Insert(key, data, length)
  PROVE  \E slot, last \in Slots \cup {NIL} : NewEntry(slot, last, key, latest, length)
<1>1. Hash[key] \in Slots /\ NIL \notin Slots
  BY KvAssumption DEF Slots, NIL
<1>2. kv_mapping_table' = NewMapping(key, latest, length) /\ \E s \in Slots : ~Occupied(s)
  BY DEF Insert
<1>3. ASSUME NEW s \in Slots, ~Occupied(s)
      PROVE  [kv_mapping_table[s] EXCEPT !.key = key, !.mem_offset = latest, !.length = length]
               = [key |-> key, mem_offset |-> latest, length |-> length, next_slot |-> NIL]
  <2> DEFINE e == [kv_mapping_table[s] EXCEPT !.key = key, !.mem_offset = latest, !.length = length]
             f == [key |-> key, mem_offset |-> latest, length |-> length, next_slot |-> NIL]
  <2>1. kv_mapping_table[s] \in EntryType /\ kv_mapping_table[s].next_slot = NIL
    BY <1>3 DEF TypeOK, EntryType, TableInv, EntriesOK, Free
  <2>2. latest \in Bytes
    BY KvAssumption DEF Insert, TypeOK, Bytes
  <2>3. e \in EntryType /\ f \in EntryType
    BY <2>1, <2>2 DEF EntryType
  <2>4. e.key = f.key /\ e.mem_offset = f.mem_offset /\ e.length = f.length /\ e.next_slot = f.next_slot
    BY <2>1, <2>2 DEF EntryType
  <2> HIDE DEF e, f
  <2>5. e = f
    BY <2>3, <2>4 DEF EntryType
  <2> QED
    BY <2>5 DEF e, f
<1>4. CASE ~Occupied(Hash[key])
  <2>1. kv_mapping_table' =
          [s \in Slots |->
             IF s = Hash[key]
               THEN [kv_mapping_table[s] EXCEPT !.key = key, !.mem_offset = latest, !.length = length]
               ELSE kv_mapping_table[s]]
    BY <1>2, <1>4 DEF NewMapping
  <2>2. NewEntry(Hash[key], NIL, key, latest, length)
    BY <1>1, <1>3, <1>4, <2>1 DEF NewEntry
  <2> QED
    BY <1>1, <2>2
<1>5. CASE Occupied(Hash[key])
  <2> DEFINE last == LastSlot(key)
             slot == NextFree(last)
  <2>1. /\ last \in Visited(key) /\ last \in Slots /\ Occupied(last)
        /\ kv_mapping_table[last].next_slot = NIL \/ ~Occupied(kv_mapping_table[last].next_slot)
    BY <1>5, LastIsLast DEF TableInv
  <2>2. slot \in Slots /\ ~Occupied(slot)
    BY <1>2, <2>1, NextFreeIsFree
  <2>3. kv_mapping_table' =
          [s \in Slots |->
             IF s = slot
               THEN [kv_mapping_table[s] EXCEPT !.key = key, !.mem_offset = latest, !.length = length]
             ELSE IF s = last THEN [kv_mapping_table[s] EXCEPT !.next_slot = slot]
             ELSE kv_mapping_table[s]]
    BY <1>2, <1>5 DEF NewMapping
  <2> HIDE DEF slot, last
  <2>4. NewEntry(slot, last, key, latest, length)
    BY <1>3, <2>1, <2>2, <2>3 DEF NewEntry
  <2> QED
    BY <2>1, <2>2, <2>4
<1> QED
  BY <1>4, <1>5

\* The fields of every slot after an insertion.
LEMMA NewFields ==
  ASSUME TypeOK, NEW slot \in Slots \cup {NIL}, NEW last \in Slots \cup {NIL}, NEW key \in Keys,
         NEW length \in Lengths, latest + length <= StorageSize,
         NewEntry(slot, last, key, latest, length)
  PROVE  /\ \A s \in Slots : Occupied(s)' <=> Occupied(s) \/ s = slot
         /\ kv_mapping_table'[slot]
              = [key |-> key, mem_offset |-> latest, length |-> length, next_slot |-> NIL]
         /\ \A s \in Slots \ {slot} :
              /\ kv_mapping_table'[s].key = kv_mapping_table[s].key
              /\ kv_mapping_table'[s].mem_offset = kv_mapping_table[s].mem_offset
              /\ kv_mapping_table'[s].length = kv_mapping_table[s].length
              /\ kv_mapping_table'[s].next_slot
                   = IF s = last THEN slot ELSE kv_mapping_table[s].next_slot
              /\ ~Occupied(s) => kv_mapping_table'[s] = kv_mapping_table[s]
         /\ kv_mapping_table' \in [Slots -> EntryType]
<1>1. /\ latest \in Nat /\ latest # NIL /\ latest \in Bytes
      /\ NIL \notin Slots /\ slot \in Slots
  <2>1. latest \in 0 .. StorageSize /\ length \in Nat /\ length > 0 /\ StorageSize \in Nat
    BY KvAssumption DEF TypeOK
  <2>2. latest \in Nat /\ latest # NIL /\ latest \in Bytes
    BY <2>1 DEF NIL, Bytes
  <2>3. slot \in Slots
    BY DEF NewEntry
  <2>4. NIL \notin Slots
    BY DEF NIL, Slots
  <2> QED
    BY <2>2, <2>3, <2>4
<1>2. \A s \in Slots :
        kv_mapping_table[s] \in EntryType
  BY DEF TypeOK, EntryType
<1>3. \A s \in Slots : kv_mapping_table'[s] =
          IF s = slot THEN [key |-> key, mem_offset |-> latest, length |-> length, next_slot |-> NIL]
          ELSE IF s = last THEN [kv_mapping_table[s] EXCEPT !.next_slot = slot]
          ELSE kv_mapping_table[s]
  BY DEF NewEntry
<1>4. kv_mapping_table'[slot]
        = [key |-> key, mem_offset |-> latest, length |-> length, next_slot |-> NIL]
  BY <1>1, <1>3
<1>5. \A s \in Slots \ {slot} :
        /\ kv_mapping_table'[s].key = kv_mapping_table[s].key
        /\ kv_mapping_table'[s].mem_offset = kv_mapping_table[s].mem_offset
        /\ kv_mapping_table'[s].length = kv_mapping_table[s].length
        /\ kv_mapping_table'[s].next_slot = IF s = last THEN slot ELSE kv_mapping_table[s].next_slot
  BY <1>2, <1>3 DEF EntryType
<1>6. last # NIL => Occupied(last)
  BY DEF NewEntry
<1>7. \A s \in Slots \ {slot} : ~Occupied(s) => kv_mapping_table'[s] = kv_mapping_table[s]
  BY <1>1, <1>3, <1>6
<1>8. \A s \in Slots : Occupied(s)' <=> Occupied(s) \/ s = slot
  BY <1>1, <1>4, <1>5 DEF Occupied
<1>9. ASSUME NEW s \in Slots
      PROVE  kv_mapping_table'[s] \in EntryType
  <2>1. CASE s = slot
    BY <1>1, <1>4, <2>1 DEF EntryType
  <2>2. CASE s # slot /\ s = last
    <3>1. kv_mapping_table'[s] = [kv_mapping_table[s] EXCEPT !.next_slot = slot]
      BY <1>3, <2>2
    <3> QED
      BY <1>1, <1>2, <3>1 DEF EntryType
  <2>3. CASE s # slot /\ s # last
    BY <1>2, <1>3, <2>3
  <2> QED
    BY <2>1, <2>2, <2>3
<1>10. kv_mapping_table' \in [Slots -> EntryType]
  BY <1>9 DEF NewEntry
<1> QED
  BY <1>4, <1>5, <1>7, <1>8, <1>10

\* What is written is what a read of the same bytes returns, and a read of bytes
\* before or behind them returns what it did.
LEMMA ReadsBack ==
  ASSUME TypeOK, NEW o \in Nat, NEW n \in Nat, o + n <= StorageSize, NEW data \in Data,
         storage' = Written(o, data, n)
  PROVE  /\ storage' \in [Bytes -> Data \cup {NoValue}]
         /\ \A m \in 1 .. n : storage'[o + m - 1] = data
         /\ \A o2, n2 \in Nat :
              o2 + n2 <= StorageSize /\ (o2 + n2 <= o \/ o + n <= o2) =>
                \A m \in 1 .. n2 : storage'[o2 + m - 1] = storage[o2 + m - 1]
<1>1. storage \in [Bytes -> Data \cup {NoValue}] /\ StorageSize \in Nat
  BY KvAssumption DEF TypeOK
<1>2. \A b \in Bytes : storage'[b] = IF o <= b /\ b < o + n THEN data ELSE storage[b]
  BY DEF Written
<1>3. storage' \in [Bytes -> Data \cup {NoValue}]
  BY <1>1 DEF Written
<1>4. \A m \in 1 .. n : storage'[o + m - 1] = data
  BY <1>1, <1>2 DEF Bytes
<1>5. ASSUME NEW o2 \in Nat, NEW n2 \in Nat, o2 + n2 <= StorageSize, o2 + n2 <= o \/ o + n <= o2
      PROVE  \A m \in 1 .. n2 : storage'[o2 + m - 1] = storage[o2 + m - 1]
  BY <1>1, <1>2, <1>5 DEF Bytes
<1> QED
  BY <1>3, <1>4, <1>5

\* The iterators are not disturbed by what leaves the entries where they are and
\* adds keys that are not in the table.
LEMMA IterKept ==
  ASSUME TypeOK, IterInv, TypeOK', UNCHANGED iterators, NEW K, K \cap Present = {},
         \A s \in Slots : Occupied(s) => Occupied(s)' /\ kv_mapping_table'[s].key = kv_mapping_table[s].key,
         \A s \in Slots : Occupied(s)' =>
           \/ Occupied(s) /\ kv_mapping_table'[s].key = kv_mapping_table[s].key
           \/ kv_mapping_table'[s].key \in K
  PROVE  IterInv'
<1>1. iter_handle' = iter_handle /\ owed' = owed /\ given' = given
  BY DEF iterators
<1>2. \A k \in Present : k \in Present'
  BY DEF Present, Entries
<1>3. \A i \in Handles : given'[i] \subseteq Present'
  BY <1>1, <1>2 DEF IterInv
<1>4. ASSUME NEW i \in Handles, iter_handle'[i].open
      PROVE  LET ahead == {kv_mapping_table'[s].key : s \in Ahead(iter_handle[i].pos, iter_handle[i].filter)'}
             IN  owed'[i] \subseteq ahead /\ given'[i] \cap ahead = {}
  <2> DEFINE A  == Ahead(iter_handle[i].pos, iter_handle[i].filter)
             A2 == {s \in Slots : s >= iter_handle[i].pos /\ Occupied(s)'
                                  /\ kv_mapping_table'[s].key \in iter_handle[i].filter}
  <2>1. Ahead(iter_handle[i].pos, iter_handle[i].filter)' = A2
    BY <1>1 DEF Ahead
  <2>2. \A s \in A : s \in A2 /\ kv_mapping_table'[s].key = kv_mapping_table[s].key
    BY DEF Ahead
  <2>3. \A s \in A2 : \/ s \in A /\ kv_mapping_table'[s].key = kv_mapping_table[s].key
                     \/ kv_mapping_table'[s].key \in K
    BY DEF Ahead
  <2>4. owed[i] \subseteq {kv_mapping_table[s].key : s \in A}
        /\ given[i] \cap {kv_mapping_table[s].key : s \in A} = {}
        /\ given[i] \subseteq Present
    BY <1>1, <1>4 DEF IterInv, IterationIsComplete
  <2> HIDE DEF A, A2
  <2> QED
    BY <1>1, <2>1, <2>2, <2>3, <2>4
<1>5. \A i \in Handles : iter_handle'[i].open =>
        LET ahead == {kv_mapping_table'[s].key : s \in Ahead(iter_handle[i].pos, iter_handle[i].filter)'}
        IN  owed'[i] \subseteq ahead /\ given'[i] \cap ahead = {}
  BY <1>4
<1>6. IterationIsComplete'
  BY <1>1, <1>5 DEF IterationIsComplete
<1> QED
  BY <1>3, <1>6 DEF IterInv

-----------------------------------------------------------------------------
(* A store of a key that is not found.                                     *)

\* The region of the new entry begins where the allocator stood, behind those of
\* the others, and no chain that led to an entry is cut.
LEMMA InsertKeeps ==
  ASSUME KvInv, NEW key \in Keys, NEW data \in Data, NEW length \in Lengths,
         Insert(key, data, length)
  PROVE  KvInv'
<1> USE DEF KvInv
<1>1. PICK slot \in Slots \cup {NIL}, last \in Slots \cup {NIL} :
        NewEntry(slot, last, key, latest, length)
  BY InsertAdds
<1> DEFINE new == [key |-> key, mem_offset |-> latest, length |-> length, next_slot |-> NIL]
<1>2. /\ latest' = latest + length /\ latest + length <= StorageSize
      /\ storage' = Written(latest, data, length)
      /\ expected' = [expected EXCEPT ![key] = [n \in 1 .. length |-> data]]
      /\ UNCHANGED iterators
  BY DEF Insert, Expect
<1>3. latest \in Nat /\ length \in Nat /\ length > 0 /\ StorageSize \in Nat
  BY KvAssumption DEF TypeOK
<1>4. slot \in Slots /\ ~Occupied(slot) /\ NIL \notin Slots /\ Hash[key] \in Slots
  BY <1>1, KvAssumption DEF NewEntry, NIL, Slots
<1>5. \A s \in Slots : Occupied(s)' <=> Occupied(s) \/ s = slot
  BY <1>1, <1>2, NewFields
<1>6. kv_mapping_table'[slot] = new
  BY <1>1, <1>2, NewFields
<1>7. \A s \in Slots \ {slot} :
        /\ kv_mapping_table'[s].key = kv_mapping_table[s].key
        /\ kv_mapping_table'[s].mem_offset = kv_mapping_table[s].mem_offset
        /\ kv_mapping_table'[s].length = kv_mapping_table[s].length
        /\ kv_mapping_table'[s].next_slot = IF s = last THEN slot ELSE kv_mapping_table[s].next_slot
        /\ ~Occupied(s) => kv_mapping_table'[s] = kv_mapping_table[s]
  BY <1>1, <1>2, NewFields
<1>8. \A s \in Slots : Occupied(s) => kv_mapping_table[s].key # key
  BY SlotOfKey DEF Insert
<1>9. \A s \in Slots : Occupied(s) =>
        /\ kv_mapping_table[s].mem_offset \in Nat /\ kv_mapping_table[s].length \in Nat
        /\ kv_mapping_table[s].key \in Keys /\ kv_mapping_table[s].length \in Lengths
        /\ kv_mapping_table[s].length > 0
        /\ kv_mapping_table[s].mem_offset + kv_mapping_table[s].length <= latest
  <2>1. Bytes \subseteq Nat /\ \A n \in Lengths : n \in Nat /\ n > 0
    BY <1>3, KvAssumption DEF Bytes
  <2>2. \A s \in Slots : Occupied(s) => kv_mapping_table[s].mem_offset \in Nat
    BY <2>1 DEF TypeOK, Occupied
  <2> QED
    BY <2>1, <2>2 DEF TableInv, EntriesOK
<1>10. TypeOK'
  <2>1. kv_mapping_table' \in [Slots -> EntryType]
    BY <1>1, <1>2, NewFields
  <2>2. latest' \in 0 .. StorageSize
    BY <1>2, <1>3
  <2>3. storage' \in [Bytes -> Data \cup {NoValue}]
    BY <1>2, <1>3, ReadsBack
  <2>4. iter_handle' = iter_handle /\ owed' = owed /\ given' = given
    BY <1>2 DEF iterators
  <2> QED
    BY <2>1, <2>2, <2>3, <2>4 DEF TypeOK, EntryType
<1>11. EntriesOK'
  <2>1. ASSUME NEW s \in Slots, Occupied(s)'
        PROVE  /\ kv_mapping_table'[s].key \in Keys /\ kv_mapping_table'[s].length \in Lengths
               /\ kv_mapping_table'[s].mem_offset + kv_mapping_table'[s].length <= latest'
    <3>1. CASE s = slot
      BY <1>2, <1>3, <1>6, <3>1
    <3>2. CASE s # slot
      BY <1>2, <1>3, <1>5, <1>7, <1>9, <2>1, <3>2
    <3> QED
      BY <3>1, <3>2
  <2>2. ASSUME NEW s \in Slots, ~Occupied(s)'
        PROVE  kv_mapping_table'[s] = Free
    BY <1>5, <1>7, <2>2 DEF TableInv, EntriesOK
  <2> QED
    BY <2>1, <2>2 DEF EntriesOK
<1>12. RegionsDisjoint'
  <2>1. ASSUME NEW s \in Slots, NEW t \in Slots, Occupied(s)', Occupied(t)', s # t
        PROVE  \/ kv_mapping_table'[s].mem_offset + kv_mapping_table'[s].length <= kv_mapping_table'[t].mem_offset
               \/ kv_mapping_table'[t].mem_offset + kv_mapping_table'[t].length <= kv_mapping_table'[s].mem_offset
    <3>1. CASE s = slot
      BY <1>3, <1>5, <1>6, <1>7, <1>9, <2>1, <3>1
    <3>2. CASE t = slot
      BY <1>3, <1>5, <1>6, <1>7, <1>9, <2>1, <3>2
    <3>3. CASE s # slot /\ t # slot
      BY <1>5, <1>7, <2>1, <3>3 DEF TableInv, RegionsDisjoint
    <3> QED
      BY <3>1, <3>2, <3>3
  <2> QED
    BY <2>1 DEF RegionsDisjoint
<1>13. ChainsGetNewer'
  <2>1. ASSUME NEW s \in Slots, Occupied(s)', NEW n, n = kv_mapping_table'[s].next_slot, n # NIL, Occupied(n)'
        PROVE  kv_mapping_table'[s].mem_offset < kv_mapping_table'[n].mem_offset
    <3>1. s # slot
      BY <1>6, <2>1
    <3>2. kv_mapping_table[s].next_slot \in Slots \cup {NIL} /\ Occupied(s)
      BY <1>5, <2>1, <3>1 DEF TypeOK
    <3>3. n \in Slots
      BY <1>4, <1>7, <2>1, <3>1, <3>2
    <3>4. CASE n = slot
      BY <1>3, <1>6, <1>7, <1>9, <3>1, <3>2, <3>4
    <3>5. CASE n # slot
      <4>1. n = kv_mapping_table[s].next_slot /\ Occupied(n)
        BY <1>5, <1>7, <2>1, <3>1, <3>3, <3>5
      <4>2. kv_mapping_table[s].mem_offset < kv_mapping_table[n].mem_offset
        BY <2>1, <3>2, <4>1 DEF TableInv, ChainsGetNewer
      <4> QED
        BY <1>7, <3>1, <3>3, <3>5, <4>2
    <3> QED
      BY <3>4, <3>5
  <2>2. \A s \in Slots : \A n : n = kv_mapping_table'[s].next_slot /\ Occupied(s)' /\ n # NIL =>
          ~Occupied(n)' \/ kv_mapping_table'[s].mem_offset < kv_mapping_table'[n].mem_offset
    BY <2>1
  <2> QED
    BY <2>2 DEF ChainsGetNewer, Occupied
<1>14. EntriesAreFound'
  <2>1. \A t \in Slots : Occupied(t) =>
          \/ Occupied(t)' /\ kv_mapping_table'[t].next_slot = kv_mapping_table[t].next_slot
          \/ kv_mapping_table[t].next_slot = NIL
          \/ ~Occupied(kv_mapping_table[t].next_slot)
    BY <1>1, <1>4, <1>5, <1>7 DEF NewEntry
  <2>2. ASSUME NEW k \in Keys, NEW s \in Slots, Occupied(s)', s # slot, kv_mapping_table'[s].key = k
        PROVE  s \in Visited(k)'
    <3>1. s \in Visited(k)
      BY <1>5, <1>7, <2>2 DEF TableInv, EntriesAreFound
    <3> QED
      BY <2>1, <2>2, <3>1, StillFound
  <2>3. slot \in Visited(key)'
    <3>1. slot = Hash[key] => slot \in Visited(key)'
      BY <1>4, <1>5 DEF Visited, Entries
    <3>2. CASE last # NIL
      <4>1. last \in Visited(key) /\ last \in Slots /\ Occupied(last)
        BY <1>1, <3>2 DEF NewEntry
      <4>2. last \in Visited(key)' /\ kv_mapping_table'[last].next_slot = slot
        BY <1>4, <1>5, <1>7, <2>1, <4>1, StillFound
      <4>3. ASSUME NEW R \in SUBSET Entries', Hash[key] \in R, FollowsChains(R)'
            PROVE  slot \in R
        <5>1. last \in R
          BY <4>2, <4>3 DEF Visited
        <5> QED
          BY <1>4, <1>5, <4>1, <4>2, <4>3, <5>1 DEF FollowsChains
      <4> QED
        BY <1>4, <1>5, <4>2, <4>3 DEF Visited, Entries
    <3> QED
      BY <1>1, <1>4, <3>1, <3>2 DEF NewEntry
  <2> QED
    BY <1>6, <1>7, <2>2, <2>3 DEF EntriesAreFound
<1>15. KeysAreUnique'
  <2>1. ASSUME NEW s \in Slots, NEW t \in Slots, Occupied(s)', Occupied(t)',
               kv_mapping_table'[s].key = kv_mapping_table'[t].key
        PROVE  s = t
    <3>1. CASE s = slot \/ t = slot
      BY <1>5, <1>6, <1>7, <1>8, <2>1, <3>1
    <3>2. CASE s # slot /\ t # slot
      BY <1>5, <1>7, <2>1, <3>2 DEF TableInv, KeysAreUnique
    <3> QED
      BY <3>1, <3>2
  <2> QED
    BY <2>1 DEF KeysAreUnique
<1>16. ValuesAreKept'
  <2>1. expected \in [Keys -> Values]
    BY DEF ValuesAreKept
  <2>2. [n \in 1 .. length |-> data] \in Values
    BY DEF Values
  <2>3. expected' \in [Keys -> Values] /\ expected'[key] = [n \in 1 .. length |-> data]
        /\ \A k \in Keys \ {key} : expected'[k] = expected[k]
    BY <1>2, <2>1, <2>2
  <2>4. ASSUME NEW s \in Slots, Occupied(s)'
        PROVE  expected'[kv_mapping_table'[s].key] = ValueAt(s)'
    <3>1. CASE s = slot
      <4>1. \A m \in 1 .. length : storage'[latest + m - 1] = data
        <5>1. latest + length <= StorageSize /\ storage' = Written(latest, data, length)
          BY <1>2
        <5> QED
          BY <1>3, <5>1, ReadsBack
      <4>2. ValueAt(s)' = [m \in 1 .. length |-> storage'[latest + m - 1]]
        BY <1>6, <3>1 DEF ValueAt
      <4>3. kv_mapping_table'[s].key = key
        BY <1>6, <3>1
      <4> QED
        BY <2>3, <4>1, <4>2, <4>3
    <3>2. CASE s # slot
      <4> DEFINE o == kv_mapping_table[s].mem_offset
                 n == kv_mapping_table[s].length
      <4>1. Occupied(s) /\ o \in Nat /\ n \in Nat /\ o + n <= latest
        BY <1>5, <1>9, <2>4, <3>2
      <4> HIDE DEF o, n
      <4>2. \A m \in 1 .. n : storage'[o + m - 1] = storage[o + m - 1]
        <5>1. o + n <= StorageSize
          BY <1>2, <1>3, <4>1
        <5>2. \A o2, n2 \in Nat :
                o2 + n2 <= StorageSize /\ (o2 + n2 <= latest \/ latest + length <= o2) =>
                  \A m \in 1 .. n2 : storage'[o2 + m - 1] = storage[o2 + m - 1]
          <6>1. latest + length <= StorageSize /\ storage' = Written(latest, data, length)
            BY <1>2
          <6> QED
            BY <1>3, <6>1, ReadsBack
        <5> QED
          BY <4>1, <5>1, <5>2
      <4>3. ValueAt(s)' = [m \in 1 .. n |-> storage'[o + m - 1]]
        BY <1>7, <3>2 DEF ValueAt, o, n
      <4>4. ValueAt(s) = [m \in 1 .. n |-> storage[o + m - 1]]
        BY DEF ValueAt, o, n
      <4>5. expected[kv_mapping_table[s].key] = ValueAt(s)
        BY <4>1 DEF ValuesAreKept
      <4>6. expected'[kv_mapping_table'[s].key] = expected[kv_mapping_table[s].key]
        <5>1. kv_mapping_table[s].key \in Keys \ {key}
          BY <1>8, <1>9, <4>1
        <5>2. kv_mapping_table'[s].key = kv_mapping_table[s].key
          BY <1>7, <3>2
        <5> QED
          BY <2>3, <5>1, <5>2
      <4> QED
        BY <4>2, <4>3, <4>4, <4>5, <4>6
    <3> QED
      BY <3>1, <3>2
  <2>5. ASSUME NEW k \in Keys, k \notin Present'
        PROVE  expected'[k] = NoValue
    <3>1. k # key
      BY <1>4, <1>5, <1>6, <2>5 DEF Present, Entries
    <3>2. k \notin Present
      BY <1>4, <1>5, <1>7, <2>5 DEF Present, Entries
    <3> QED
      BY <2>3, <3>1, <3>2 DEF ValuesAreKept
  <2> QED
    BY <2>3, <2>4, <2>5 DEF ValuesAreKept
<1>17. IterInv'
  <2>1. {key} \cap Present = {}
    BY <1>8 DEF Present, Entries
  <2>2. \A s \in Slots : Occupied(s) => Occupied(s)' /\ kv_mapping_table'[s].key = kv_mapping_table[s].key
    BY <1>4, <1>5, <1>7
  <2>3. \A s \in Slots : Occupied(s)' =>
          \/ Occupied(s) /\ kv_mapping_table'[s].key = kv_mapping_table[s].key
          \/ kv_mapping_table'[s].key \in {key}
    BY <1>5, <1>6, <1>7
  <2> QED
    BY <1>2, <1>10, <2>1, <2>2, <2>3, IterKept
<1> QED
  BY <1>10, <1>11, <1>12, <1>13, <1>14, <1>15, <1>16, <1>17 DEF TableInv

-----------------------------------------------------------------------------
(* A store of a key that is found.                                         *)

\* A value no longer than the one before it takes its place.
LEMMA RewriteKeeps ==
  ASSUME KvInv, NEW key \in Keys, NEW data \in Data, NEW length \in Lengths,
         NEW slot \in Slots, slot = SlotOf(key), length <= kv_mapping_table[slot].length,
         storage' = Written(kv_mapping_table[slot].mem_offset, data, length),
         kv_mapping_table' = [kv_mapping_table EXCEPT ![slot].length = length],
         Expect(key, data, length), UNCHANGED <<latest, iterators>>
  PROVE  KvInv'
<1> USE DEF KvInv
<1> DEFINE o == kv_mapping_table[slot].mem_offset
<1>1. Occupied(slot) /\ kv_mapping_table[slot].key = key
  <2>1. slot # NIL
    BY DEF Slots, NIL
  <2> QED
    BY <2>1, SlotOfKey
<1>2. latest \in Nat /\ length \in Nat /\ length > 0 /\ StorageSize \in Nat /\ latest <= StorageSize
  BY KvAssumption DEF TypeOK
<1>3. \A s \in Slots :
        /\ kv_mapping_table'[s].key = kv_mapping_table[s].key
        /\ kv_mapping_table'[s].mem_offset = kv_mapping_table[s].mem_offset
        /\ kv_mapping_table'[s].length = IF s = slot THEN length ELSE kv_mapping_table[s].length
        /\ kv_mapping_table'[s].next_slot = kv_mapping_table[s].next_slot
        /\ ~Occupied(s) => kv_mapping_table'[s] = kv_mapping_table[s]
  BY <1>1 DEF TypeOK
<1>4. \A s \in Slots : Occupied(s)' <=> Occupied(s)
  BY <1>3 DEF Occupied
<1>5. \A s \in Slots : Occupied(s) =>
        /\ kv_mapping_table[s].mem_offset \in Nat /\ kv_mapping_table[s].length \in Nat
        /\ kv_mapping_table[s].key \in Keys /\ kv_mapping_table[s].length \in Lengths
        /\ kv_mapping_table[s].mem_offset + kv_mapping_table[s].length <= latest
  <2>1. Bytes \subseteq Nat /\ \A n \in Lengths : n \in Nat /\ n > 0
    BY <1>2, KvAssumption DEF Bytes
  <2>2. \A s \in Slots : Occupied(s) => kv_mapping_table[s].mem_offset \in Nat
    BY <2>1 DEF TypeOK, Occupied
  <2> QED
    BY <2>1, <2>2 DEF TableInv, EntriesOK
<1>6. o \in Nat /\ o + length <= StorageSize
  BY <1>1, <1>2, <1>5
<1>7. latest' = latest /\ UNCHANGED iterators
  OBVIOUS
<1>8. TypeOK'
  <2>1. kv_mapping_table' \in [Slots -> EntryType]
    BY DEF TypeOK, EntryType
  <2>2. storage' \in [Bytes -> Data \cup {NoValue}]
    BY <1>2, <1>6, ReadsBack
  <2>3. iter_handle' = iter_handle /\ owed' = owed /\ given' = given
    BY <1>7 DEF iterators
  <2> QED
    BY <1>7, <2>1, <2>2, <2>3 DEF TypeOK, EntryType
<1>9. EntriesOK'
  <2>1. ASSUME NEW s \in Slots, Occupied(s)'
        PROVE  /\ kv_mapping_table'[s].key \in Keys /\ kv_mapping_table'[s].length \in Lengths
               /\ kv_mapping_table'[s].mem_offset + kv_mapping_table'[s].length <= latest'
    BY <1>2, <1>3, <1>4, <1>5, <1>7, <2>1
  <2>2. ASSUME NEW s \in Slots, ~Occupied(s)'
        PROVE  kv_mapping_table'[s] = Free
    BY <1>3, <1>4, <2>2 DEF TableInv, EntriesOK
  <2> QED
    BY <2>1, <2>2 DEF EntriesOK
<1>10. RegionsDisjoint'
  <2>1. ASSUME NEW s \in Slots, NEW t \in Slots, Occupied(s), Occupied(t), s # t
        PROVE  \/ kv_mapping_table'[s].mem_offset + kv_mapping_table'[s].length <= kv_mapping_table'[t].mem_offset
               \/ kv_mapping_table'[t].mem_offset + kv_mapping_table'[t].length <= kv_mapping_table'[s].mem_offset
    <3>1. \/ kv_mapping_table[s].mem_offset + kv_mapping_table[s].length <= kv_mapping_table[t].mem_offset
          \/ kv_mapping_table[t].mem_offset + kv_mapping_table[t].length <= kv_mapping_table[s].mem_offset
      BY <2>1 DEF TableInv, RegionsDisjoint
    <3> QED
      BY <1>2, <1>3, <1>5, <2>1, <3>1
  <2> QED
    BY <1>4, <2>1 DEF RegionsDisjoint
<1>11. ChainsGetNewer'
  <2>1. ASSUME NEW s \in Slots, Occupied(s)', NEW n, n = kv_mapping_table'[s].next_slot, n # NIL, Occupied(n)'
        PROVE  kv_mapping_table'[s].mem_offset < kv_mapping_table'[n].mem_offset
    <3>1. n \in Slots /\ n = kv_mapping_table[s].next_slot
      BY <1>3, <2>1 DEF TypeOK
    <3>2. kv_mapping_table[s].mem_offset < kv_mapping_table[n].mem_offset
      BY <1>4, <2>1, <3>1 DEF TableInv, ChainsGetNewer
    <3> QED
      BY <1>3, <3>1, <3>2
  <2>2. \A s \in Slots : \A n : n = kv_mapping_table'[s].next_slot /\ Occupied(s)' /\ n # NIL =>
          ~Occupied(n)' \/ kv_mapping_table'[s].mem_offset < kv_mapping_table'[n].mem_offset
    BY <2>1
  <2> QED
    BY <2>2 DEF ChainsGetNewer, Occupied
<1>12. EntriesAreFound'
  <2>1. ASSUME NEW k \in Keys, NEW s \in Slots, Occupied(s)', kv_mapping_table'[s].key = k
        PROVE  s \in Visited(k)'
    <3>1. s \in Visited(k)
      BY <1>3, <1>4, <2>1 DEF TableInv, EntriesAreFound
    <3> QED
      BY <1>3, <1>4, <2>1, <3>1, StillFound
  <2> QED
    BY <2>1 DEF EntriesAreFound
<1>13. KeysAreUnique'
  BY <1>3, <1>4 DEF TableInv, KeysAreUnique
<1>14. Present' = Present
  BY <1>3, <1>4 DEF Present, Entries
<1>15. ValuesAreKept'
  <2>1. [n \in 1 .. length |-> data] \in Values
    BY DEF Values
  <2>2. expected' \in [Keys -> Values] /\ expected'[key] = [n \in 1 .. length |-> data]
        /\ \A k \in Keys \ {key} : expected'[k] = expected[k]
    BY <2>1 DEF Expect, ValuesAreKept
  <2>3. ASSUME NEW s \in Slots, Occupied(s)
        PROVE  expected'[kv_mapping_table'[s].key] = ValueAt(s)'
    <3>1. CASE s = slot
      <4>1. \A m \in 1 .. length : storage'[o + m - 1] = data
        BY <1>2, <1>6, ReadsBack
      <4>2. ValueAt(s)' = [m \in 1 .. length |-> storage'[o + m - 1]]
        BY <1>3, <3>1 DEF ValueAt
      <4>3. kv_mapping_table'[s].key = key
        BY <1>1, <1>3, <3>1
      <4> QED
        BY <2>2, <4>1, <4>2, <4>3
    <3>2. CASE s # slot
      <4> DEFINE p == kv_mapping_table[s].mem_offset
                 n == kv_mapping_table[s].length
      <4>1. p \in Nat /\ n \in Nat /\ p + n <= StorageSize
        BY <1>2, <1>5, <2>3
      <4>2. p + n <= o \/ o + length <= p
        <5>1. p + n <= o \/ o + kv_mapping_table[slot].length <= p
          BY <1>1, <2>3, <3>2 DEF TableInv, RegionsDisjoint
        <5> QED
          BY <1>1, <1>2, <1>5, <4>1, <5>1
      <4> HIDE DEF p, n
      <4>3. \A m \in 1 .. n : storage'[p + m - 1] = storage[p + m - 1]
        <5> HIDE DEF o
        <5>1. storage' = Written(o, data, length)
          BY DEF o
        <5>2. \A o2, n2 \in Nat :
                o2 + n2 <= StorageSize /\ (o2 + n2 <= o \/ o + length <= o2) =>
                  \A m \in 1 .. n2 : storage'[o2 + m - 1] = storage[o2 + m - 1]
          BY <1>2, <1>6, <5>1, ReadsBack
        <5> QED
          BY <4>1, <4>2, <5>2
      <4>4. ValueAt(s)' = [m \in 1 .. n |-> storage'[p + m - 1]]
        BY <1>3, <3>2 DEF ValueAt, p, n
      <4>5. ValueAt(s) = [m \in 1 .. n |-> storage[p + m - 1]]
        BY DEF ValueAt, p, n
      <4>6. expected[kv_mapping_table[s].key] = ValueAt(s)
        BY <2>3 DEF ValuesAreKept
      <4>7. kv_mapping_table[s].key \in Keys \ {key}
        BY <1>1, <1>5, <2>3, <3>2 DEF TableInv, KeysAreUnique
      <4>8. expected'[kv_mapping_table'[s].key] = expected[kv_mapping_table[s].key]
        BY <1>3, <2>2, <4>7
      <4> QED
        BY <4>3, <4>4, <4>5, <4>6, <4>8
    <3> QED
      BY <3>1, <3>2
  <2>4. ASSUME NEW k \in Keys, k \notin Present
        PROVE  expected'[k] = NoValue
    <3>1. k # key
      BY <1>1, <2>4 DEF Present, Entries
    <3> QED
      BY <2>2, <2>4, <3>1 DEF ValuesAreKept
  <2> QED
    BY <1>4, <1>14, <2>2, <2>3, <2>4 DEF ValuesAreKept
<1>16. IterInv'
  <2>1. {} \cap Present = {}
    OBVIOUS
  <2> QED
    BY <1>3, <1>4, <1>7, <1>8, <2>1, IterKept
<1> QED
  BY <1>8, <1>9, <1>10, <1>11, <1>12, <1>13, <1>15, <1>16 DEF TableInv

\* A careful host lets no value grow.
LEMMA UpdateKeeps ==
  ASSUME Careful, KvInv, NEW key \in Keys, NEW data \in Data, NEW length \in Lengths,
         Update(key, data, length) \/ BatchUpdate(key, data, length)
  PROVE  KvInv'
<1>1. PICK slot \in Slots : slot = SlotOf(key)
  BY SlotOfKey DEF KvInv, Update, BatchUpdate
<1> DEFINE entry == kv_mapping_table[slot]
<1>2. kv_mapping_table \in [Slots -> EntryType] /\ entry.length \in Lengths
  <2>1. Occupied(slot)
    BY <1>1, SlotOfKey DEF KvInv, Update, BatchUpdate
  <2> QED
    BY <2>1 DEF KvInv, TypeOK, EntryType, TableInv, EntriesOK
<1>3. length \in Nat /\ entry.length \in Nat /\ SmallLength \in Nat
  BY <1>2, KvAssumption
<1>4. CASE Update(key, data, length)
  <2> DEFINE kept == IF length <= SmallLength /\ entry.length <= SmallLength THEN length ELSE entry.length
  <2>1. CarefulStore(entry, length, FALSE)
    BY <1>1, <1>4 DEF Update
  <2>2. length = entry.length \/ (length < entry.length /\ entry.length <= SmallLength)
    BY <2>1, Zenon DEF CarefulStore
  <2>3. kept = length /\ length <= entry.length
    BY <1>3, <2>2
  <2>4. kv_mapping_table' = [kv_mapping_table EXCEPT ![slot].length = length]
    <3>1. kv_mapping_table' = [kv_mapping_table EXCEPT ![slot].length = kept]
      BY <1>1, <1>4 DEF Update
    <3> HIDE DEF kept
    <3> QED
      BY <2>3, <3>1
  <2>5. /\ storage' = Written(entry.mem_offset, data, length)
        /\ Expect(key, data, length) /\ UNCHANGED <<latest, iterators>>
    BY <1>1, <1>4 DEF Update
  <2> QED
    BY <1>1, <2>3, <2>4, <2>5, RewriteKeeps
<1>5. CASE BatchUpdate(key, data, length)
  <2>1. CarefulStore(entry, length, TRUE)
    BY <1>1, <1>5 DEF BatchUpdate
  <2>2. length = entry.length
    BY <2>1, Zenon DEF CarefulStore
  <2>3. kv_mapping_table' = kv_mapping_table
    BY <1>5 DEF BatchUpdate
  <2>4. kv_mapping_table' = [kv_mapping_table EXCEPT ![slot].length = length]
    BY <1>2, <2>2, <2>3 DEF EntryType
  <2>5. /\ storage' = Written(entry.mem_offset, data, length)
        /\ Expect(key, data, length) /\ UNCHANGED <<latest, iterators>>
    BY <1>1, <1>5 DEF BatchUpdate
  <2>6. length <= entry.length
    BY <1>3, <2>2
  <2> QED
    BY <1>1, <2>4, <2>5, <2>6, RewriteKeeps
<1> QED
  BY <1>4, <1>5

-----------------------------------------------------------------------------
(* A deletion.                                                             *)

\* A careful host deletes the newest entry: none is chained behind it.
LEMMA DeleteKeeps ==
  ASSUME Careful, KvInv, NEW key \in Keys, Delete(key)
  PROVE  KvInv'
<1> USE DEF KvInv
<1>1. PICK d \in Slots : d = SlotOf(key) /\ Occupied(d) /\ kv_mapping_table[d].key = key
  BY SlotOfKey DEF Delete
<1>2. /\ kv_mapping_table' = [kv_mapping_table EXCEPT ![d] = Free]
      /\ expected' = [expected EXCEPT ![key] = NoValue]
      /\ owed' = [i \in Handles |-> owed[i] \ {key}]
      /\ given' = [i \in Handles |-> given[i] \ {key}]
      /\ latest' = latest /\ storage' = storage /\ iter_handle' = iter_handle
  BY <1>1 DEF Delete
<1>3. \A s \in Slots : kv_mapping_table[s].mem_offset <= kv_mapping_table[d].mem_offset
  BY <1>1 DEF Delete, CarefulDelete
<1>4. kv_mapping_table'[d] = Free /\ \A s \in Slots \ {d} : kv_mapping_table'[s] = kv_mapping_table[s]
  BY <1>2 DEF TypeOK
<1>5. \A s \in Slots : Occupied(s)' <=> Occupied(s) /\ s # d
  BY <1>4 DEF Occupied, Free
<1>6. \A s \in Slots : Occupied(s) => kv_mapping_table[s].mem_offset \in Nat
  BY KvAssumption DEF TypeOK, Occupied, Bytes
<1>7. TypeOK'
  <2>1. Free \in EntryType
    BY DEF Free, EntryType
  <2>2. kv_mapping_table' \in [Slots -> EntryType]
    BY <1>2, <2>1 DEF TypeOK, EntryType
  <2>3. owed' \in [Handles -> SUBSET Keys] /\ given' \in [Handles -> SUBSET Keys]
    BY <1>2 DEF TypeOK
  <2> QED
    BY <1>2, <2>2, <2>3 DEF TypeOK, EntryType
<1>8. EntriesOK'
  BY <1>2, <1>4, <1>5 DEF TableInv, EntriesOK
<1>9. RegionsDisjoint'
  BY <1>4, <1>5 DEF TableInv, RegionsDisjoint
<1>10. ChainsGetNewer'
  <2>1. ASSUME NEW s \in Slots, Occupied(s)', NEW n, n = kv_mapping_table'[s].next_slot, n # NIL, Occupied(n)'
        PROVE  kv_mapping_table'[s].mem_offset < kv_mapping_table'[n].mem_offset
    <3>1. s # d /\ Occupied(s) /\ n \in Slots /\ n = kv_mapping_table[s].next_slot
      BY <1>4, <1>5, <2>1 DEF TypeOK
    <3> QED
      BY <1>4, <1>5, <2>1, <3>1 DEF TableInv, ChainsGetNewer
  <2>2. \A s \in Slots : \A n : n = kv_mapping_table'[s].next_slot /\ Occupied(s)' /\ n # NIL =>
          ~Occupied(n)' \/ kv_mapping_table'[s].mem_offset < kv_mapping_table'[n].mem_offset
    BY <2>1
  <2> QED
    BY <2>2 DEF ChainsGetNewer, Occupied
<1>11. EntriesAreFound'
  <2>1. kv_mapping_table[d].next_slot = NIL \/ ~Occupied(kv_mapping_table[d].next_slot)
    <3> SUFFICES ASSUME NEW n, n = kv_mapping_table[d].next_slot, n # NIL, Occupied(n)
                 PROVE  FALSE
      OBVIOUS
    <3>1. n \in Slots
      BY DEF TypeOK
    <3>2. kv_mapping_table[d].mem_offset < kv_mapping_table[n].mem_offset
      BY <1>1 DEF TableInv, ChainsGetNewer
    <3> QED
      BY <1>1, <1>3, <1>6, <3>1, <3>2
  <2>2. ASSUME NEW k \in Keys, NEW s \in Slots, Occupied(s)', kv_mapping_table'[s].key = k
        PROVE  s \in Visited(k)'
    <3>1. s \in Visited(k)
      BY <1>4, <1>5, <2>2 DEF TableInv, EntriesAreFound
    <3>2. \A t \in Slots : Occupied(t) =>
            \/ Occupied(t)' /\ kv_mapping_table'[t].next_slot = kv_mapping_table[t].next_slot
            \/ kv_mapping_table[t].next_slot = NIL
            \/ ~Occupied(kv_mapping_table[t].next_slot)
      BY <1>4, <1>5, <2>1
    <3> QED
      BY <2>2, <3>1, <3>2, StillFound
  <2> QED
    BY <2>2 DEF EntriesAreFound
<1>12. KeysAreUnique'
  BY <1>4, <1>5 DEF TableInv, KeysAreUnique
<1>13. \A s \in Slots : Occupied(s)' => kv_mapping_table[s].key # key
  BY <1>1, <1>5 DEF TableInv, KeysAreUnique
<1>14. Present' = Present \ {key}
  <2>1. \A s \in Slots : Occupied(s)' <=> Occupied(s) /\ kv_mapping_table[s].key # key
    BY <1>1, <1>5, <1>13
  <2> QED
    BY <1>4, <1>5, <2>1 DEF Present, Entries
<1>15. ValuesAreKept'
  <2>1. expected' \in [Keys -> Values] /\ expected'[key] = NoValue
        /\ \A k \in Keys \ {key} : expected'[k] = expected[k]
    BY <1>2 DEF ValuesAreKept, Values
  <2>2. ASSUME NEW s \in Slots, Occupied(s)'
        PROVE  expected'[kv_mapping_table'[s].key] = ValueAt(s)'
    <3>1. Occupied(s) /\ s # d /\ kv_mapping_table[s].key \in Keys \ {key}
      BY <1>5, <1>13, <2>2 DEF TableInv, EntriesOK
    <3>2. ValueAt(s)' = ValueAt(s)
      BY <1>2, <1>4, <3>1 DEF ValueAt
    <3> QED
      BY <1>4, <2>1, <3>1, <3>2 DEF ValuesAreKept
  <2>3. ASSUME NEW k \in Keys, k \notin Present'
        PROVE  expected'[k] = NoValue
    BY <1>14, <2>1, <2>3 DEF ValuesAreKept
  <2> QED
    BY <2>1, <2>2, <2>3 DEF ValuesAreKept
<1>16. IterInv'
  <2>1. \A i \in Handles : given'[i] \subseteq Present'
    BY <1>2, <1>14 DEF IterInv
  <2>2. ASSUME NEW i \in Handles, iter_handle[i].open
        PROVE  LET ahead == {kv_mapping_table'[s].key : s \in Ahead(iter_handle[i].pos, iter_handle[i].filter)'}
               IN  owed'[i] \subseteq ahead /\ given'[i] \cap ahead = {}
    <3> DEFINE A  == Ahead(iter_handle[i].pos, iter_handle[i].filter)
               A2 == A \ {d}
    <3>1. Ahead(iter_handle[i].pos, iter_handle[i].filter)' = A2
      BY <1>2, <1>4, <1>5 DEF Ahead
    <3>2. \A s \in A2 : s \in Slots /\ s # d /\ kv_mapping_table'[s].key = kv_mapping_table[s].key
      BY <1>4 DEF Ahead
    <3>3. owed[i] \subseteq {kv_mapping_table[s].key : s \in A}
          /\ given[i] \cap {kv_mapping_table[s].key : s \in A} = {}
      BY <2>2 DEF IterInv, IterationIsComplete
    <3> HIDE DEF A
    <3> QED
      BY <1>1, <1>2, <3>1, <3>2, <3>3
  <2>3. IterationIsComplete'
    BY <1>2, <1>7, <2>2 DEF IterationIsComplete
  <2> QED
    BY <2>1, <2>3 DEF IterInv
<1> QED
  BY <1>7, <1>8, <1>9, <1>10, <1>11, <1>12, <1>15, <1>16 DEF TableInv

-----------------------------------------------------------------------------
(* Iterators.                                                              *)

\* What reads only from the table keeps it, and what is expected of it.
LEMMA TableKept ==
  ASSUME KvInv, UNCHANGED <<kv_mapping_table, latest, storage, expected>>
  PROVE  TableInv' /\ ValuesAreKept' /\ Present' = Present
<1>1. /\ kv_mapping_table' = kv_mapping_table /\ latest' = latest
      /\ storage' = storage /\ expected' = expected
  OBVIOUS
<1>2. \A s : Occupied(s)' <=> Occupied(s)
  BY <1>1 DEF Occupied
<1>3. \A k : Visited(k)' = Visited(k)
  BY <1>1 DEF Visited, Entries, FollowsChains, Occupied
<1>4. Present' = Present
  BY <1>1 DEF Present, Entries, Occupied
<1>5. TableInv'
  BY <1>1, <1>2, <1>3 DEF KvInv, TableInv, EntriesOK, RegionsDisjoint, ChainsGetNewer,
     EntriesAreFound, KeysAreUnique, Occupied
<1>6. ValuesAreKept'
  BY <1>1, <1>2, <1>4 DEF KvInv, ValuesAreKept, ValueAt
<1> QED
  BY <1>4, <1>5, <1>6

\* All slots that an iterator has not passed and that its buffer has no room for
\* are where it goes on, or behind.
LEMMA ResumeAtRest ==
  ASSUME NEW pos \in 0 .. HashSlots, NEW filter
  PROVE  /\ Resume(pos, filter) \in 0 .. HashSlots
         /\ Fitting(pos, filter) \subseteq Ahead(pos, filter)
         /\ Ahead(Resume(pos, filter), filter) = Ahead(pos, filter) \ Fitting(pos, filter)
<1> DEFINE A == Ahead(pos, filter)
           F == Fitting(pos, filter)
           rest == A \ F
           Before(s) == {t \in A : t < s}
<1>1. HashSlots \in Nat /\ \A s \in Slots : s \in Nat /\ s < HashSlots
  BY KvAssumption DEF Slots
<1>2. A \subseteq Slots /\ F \subseteq A /\ rest \subseteq Slots
  BY DEF Ahead, Fitting
<1>3. CASE rest = {}
  <2>1. Resume(pos, filter) = HashSlots
    BY <1>3 DEF Resume
  <2>2. Ahead(HashSlots, filter) = {}
    BY <1>1 DEF Ahead
  <2> QED
    BY <1>1, <1>2, <1>3, <2>1, <2>2
<1>4. CASE rest # {}
  <2> DEFINE m == Min(rest)
  <2>1. Resume(pos, filter) = m
    BY <1>4 DEF Resume
  <2>2. m \in rest /\ \A s \in rest : m <= s
    <3>1. rest \in SUBSET Nat
      BY <1>1, <1>2
    <3> HIDE DEF rest
    <3> QED
      BY <1>4, <3>1, MinIsLeast
  <2>3. m \in Slots /\ m \in A /\ ~(Cardinality(Before(m)) < BufKeys)
    BY <1>2, <2>2 DEF Fitting
  <2>4. pos <= m /\ m \in 0 .. HashSlots
    BY <1>1, <2>3 DEF Ahead
  <2>5. ASSUME NEW s \in A, m <= s
        PROVE  s \in rest
    <3>1. IsFiniteSet(Before(s))
      <4>1. IsFiniteSet(Slots)
        BY <1>1, FS_Interval DEF Slots
      <4> QED
        BY <1>2, <4>1, FS_Subset
    <3>2. Before(m) \subseteq Before(s)
      BY <1>1, <1>2, <2>3, <2>5
    <3>3. Cardinality(Before(m)) <= Cardinality(Before(s))
      BY <3>1, <3>2, FS_Subset
    <3>4. Cardinality(Before(s)) \in Nat /\ Cardinality(Before(m)) \in Nat /\ BufKeys \in Nat
      <4>1. IsFiniteSet(Before(m))
        BY <3>1, <3>2, FS_Subset
      <4> HIDE DEF Before
      <4>2. Cardinality(Before(s)) \in Nat /\ Cardinality(Before(m)) \in Nat
        BY <3>1, <4>1, FS_CardinalityType
      <4> QED
        BY <4>2, KvAssumption
    <3>5. ~(Cardinality(Before(s)) < BufKeys)
      BY <2>3, <3>3, <3>4
    <3> QED
      BY <2>5, <3>5 DEF Fitting
  <2>6. Ahead(m, filter) = {s \in A : m <= s}
    <3>1. pos \in Nat /\ m \in Nat
      BY <1>1, <2>3
    <3> HIDE DEF m
    <3> QED
      BY <1>1, <2>4, <3>1 DEF Ahead
  <2>7. Ahead(m, filter) = rest
    <3> HIDE DEF A, F, m
    <3> QED
      BY <2>2, <2>5, <2>6
  <2> QED
    BY <1>2, <2>1, <2>4, <2>7
<1> QED
  BY <1>3, <1>4

\* A read returns what fits, and leaves the rest ahead.
LEMMA IterReadKeeps ==
  ASSUME KvInv, NEW i \in Handles, IterRead(i)
  PROVE  KvInv'
<1> DEFINE h == iter_handle[i]
           A == Ahead(h.pos, h.filter)
           F == Fitting(h.pos, h.filter)
           KeyOf(s) == kv_mapping_table[s].key
           keys == {KeyOf(s) : s \in F}
<1>1. /\ h.open /\ h.pos \in 0 .. HashSlots
      /\ h \in [open : BOOLEAN, pos : 0 .. HashSlots, filter : SUBSET Keys]
  BY DEF IterRead, KvInv, TypeOK
<1>2. UNCHANGED <<kv_mapping_table, latest, storage, expected>>
  BY DEF IterRead
<1>3. TableInv' /\ ValuesAreKept' /\ Present' = Present
  BY <1>2, TableKept
<1>4. /\ iter_handle' = [iter_handle EXCEPT ![i].pos = Resume(h.pos, h.filter)]
      /\ owed' = [owed EXCEPT ![i] = @ \ keys]
      /\ given' = [given EXCEPT ![i] = @ \cup keys]
  BY DEF IterRead
<1>5. /\ Resume(h.pos, h.filter) \in 0 .. HashSlots /\ F \subseteq A
      /\ Ahead(Resume(h.pos, h.filter), h.filter) = A \ F
  BY <1>1, ResumeAtRest
<1>6. A \subseteq Slots /\ \A s \in A : Occupied(s) /\ KeyOf(s) \in h.filter
  BY DEF Ahead
<1>7. keys \subseteq Keys /\ keys \subseteq Present
  BY <1>1, <1>5, <1>6 DEF Present, Entries
<1>8. TypeOK'
  <2>1. iter_handle' \in [Handles -> [open : BOOLEAN, pos : 0 .. HashSlots, filter : SUBSET Keys]]
    BY <1>4, <1>5 DEF KvInv, TypeOK
  <2>2. owed' \in [Handles -> SUBSET Keys]
    BY <1>4 DEF KvInv, TypeOK
  <2>3. given' \in [Handles -> SUBSET Keys]
    BY <1>4, <1>7 DEF KvInv, TypeOK
  <2> QED
    BY <1>2, <2>1, <2>2, <2>3 DEF KvInv, TypeOK
<1>9. \A j \in Handles : given'[j] \subseteq Present'
  BY <1>3, <1>4, <1>7 DEF KvInv, IterInv, TypeOK
<1>10. \A pos, filter : Ahead(pos, filter)' = Ahead(pos, filter)
  BY <1>2 DEF Ahead, Occupied
<1>11. ASSUME NEW j \in Handles, iter_handle'[j].open
       PROVE  LET ahead == {KeyOf(s) : s \in Ahead(iter_handle'[j].pos, iter_handle'[j].filter)}
              IN  owed'[j] \subseteq ahead /\ given'[j] \cap ahead = {}
  <2>1. CASE j = i
    <3>1. /\ iter_handle'[j].pos = Resume(h.pos, h.filter) /\ iter_handle'[j].filter = h.filter
          /\ owed'[j] = owed[i] \ keys /\ given'[j] = given[i] \cup keys
      BY <1>4, <2>1 DEF KvInv, TypeOK
    <3>2. Ahead(iter_handle'[j].pos, iter_handle'[j].filter) = A \ F
      BY <1>5, <3>1
    <3>3. owed[i] \subseteq {KeyOf(s) : s \in A} /\ given[i] \cap {KeyOf(s) : s \in A} = {}
      BY <1>1 DEF KvInv, IterInv, IterationIsComplete
    <3>4. \A s, t \in A : KeyOf(s) = KeyOf(t) => s = t
      BY <1>6 DEF KvInv, TableInv, KeysAreUnique
    <3> HIDE DEF A, F, KeyOf
    <3> QED
      BY <1>5, <3>1, <3>2, <3>3, <3>4
  <2>2. CASE j # i
    <3>1. iter_handle'[j] = iter_handle[j] /\ owed'[j] = owed[j] /\ given'[j] = given[j]
      BY <1>4, <2>2 DEF KvInv, TypeOK
    <3> QED
      BY <1>11, <3>1 DEF KvInv, IterInv, IterationIsComplete
  <2> QED
    BY <2>1, <2>2
<1>12. IterationIsComplete'
  <2> SUFFICES ASSUME NEW j \in Handles, iter_handle'[j].open
               PROVE  LET ahead == {kv_mapping_table'[s].key : s \in Ahead(iter_handle[j].pos, iter_handle[j].filter)'}
                      IN  owed'[j] \subseteq ahead /\ given'[j] \cap ahead = {}
    BY <1>8 DEF IterationIsComplete
  <2>1. Ahead(iter_handle[j].pos, iter_handle[j].filter)' = Ahead(iter_handle'[j].pos, iter_handle'[j].filter)
    BY <1>2 DEF Ahead, Occupied
  <2> QED
    BY <1>2, <1>11, <2>1
<1> QED
  BY <1>3, <1>8, <1>9, <1>12 DEF KvInv, IterInv

\* The handle opened has every key of the filter ahead of it.
LEMMA IterOpenKeeps ==
  ASSUME KvInv, NEW filter \in Filters, IterOpen(filter)
  PROVE  KvInv'
<1> DEFINE unused == {i \in Handles : ~iter_handle[i].open}
<1>1. PICK i \in Handles :
        /\ iter_handle' = [iter_handle EXCEPT ![i] = [open |-> TRUE, pos |-> 0, filter |-> filter]]
        /\ owed' = [owed EXCEPT ![i] = filter \cap Present]
        /\ given' = [given EXCEPT ![i] = {}]
  <2>1. unused # {} /\ unused \in SUBSET Nat
    BY KvAssumption DEF IterOpen, Handles
  <2>2. Min(unused) \in unused
    BY <2>1, MinIsLeast
  <2> QED
    BY <2>2 DEF IterOpen
<1>2. UNCHANGED <<kv_mapping_table, latest, storage, expected>>
  BY DEF IterOpen
<1>3. TableInv' /\ ValuesAreKept' /\ Present' = Present
  BY <1>2, TableKept
<1>4. filter \in SUBSET Keys
  BY KvAssumption
<1>5. TypeOK'
  <2>1. iter_handle' \in [Handles -> [open : BOOLEAN, pos : 0 .. HashSlots, filter : SUBSET Keys]]
    BY <1>1, <1>4, KvAssumption DEF KvInv, TypeOK
  <2>2. owed' \in [Handles -> SUBSET Keys] /\ given' \in [Handles -> SUBSET Keys]
    BY <1>1, <1>4 DEF KvInv, TypeOK
  <2> QED
    BY <1>2, <2>1, <2>2 DEF KvInv, TypeOK
<1>6. \A j \in Handles : given'[j] \subseteq Present'
  BY <1>1, <1>3 DEF KvInv, IterInv, TypeOK
<1>7. ASSUME NEW j \in Handles, iter_handle'[j].open
      PROVE  LET ahead == {kv_mapping_table'[s].key : s \in Ahead(iter_handle[j].pos, iter_handle[j].filter)'}
             IN  owed'[j] \subseteq ahead /\ given'[j] \cap ahead = {}
  <2>1. Ahead(iter_handle[j].pos, iter_handle[j].filter)' = Ahead(iter_handle'[j].pos, iter_handle'[j].filter)
    BY <1>2 DEF Ahead, Occupied
  <2>2. CASE j = i
    <3>1. /\ iter_handle'[j] = [open |-> TRUE, pos |-> 0, filter |-> filter]
          /\ owed'[j] = filter \cap Present /\ given'[j] = {}
      BY <1>1, <2>2 DEF KvInv, TypeOK
    <3>2. Ahead(0, filter) = {s \in Slots : Occupied(s) /\ kv_mapping_table[s].key \in filter}
      BY KvAssumption DEF Ahead, Slots
    <3>3. \A k \in filter \cap Present : \E s \in Ahead(0, filter) : kv_mapping_table[s].key = k
      BY <3>2 DEF Present, Entries
    <3> QED
      BY <1>2, <2>1, <3>1, <3>3
  <2>3. CASE j # i
    <3>1. iter_handle'[j] = iter_handle[j] /\ owed'[j] = owed[j] /\ given'[j] = given[j]
      BY <1>1, <2>3 DEF KvInv, TypeOK
    <3> QED
      BY <1>2, <1>7, <2>1, <3>1 DEF KvInv, IterInv, IterationIsComplete
  <2> QED
    BY <2>2, <2>3
<1>8. IterationIsComplete'
  BY <1>5, <1>7 DEF IterationIsComplete
<1> QED
  BY <1>3, <1>5, <1>6, <1>8 DEF KvInv, IterInv

\* A closed handle owes nothing.
LEMMA IterCloseKeeps ==
  ASSUME KvInv, NEW i \in Handles, IterClose(i)
  PROVE  KvInv'
<1>1. /\ iter_handle' = [iter_handle EXCEPT ![i] = Closed]
      /\ owed' = [owed EXCEPT ![i] = {}] /\ given' = [given EXCEPT ![i] = {}]
      /\ UNCHANGED <<kv_mapping_table, latest, storage, expected>>
  BY DEF IterClose
<1>2. TableInv' /\ ValuesAreKept' /\ Present' = Present
  BY <1>1, TableKept
<1>3. TypeOK'
  <2>1. Closed \in [open : BOOLEAN, pos : 0 .. HashSlots, filter : SUBSET Keys]
    BY KvAssumption DEF Closed
  <2>2. iter_handle' \in [Handles -> [open : BOOLEAN, pos : 0 .. HashSlots, filter : SUBSET Keys]]
    BY <1>1, <2>1 DEF KvInv, TypeOK
  <2>3. owed' \in [Handles -> SUBSET Keys] /\ given' \in [Handles -> SUBSET Keys]
    BY <1>1 DEF KvInv, TypeOK
  <2> QED
    BY <1>1, <2>2, <2>3 DEF KvInv, TypeOK
<1>4. \A j \in Handles : given'[j] \subseteq Present'
  BY <1>1, <1>2 DEF KvInv, IterInv, TypeOK
<1>5. ASSUME NEW j \in Handles, iter_handle'[j].open
      PROVE  LET ahead == {kv_mapping_table'[s].key : s \in Ahead(iter_handle[j].pos, iter_handle[j].filter)'}
             IN  owed'[j] \subseteq ahead /\ given'[j] \cap ahead = {}
  <2>1. Ahead(iter_handle[j].pos, iter_handle[j].filter)' = Ahead(iter_handle'[j].pos, iter_handle'[j].filter)
    BY <1>1 DEF Ahead, Occupied
  <2>2. j # i
    BY <1>1, <1>5 DEF Closed, KvInv, TypeOK
  <2>3. iter_handle'[j] = iter_handle[j] /\ owed'[j] = owed[j] /\ given'[j] = given[j]
    BY <1>1, <2>2 DEF KvInv, TypeOK
  <2> QED
    BY <1>1, <1>5, <2>1, <2>3 DEF KvInv, IterInv, IterationIsComplete
<1>6. IterationIsComplete'
  BY <1>3, <1>5 DEF IterationIsComplete
<1> QED
  BY <1>2, <1>3, <1>4, <1>6 DEF KvInv, IterInv

-----------------------------------------------------------------------------
(* The theorems.                                                           *)

\* The empty table.
LEMMA InitKv == Init => KvInv
<1> SUFFICES ASSUME Init PROVE KvInv
  OBVIOUS
<1>1. Free \in EntryType /\ Closed \in [open : BOOLEAN, pos : 0 .. HashSlots, filter : SUBSET Keys]
  BY KvAssumption DEF Free, EntryType, Closed
<1>2. \A s \in Slots : kv_mapping_table[s] = Free /\ ~Occupied(s)
  BY DEF Init, Occupied, Free
<1>3. TypeOK
  BY <1>1, KvAssumption DEF Init, TypeOK, EntryType
<1>4. TableInv
  BY <1>2 DEF TableInv, EntriesOK, RegionsDisjoint, ChainsGetNewer, EntriesAreFound, KeysAreUnique
<1>5. ValuesAreKept
  BY <1>2 DEF Init, ValuesAreKept, Values
<1>6. IterInv
  BY <1>3 DEF Init, IterInv, IterationIsComplete, Closed
<1> QED
  BY <1>3, <1>4, <1>5, <1>6 DEF KvInv

\* Every command keeps the invariant.
LEMMA StepKv ==
  ASSUME Careful, KvInv, [Next]_vars
  PROVE  KvInv'
<1>1. ASSUME NEW key \in Keys, NEW data \in Data, NEW length \in Lengths,
             Insert(key, data, length) \/ Update(key, data, length) \/ BatchUpdate(key, data, length)
      PROVE  KvInv'
  BY <1>1, InsertKeeps, UpdateKeeps
<1>2. ASSUME NEW key \in Keys, Delete(key)
      PROVE  KvInv'
  BY <1>2, DeleteKeeps
<1>3. ASSUME NEW filter \in Filters, IterOpen(filter)
      PROVE  KvInv'
  BY <1>3, IterOpenKeeps
<1>4. ASSUME NEW i \in Handles, IterRead(i) \/ IterClose(i)
      PROVE  KvInv'
  BY <1>4, IterReadKeeps, IterCloseKeeps
<1>5. CASE UNCHANGED vars
  <2>1. UNCHANGED <<kv_mapping_table, latest, storage, expected>>
        /\ iter_handle' = iter_handle /\ owed' = owed /\ given' = given
    BY <1>5 DEF vars, iterators
  <2>2. TypeOK' /\ TableInv' /\ ValuesAreKept' /\ Present' = Present
    BY <2>1, TableKept DEF KvInv, TypeOK
  <2>3. IterInv'
    BY <2>1, <2>2 DEF KvInv, IterInv, IterationIsComplete, Ahead, Occupied
  <2> QED
    BY <2>2, <2>3 DEF KvInv
<1> QED
  BY <1>1, <1>2, <1>3, <1>4, <1>5 DEF Next

\* The invariant holds in every state.
LEMMA InvariantKv == ASSUME Careful PROVE Spec => []KvInv
<1>1. Init => KvInv
  BY InitKv
<1>2. KvInv /\ [Next]_vars => KvInv'
  BY StepKv
<1> QED
  BY <1>1, <1>2, PTL DEF Spec

\* A key that is in the table from the opening of an iterator on (kv_iter_open) is
\* returned by kv_iter_read, and once: stores and deletions between the reads
\* move no entry, and a key is in one slot.
THEOREM CompleteIterations == ASSUME Careful PROVE Spec => []IterationIsComplete
<1>1. KvInv => IterationIsComplete
  BY DEF KvInv, IterInv
<1> QED
  BY <1>1, InvariantKv, PTL

\* A retrieve (get_mapping_entry, __do_perform_kv_io) returns the value last
\* stored under the key: the chain leads to its entry, and no other value is
\* written to its region.
THEOREM StoredValues == ASSUME Careful PROVE Spec => []RetrievesWhatWasStored
<1>1. ASSUME KvInv, NEW key \in Keys
      PROVE  Retrieved(key) = expected[key]
  <2>1. CASE SlotOf(key) = NIL
    <3>1. key \notin Present
      BY <1>1, <2>1, SlotOfKey DEF KvInv, Present, Entries
    <3> QED
      BY <1>1, <2>1, <3>1 DEF Retrieved, KvInv, ValuesAreKept
  <2>2. CASE SlotOf(key) # NIL
    <3>1. SlotOf(key) \in Slots /\ Occupied(SlotOf(key)) /\ kv_mapping_table[SlotOf(key)].key = key
      BY <1>1, <2>2, SlotOfKey DEF KvInv
    <3>2. Retrieved(key) = ValueAt(SlotOf(key))
      BY <2>2 DEF Retrieved, ValueAt
    <3> QED
      BY <1>1, <3>1, <3>2 DEF KvInv, ValuesAreKept
  <2> QED
    BY <2>1, <2>2
<1>2. KvInv => RetrievesWhatWasStored
  BY <1>1 DEF RetrievesWhatWasStored
<1> QED
  BY <1>2, InvariantKv, PTL

=============================================================================
