------------------------------- MODULE KvFtl -------------------------------
(***************************************************************************)
(* The key-value device (kv_ftl.c, append_only.c): a hash table of mapping *)
(* entries in which colliding keys are chained through next_slot and put   *)
(* in the next free slot, an allocator that only appends, and iterators    *)
(* that walk over the slots from one read to the next while keys come and  *)
(* go.                                                                     *)
(*                                                                         *)
(* One I/O worker performs the commands, one at a time.  All keys have the *)
(* same length.                                                            *)
(***************************************************************************)
EXTENDS Integers, FiniteSets, FiniteSetsExt, Sequences

CONSTANTS
  Keys,
  HashSlots,    \* hash_slots
  Hash,         \* get_hash_slot, of each key
  Data,         \* what a byte of a value can be
  Lengths,      \* lengths of values
  SmallLength,  \* SMALL_LENGTH
  StorageSize,  \* bound: bytes that the allocator gives out
  NrHandles,    \* bound: iterators (16)
  Filters,      \* what an iterator asks for (bitmask and prefix), as sets of keys
  BufKeys,      \* keys in the buffer of an iterator (51)
  Careful,      \* TRUE: the host avoids what CarefulStore and CarefulDelete exclude
  NoKey, NoValue

Slots == 0 .. HashSlots - 1
NIL   == -1

ASSUME KvAssumption == /\ HashSlots \in Nat \ {0} /\ Hash \in [Keys -> Slots]
                       /\ SmallLength \in Nat /\ StorageSize \in Nat /\ NrHandles \in Nat
                       /\ Lengths \subseteq Nat \ {0} /\ Filters \subseteq SUBSET Keys
                       /\ BufKeys \in Nat \ {0} /\ NoKey \notin Keys

VARIABLES
  kv_mapping_table,
  latest,        \* of the allocator: what lies before is given out
  storage,       \* nvmev_vdev->storage_mapped
  iter_handle,   \* current_pos and the filter of an open iterator
  expected,      \* history: the value last stored under a key that was not deleted since
  owed, given    \* history: the keys an iterator has yet to return (they were there when it was
                 \* opened, and still are), and those it returned (and that still are there)

iterators == <<iter_handle, owed, given>>
vars == <<kv_mapping_table, latest, storage, expected, iterators>>

Bytes   == 0 .. StorageSize - 1
Handles == 1 .. NrHandles
Closed  == [open |-> FALSE, pos |-> 0, filter |-> {}]
Free    == [key |-> NoKey, mem_offset |-> NIL, length |-> NIL, next_slot |-> NIL]

Occupied(s) == kv_mapping_table[s].mem_offset # NIL
Entries     == {s \in Slots : Occupied(s)}
Present     == {kv_mapping_table[s].key : s \in Entries}

Init ==
  /\ kv_mapping_table = [s \in Slots |-> Free]
  /\ latest = 0
  /\ storage = [b \in Bytes |-> NoValue]
  /\ expected = [k \in Keys |-> NoValue]
  /\ iter_handle = [i \in Handles |-> Closed]
  /\ owed = [i \in Handles |-> {}] /\ given = [i \in Handles |-> {}]

-----------------------------------------------------------------------------
(* The chains.                                                             *)

\* With an entry, R has the one chained to it.
FollowsChains(R) ==
  \A s \in R : LET n == kv_mapping_table[s].next_slot
               IN  n # NIL => n \in R \/ ~Occupied(n)

\* The occupied slots that a search for key visits: it ends at an entry without
\* a successor, or at a free slot.
Visited(key) ==
  LET entries == Entries
      chains  == {R \in SUBSET entries : Hash[key] \in R /\ FollowsChains(R)}
  IN  {s \in entries : Occupied(Hash[key]) /\ \A R \in chains : s \in R}

\* get_mapping_entry: the slot of key, or NIL.
SlotOf(key) ==
  LET hits == {s \in Visited(key) : kv_mapping_table[s].key = key}
  IN  IF hits = {} THEN NIL ELSE CHOOSE s \in hits : TRUE

\* The last slot of the chain that begins at an occupied slot.
LastSlot(key) ==
  LET visited == Visited(key)
  IN  CHOOSE s \in visited : kv_mapping_table[s].next_slot \notin visited

\* The first free slot from s on, with wrap-around (there must be one).
NextFree(s) ==
  LET steps == {n \in Slots : ~Occupied((s + n) % HashSlots)}
  IN  (s + Min(steps)) % HashSlots

\* Mutation: the entry is not chained to the last one.
NewMappingUnchained(key, offset, length) ==
  LET slot == IF Occupied(Hash[key]) THEN NextFree(LastSlot(key)) ELSE Hash[key]
  IN  [kv_mapping_table EXCEPT ![slot].key = key, ![slot].mem_offset = offset, ![slot].length = length]

\* new_mapping_entry, new_mapping_entry_by_key with find_next_slot; a slot keeps
\* its next_slot, which is that of a free entry.
NewMapping(key, offset, length) ==
  LET collision == Occupied(Hash[key])
      last      == LastSlot(key)
      slot      == IF collision THEN NextFree(last) ELSE Hash[key]
  IN  [s \in Slots |->
         IF s = slot
           THEN [kv_mapping_table[s] EXCEPT !.key = key, !.mem_offset = offset, !.length = length]
         ELSE IF collision /\ s = last
           THEN [kv_mapping_table[s] EXCEPT !.next_slot = slot]
         ELSE kv_mapping_table[s]]

-----------------------------------------------------------------------------
(* Commands.                                                               *)

\* The value of length bytes written at offset.
Written(offset, data, length) ==
  [b \in Bytes |-> IF offset <= b /\ b < offset + length THEN data ELSE storage[b]]

Expect(key, data, length) == expected' = [expected EXCEPT ![key] = [n \in 1 .. length |-> data]]

\* A store or a batched store of a key that is not found.  The allocator gives
\* whatever is asked for, and without a free slot the search would not end.
Insert(key, data, length) ==
  /\ latest + length <= StorageSize
  /\ \E s \in Slots : ~Occupied(s)
  /\ SlotOf(key) = NIL
  /\ latest' = latest + length
  /\ storage' = Written(latest, data, length)
  /\ kv_mapping_table' = NewMapping(key, latest, length)
  /\ Expect(key, data, length)
  /\ UNCHANGED iterators

\* What a careful host does not do: have the value of an entry grow, or change its
\* length in a batch or where it is not small.
CarefulStore(entry, length, batched) ==
  length = entry.length \/ (~batched /\ length < entry.length /\ entry.length <= SmallLength)

\* A store of a key that is found goes where the value was; the new length is
\* kept if both are small.
Update(key, data, length) ==
  LET slot  == SlotOf(key)
      entry == kv_mapping_table[slot]
  IN  /\ slot # NIL
      /\ Careful => CarefulStore(entry, length, FALSE)
      /\ entry.mem_offset + length <= StorageSize
      /\ storage' = Written(entry.mem_offset, data, length)
      /\ kv_mapping_table' = [kv_mapping_table EXCEPT ![slot].length =
           IF length <= SmallLength /\ entry.length <= SmallLength THEN length ELSE @]
      /\ Expect(key, data, length)
      /\ UNCHANGED <<latest, iterators>>

\* A batched store does not keep it.
BatchUpdate(key, data, length) ==
  LET slot  == SlotOf(key)
      entry == kv_mapping_table[slot]
  IN  /\ slot # NIL
      /\ Careful => CarefulStore(entry, length, TRUE)
      /\ entry.mem_offset + length <= StorageSize
      /\ storage' = Written(entry.mem_offset, data, length)
      /\ Expect(key, data, length)
      /\ UNCHANGED <<kv_mapping_table, latest, iterators>>

\* What a careful host deletes: the key that was inserted last.
CarefulDelete(slot) ==
  \A s \in Slots : kv_mapping_table[s].mem_offset <= kv_mapping_table[slot].mem_offset

\* delete_mapping_entry: the entry is cleared, next_slot included.
Delete(key) ==
  LET slot == SlotOf(key)
  IN  /\ slot # NIL
      /\ Careful => CarefulDelete(slot)
      /\ kv_mapping_table' = [kv_mapping_table EXCEPT ![slot] = Free]
      /\ expected' = [expected EXCEPT ![key] = NoValue]
      /\ owed'  = [i \in Handles |-> owed[i] \ {key}]
      /\ given' = [i \in Handles |-> given[i] \ {key}]
      /\ UNCHANGED <<latest, storage, iter_handle>>

-----------------------------------------------------------------------------
(* Iterators.                                                              *)

\* kv_iter_open takes the first handle that is not in use.
IterOpen(filter) ==
  LET unused == {i \in Handles : ~iter_handle[i].open}
      i      == Min(unused)
  IN  /\ unused # {}
      /\ iter_handle' = [iter_handle EXCEPT ![i] = [open |-> TRUE, pos |-> 0, filter |-> filter]]
      /\ owed'  = [owed EXCEPT ![i] = filter \cap Present]
      /\ given' = [given EXCEPT ![i] = {}]
      /\ UNCHANGED <<kv_mapping_table, latest, storage, expected>>

IterClose(i) ==
  /\ iter_handle[i].open
  /\ iter_handle' = [iter_handle EXCEPT ![i] = Closed]
  /\ owed'  = [owed EXCEPT ![i] = {}]
  /\ given' = [given EXCEPT ![i] = {}]
  /\ UNCHANGED <<kv_mapping_table, latest, storage, expected>>

\* The slots from pos on with a key that the filter lets through.
Ahead(pos, filter) ==
  {s \in Slots : s >= pos /\ Occupied(s) /\ kv_mapping_table[s].key \in filter}

\* Those that fit in the buffer.
Fitting(pos, filter) ==
  {s \in Ahead(pos, filter) : Cardinality({t \in Ahead(pos, filter) : t < s}) < BufKeys}

\* Mutation: the key for which there was no room is passed over.
ResumeBehind(pos, filter) ==
  LET rest == Ahead(pos, filter) \ Fitting(pos, filter)
  IN  IF rest = {} THEN HashSlots ELSE Min(rest) + 1

\* kv_iter_read stops at the first key for which the buffer has no room.
Resume(pos, filter) ==
  LET rest == Ahead(pos, filter) \ Fitting(pos, filter)
  IN  IF rest = {} THEN HashSlots ELSE Min(rest)

IterRead(i) ==
  LET h    == iter_handle[i]
      keys == {kv_mapping_table[s].key : s \in Fitting(h.pos, h.filter)}
  IN  /\ h.open
      /\ iter_handle' = [iter_handle EXCEPT ![i].pos = Resume(h.pos, h.filter)]
      /\ owed'  = [owed EXCEPT ![i] = @ \ keys]
      /\ given' = [given EXCEPT ![i] = @ \cup keys]
      /\ UNCHANGED <<kv_mapping_table, latest, storage, expected>>

Next ==
  \/ \E key \in Keys : \E data \in Data, length \in Lengths :
       Insert(key, data, length) \/ Update(key, data, length) \/ BatchUpdate(key, data, length)
  \/ \E key \in Keys : Delete(key)
  \/ \E filter \in Filters : IterOpen(filter)
  \/ \E i \in Handles : IterRead(i) \/ IterClose(i)

Spec == Init /\ [][Next]_vars

-----------------------------------------------------------------------------
(* Properties.                                                             *)

\* Every variable keeps its type.
TypeOK ==
  /\ kv_mapping_table \in [Slots -> [key : Keys \cup {NoKey}, mem_offset : Bytes \cup {NIL},
                                     length : Lengths \cup {NIL}, next_slot : Slots \cup {NIL}]]
  /\ latest \in 0 .. StorageSize
  /\ storage \in [Bytes -> Data \cup {NoValue}]
  /\ iter_handle \in [Handles -> [open : BOOLEAN, pos : 0 .. HashSlots, filter : SUBSET Keys]]
  /\ owed \in [Handles -> SUBSET Keys] /\ given \in [Handles -> SUBSET Keys]

\* Whatever a careful host (CarefulStore, CarefulDelete) stores and deletes
\* between the reads of an iterator, a key that was there all the time is still
\* ahead of it or was returned, and is never returned twice: at the end
\* (current_pos = hash_slots) none is missing.
IterationIsComplete ==
  /\ TypeOK
  /\ \A i \in Handles : iter_handle[i].open =>
       LET ahead == {kv_mapping_table[s].key : s \in Ahead(iter_handle[i].pos, iter_handle[i].filter)}
       IN  owed[i] \subseteq ahead /\ given[i] \cap ahead = {}

\* What a retrieve of key returns.
Retrieved(key) ==
  LET s     == SlotOf(key)
      entry == kv_mapping_table[s]
  IN  IF s = NIL THEN NoValue
      ELSE [n \in 1 .. entry.length |-> storage[entry.mem_offset + n - 1]]

\* kv_ftl.c:497-505: a store writes to the mapped offset or allocates one, and
\* a retrieve reads from the mapped offset, or the key does not exist.  So a key
\* has the value last stored under it, whatever happened to the keys it is
\* chained with meanwhile.
RetrievesWhatWasStored == \A key \in Keys : Retrieved(key) = expected[key]

=============================================================================
