------------------------------ MODULE IoProofs -------------------------------
(***************************************************************************)
(* Proofs about what the dispatcher and the I/O workers share: the work    *)
(* queue a worker is given operations by (IoWorkQueue), the completion     *)
(* queues it fills (CompletionQueue), and the write buffers it releases    *)
(* (WriteBuffers).                                                         *)
(*                                                                         *)
(* The work queue: any number of entries and operations, any queue depth   *)
(* and any times, and every interleaving of the dispatcher and the worker. *)
(*                                                                         *)
(* The inductive invariant is QueueInv.  The dispatcher alone changes the  *)
(* lists (ListsOK, InHandOK); the worker walks over them while they change,*)
(* and may stand on an entry that was reclaimed: what it then meets is     *)
(* completed (WorkerOK), because an entry that is not is on the work list, *)
(* so that its operation is posted once (PostedOK).  How the lists change  *)
(* is said by the lemmas about Reached, of which Splice is the main one.   *)
(*                                                                         *)
(* The write buffers: any number of zones, buffers and queues, and any     *)
(* size of zones, buffers and writes.  The inductive invariant is WbInv:   *)
(* the contents of the buffers agree with the zones (Contents), and the    *)
(* releases with the busy flags.  Contents takes buffers and zones as      *)
(* arguments, so that what a command does to them is one of a few changes  *)
(* that keep it: a zone is settled, cleared, or given an empty buffer.     *)
(***************************************************************************)
EXTENDS IoWorkQueue, CompletionQueue, WriteBuffers, FiniteSetTheorems, WellFoundedInduction, TLAPS

-----------------------------------------------------------------------------
(* The inductive invariant.                                                *)

Work  == Chain(io_seq)
Avail == Chain(free_seq)

\* The four places of an entry exclude each other, and there is no other.  Both lists
\* end, at their tails, and prev mirrors next on the work list.
ListsOK ==
  /\ Work \cap Avail = {} /\ Detached \cap (Work \cup Avail) = {}
  /\ InHand \cap (Work \cup Avail) = {}
  /\ Avail \cup Work \cup Detached \cup InHand = Entries
  /\ free_seq_end \in Avail /\ next[free_seq_end] = NIL
  /\ io_seq # NIL =>
       /\ io_seq_end \in Work /\ next[io_seq_end] = NIL /\ prev[io_seq] = NIL
       /\ \A e \in Work : next[e] # NIL => prev[next[e]] = e

\* What the dispatcher has in hand: an entry that is not linked, or finished entries that were
\* the head of the work list and are about to be cut off, or are cut off.
InHandOK ==
  /\ dispatcher.pc \in {"insert", "insert_internal"} =>
       LET e == dispatcher.first
       IN  e \in Entries /\ next[e] = NIL /\ prev[e] = NIL /\ ~is_completed[e]
  /\ dispatcher.pc \in {"cut", "give_back"} =>
       /\ dispatcher.first \in Entries /\ dispatcher.last \in Chain(dispatcher.first)
       /\ next[dispatcher.last] = IF dispatcher.pc = "cut" THEN io_seq ELSE NIL
       /\ \A e \in Detached : is_completed[e]

\* Where the worker stands on a reclaimed entry, what lies ahead of it is completed.
WorkerOK ==
  /\ worker.pc # "start" =>
       /\ worker.curr \in Entries \ InHand
       /\ worker.curr \in Avail => \A e \in Chain(worker.curr) : is_completed[e]
  /\ worker.pc = "mark" => ~is_completed[worker.curr]

\* Entry e was posted (and, but for a moment, is marked as completed).
WasPosted(e) == is_completed[e] \/ (worker.pc = "mark" /\ worker.curr = e)

\* An operation is in one entry at most, and was posted if and only if the entry was, once.
PostedOK ==
  /\ \A e \in Work \cup InHand : op[e] \in 1 .. issued /\ posted[op[e]] = IF WasPosted(e) THEN 1 ELSE 0
  /\ \A e, f \in Work \cup InHand : op[e] = op[f] => e = f
  /\ \A o \in Ops : o > issued => posted[o] = 0

\* InversionsAreDue, with the entry itself.
Sorted ==
  \A e \in Work : \A f \in Chain(e) : nsecs_target[e] > nsecs_target[f] => nsecs_target[e] <= latest_nsecs

QueueInv ==
  /\ TypeOK /\ ListsOK /\ InHandOK /\ WorkerOK /\ PostedOK
  /\ PostedOnce /\ ReclaimedWerePosted
  /\ Sorted /\ latest_nsecs <= now

-----------------------------------------------------------------------------
(* Numbers and sets.                                                       *)

\* A set of numbers that is not empty has a least one.
LEMMA LeastNumber ==
  ASSUME NEW S \in SUBSET Nat, S # {}
  PROVE  \E i \in S : \A j \in S : i <= j
<1>1. PICK i \in S : \A j \in S : <<j, i>> \notin OpToRel(<, Nat)
  BY NatLessThanWellFounded, WFMin
<1>2. \A j \in S : ~(j < i)
  BY <1>1 DEF OpToRel
<1> QED
  BY <1>2

\* Sets without a common element are counted together.
LEMMA DisjointUnion ==
  ASSUME NEW S, NEW T, IsFiniteSet(S), IsFiniteSet(T), S \cap T = {}
  PROVE  Cardinality(S \cup T) = Cardinality(S) + Cardinality(T)
<1>1. Cardinality(S) \in Nat /\ Cardinality(T) \in Nat /\ Cardinality({}) = 0
  BY FS_CardinalityType, FS_EmptySet
<1>2. Cardinality(S \cup T) = Cardinality(S) + Cardinality(T) - Cardinality(S \cap T)
  BY FS_Union
<1>3. Cardinality(S \cap T) = 0
  BY <1>1
<1> QED
  BY <1>1, <1>2, <1>3

-----------------------------------------------------------------------------
(* What is reached from an entry.                                          *)

Functional == [Entries -> Links]

\* NIL is not an entry.
LEMMA NilIsNone == NIL \notin Entries /\ NIL \in Links /\ Entries \subseteq Links /\ Links \subseteq Int
BY EntriesAssumption DEF NIL, Entries, Links

\* It has the start, follows the step from each of its entries, and is the least such set.
LEMMA ReachedIsLeast ==
  ASSUME NEW step \in Functional, NEW from \in Links
  PROVE  /\ Reached(from, step) \subseteq Entries
         /\ from # NIL => from \in Reached(from, step)
         /\ \A e \in Reached(from, step) : step[e] # NIL => step[e] \in Reached(from, step)
         /\ \A R \in SUBSET Entries :
              /\ from # NIL => from \in R
              /\ \A e \in R : step[e] # NIL => step[e] \in R
              => Reached(from, step) \subseteq R
<1>1. Reached(from, step) \subseteq Entries
  BY DEF Reached
<1>2. from # NIL => from \in Reached(from, step)
  BY DEF Reached, Links
<1>3. ASSUME NEW e \in Reached(from, step), step[e] # NIL
      PROVE  step[e] \in Reached(from, step)
  <2>1. e \in Entries /\ step[e] \in Entries
    BY <1>3 DEF Reached, Functional, Links
  <2>2. ASSUME NEW R \in SUBSET Entries, from \in R \cup {NIL}, \A x \in R : step[x] \in R \cup {NIL}
        PROVE  step[e] \in R
    BY <1>3, <2>2 DEF Reached
  <2> QED
    BY <2>1, <2>2 DEF Reached
<1>4. ASSUME NEW R \in SUBSET Entries, from # NIL => from \in R, \A e \in R : step[e] # NIL => step[e] \in R
      PROVE  Reached(from, step) \subseteq R
  BY <1>4 DEF Reached
<1> QED
  BY <1>1, <1>2, <1>3, <1>4

\* In particular, an entry is reached from itself.
LEMMA ReachedFromItself ==
  ASSUME NEW step \in Functional, NEW from \in Entries PROVE from \in Reached(from, step)
<1>1. from \in Links /\ from # NIL
  BY NilIsNone
<1> QED
  BY <1>1, ReachedIsLeast

\* Nothing is reached from NIL.
LEMMA NothingReached == ASSUME NEW step \in Functional PROVE Reached(NIL, step) = {}
<1> DEFINE R == {}
<1>1. R \in SUBSET Entries /\ \A e \in R : step[e] # NIL => step[e] \in R
  OBVIOUS
<1> HIDE DEF R
<1>2. Reached(NIL, step) \subseteq R
  BY <1>1, NilIsNone, ReachedIsLeast
<1> QED
  BY <1>2 DEF R

\* From an entry that is reached nothing else is reached.
LEMMA ReachedOnwards ==
  ASSUME NEW step \in Functional, NEW from \in Links, NEW e \in Reached(from, step)
  PROVE  Reached(e, step) \subseteq Reached(from, step)
<1>1. e \in Links
  BY ReachedIsLeast, NilIsNone
<1>2. Reached(from, step) \in SUBSET Entries
  BY ReachedIsLeast
<1> QED
  BY <1>1, <1>2, ReachedIsLeast

\* An entry, and what is reached from the next one.
LEMMA ReachedUnfolds ==
  ASSUME NEW step \in Functional, NEW e \in Entries
  PROVE  Reached(e, step) = {e} \cup Reached(step[e], step)
<1>1. e \in Links /\ e # NIL /\ step[e] \in Links
  BY NilIsNone DEF Functional
<1>2. Reached(e, step) \subseteq {e} \cup Reached(step[e], step)
  <2> DEFINE R == {e} \cup Reached(step[e], step)
  <2>1. R \in SUBSET Entries /\ e \in R
    BY <1>1, ReachedIsLeast
  <2>2. ASSUME NEW x \in R, step[x] # NIL PROVE step[x] \in R
    BY <1>1, <2>2, ReachedIsLeast
  <2> HIDE DEF R
  <2>3. Reached(e, step) \subseteq R
    BY <1>1, <2>1, <2>2, ReachedIsLeast
  <2> QED
    BY <2>3 DEF R
<1>3. e \in Reached(e, step)
  BY <1>1, ReachedIsLeast
<1>4. Reached(step[e], step) \subseteq Reached(e, step)
  <2>1. CASE step[e] = NIL
    BY <2>1, NothingReached
  <2>2. CASE step[e] # NIL
    BY <1>1, <1>3, <2>2, ReachedIsLeast, ReachedOnwards
  <2> QED
    BY <2>1, <2>2
<1> QED
  BY <1>2, <1>3, <1>4

\* Steps from other entries do not matter.
LEMMA SameReached ==
  ASSUME NEW step \in Functional, NEW other \in Functional, NEW from \in Links,
         \A e \in Reached(from, step) : other[e] = step[e]
  PROVE  Reached(from, other) = Reached(from, step)
<1>1. Reached(from, other) \subseteq Reached(from, step)
  BY ReachedIsLeast
<1>2. \A e \in Reached(from, other) : step[e] # NIL => step[e] \in Reached(from, other)
  BY <1>1, ReachedIsLeast
<1>3. Reached(from, step) \subseteq Reached(from, other)
  BY <1>2, ReachedIsLeast
<1> QED
  BY <1>1, <1>3

\* Of two entries that are reached, one is reached from the other.
LEMMA ReachedInOrder ==
  ASSUME NEW step \in Functional, NEW from \in Links,
         NEW e \in Reached(from, step), NEW f \in Reached(from, step)
  PROVE  f \in Reached(e, step) \/ e \in Reached(f, step)
<1>1. from # NIL /\ from \in Entries
  BY NothingReached DEF Links
<1> DEFINE R == {x \in Reached(from, step) : f \in Reached(x, step) \/ x \in Reached(f, step)}
<1>2. R \in SUBSET Entries /\ from \in R
  BY <1>1, ReachedIsLeast
<1>3. ASSUME NEW x \in R, step[x] # NIL PROVE step[x] \in R
  <2>1. x \in Entries /\ step[x] \in Reached(from, step) /\ f \in Entries /\ f \in Links
    BY <1>3, ReachedIsLeast, NilIsNone
  <2>2. CASE x \in Reached(f, step)
    BY <1>3, <2>1, <2>2, ReachedIsLeast
  <2>3. CASE f \in Reached(x, step) /\ f # x
    BY <1>3, <2>1, <2>3, ReachedUnfolds
  <2>4. CASE f = x
    <3>1. f \in Reached(f, step)
      BY <2>1, NilIsNone, ReachedIsLeast
    <3> QED
      BY <1>3, <2>1, <2>4, <3>1, ReachedIsLeast
  <2> QED
    BY <1>3, <2>2, <2>3, <2>4
<1> HIDE DEF R
<1>4. Reached(from, step) \subseteq R
  BY <1>2, <1>3, ReachedIsLeast
<1> QED
  BY <1>4 DEF R

\* An entry that is reached has one before it, unless it is the first.
LEMMA OneBefore ==
  ASSUME NEW step \in Functional, NEW from \in Links, NEW e \in Reached(from, step), e # from
  PROVE  \E p \in Reached(from, step) : step[p] = e
<1>1. from \in Reached(from, step) \ {e}
  BY ReachedIsLeast, NothingReached
<1> SUFFICES ASSUME \A p \in Reached(from, step) : step[p] # e PROVE FALSE
  OBVIOUS
<1>2. Reached(from, step) \subseteq Reached(from, step) \ {e}
  BY <1>1, ReachedIsLeast
<1> QED
  BY <1>2

-----------------------------------------------------------------------------
(* Lists, which end at NIL.                                                *)

\* step leads from from to last, where it ends.
EndsAt(from, last, step) == last \in Reached(from, step) /\ step[last] = NIL

\* The end of a list is reached from each entry of it, and no entry from the next one.
LEMMA ListsDoNotReturn ==
  ASSUME NEW step \in Functional, NEW from \in Links, NEW last, EndsAt(from, last, step),
         NEW e \in Reached(from, step)
  PROVE  EndsAt(e, last, step) /\ e \notin Reached(step[e], step)
<1>1. last \in Entries /\ e \in Entries /\ e \in Links /\ last \in Links /\ step[e] \in Links
  BY ReachedIsLeast, NilIsNone DEF EndsAt, Functional
<1>2. Reached(last, step) = {last}
  BY <1>1, ReachedUnfolds, NothingReached DEF EndsAt
<1>3. last \in Reached(e, step)
  <2>1. e \in Reached(e, step)
    BY <1>1, ReachedIsLeast, NilIsNone
  <2> QED
    BY <1>2, <2>1, ReachedInOrder DEF EndsAt
<1>4. ASSUME e \in Reached(step[e], step) PROVE FALSE
  <2> DEFINE R == {x \in Reached(e, step) : e \in Reached(x, step)}
  <2>1. R \in SUBSET Entries /\ e \in R
    BY <1>1, ReachedIsLeast, NilIsNone
  <2>2. step[e] # NIL
    BY <1>4, NothingReached
  <2>3. ASSUME NEW x \in R, step[x] # NIL PROVE step[x] \in R
    <3>1. x \in Entries /\ step[x] \in Reached(e, step)
      BY <1>1, <2>3, ReachedIsLeast
    <3>2. Reached(x, step) = {x} \cup Reached(step[x], step)
      BY <3>1, ReachedUnfolds
    <3> QED
      BY <1>4, <2>3, <3>1, <3>2
  <2> HIDE DEF R
  <2>4. Reached(e, step) \subseteq R
    BY <1>1, <2>1, <2>3, ReachedIsLeast
  <2>5. e \in Reached(last, step)
    BY <1>3, <2>4 DEF R
  <2>6. e = last
    BY <1>2, <2>5
  <2> QED
    BY <1>4, <2>2, <2>6 DEF EndsAt
<1> QED
  BY <1>3, <1>4 DEF EndsAt

\* Two entries of a list that are reached from each other are the same.
LEMMA ReachedOneWay ==
  ASSUME NEW step \in Functional, NEW from \in Links, NEW last, EndsAt(from, last, step),
         NEW e \in Reached(from, step), NEW f \in Reached(e, step), e \in Reached(f, step)
  PROVE  e = f
<1>1. e \in Entries /\ e \in Links /\ f \in Entries /\ step[e] \in Links
  BY ReachedIsLeast, NilIsNone DEF Functional
<1> SUFFICES ASSUME e # f PROVE FALSE
  OBVIOUS
<1>2. f \in Reached(step[e], step)
  BY <1>1, ReachedUnfolds
<1>3. e \in Reached(step[e], step)
  BY <1>1, <1>2, ReachedOnwards
<1> QED
  BY <1>3, ListsDoNotReturn

\* When the step of one entry changes, what is reached is the same where the entry is not, and is otherwise
\* what came up to the entry and what is reached from the new next one.
LEMMA Splice ==
  ASSUME NEW step \in Functional, NEW at \in Entries, NEW to \in Links, at \notin Reached(to, step),
         NEW new \in Functional, new[at] = to, \A e \in Entries \ {at} : new[e] = step[e]
  PROVE  /\ Reached(to, new) = Reached(to, step)
         /\ \A x \in Links : at \notin Reached(x, step) => Reached(x, new) = Reached(x, step)
         /\ \A x \in Links : at \in Reached(x, step) /\ at \notin Reached(step[at], step) =>
              Reached(x, new) = {y \in Reached(x, step) : at \in Reached(y, step)} \cup Reached(to, step)
<1>1. new \in Functional /\ new[at] = to /\ \A e \in Entries \ {at} : new[e] = step[e]
  BY DEF Functional
<1>2. ASSUME NEW x \in Links, at \notin Reached(x, step) PROVE Reached(x, new) = Reached(x, step)
  <2>1. \A e \in Reached(x, step) : new[e] = step[e]
    BY <1>1, <1>2, ReachedIsLeast
  <2> QED
    BY <1>1, <2>1, SameReached
<1>3. ASSUME NEW x \in Links, at \in Reached(x, step), at \notin Reached(step[at], step)
      PROVE  Reached(x, new) = {y \in Reached(x, step) : at \in Reached(y, step)} \cup Reached(to, step)
  <2> DEFINE B == {y \in Reached(x, step) : at \in Reached(y, step)}
  <2>0. x \in Entries /\ x # NIL
    BY <1>3, NothingReached DEF Links
  <2>1. x \in B /\ at \in B /\ B \subseteq Entries
    BY <1>3, <2>0, NilIsNone, ReachedIsLeast
  <2>2. ASSUME NEW y \in B, y # at PROVE step[y] \in B
    <3>1. y \in Entries /\ at \in Reached(step[y], step)
      BY <2>1, <2>2, ReachedUnfolds
    <3>2. step[y] # NIL
      BY <3>1, NothingReached
    <3> QED
      BY <3>1, <3>2, ReachedIsLeast
  <2>3. Reached(x, new) \subseteq B \cup Reached(to, step)
    <3> DEFINE R == B \cup Reached(to, step)
    <3>1. R \in SUBSET Entries /\ x \in R
      BY <2>1, ReachedIsLeast
    <3>2. ASSUME NEW e \in R, new[e] # NIL PROVE new[e] \in R
      <4>1. CASE e = at
        BY <1>1, <3>2, <4>1, ReachedIsLeast
      <4>2. CASE e # at /\ e \in B
        BY <1>1, <2>1, <2>2, <4>2
      <4>3. CASE e # at /\ e \in Reached(to, step)
        BY <1>1, <3>1, <3>2, <4>3, ReachedIsLeast
      <4> QED
        BY <4>1, <4>2, <4>3
    <3> HIDE DEF R
    <3>3. Reached(x, new) \subseteq R
      BY <1>1, <3>1, <3>2, ReachedIsLeast
    <3> QED
      BY <3>3 DEF R
  <2>4. Reached(to, step) \subseteq Reached(x, new) /\ B \subseteq Reached(x, new)
    \* What is reached along step is reached along new, up to at at least.
    <3> DEFINE R == {e \in Reached(x, step) : e \in Reached(x, new) \/ e \in Reached(step[at], step)}
    <3>1. R \in SUBSET Entries /\ x \in R
      BY <1>1, <2>0, ReachedIsLeast
    <3>2. ASSUME NEW e \in R, step[e] # NIL PROVE step[e] \in R
      <4>1. e \in Entries /\ step[e] \in Reached(x, step) /\ step[at] \in Links
        BY <3>2, ReachedIsLeast DEF Functional
      <4>2. CASE e = at
        BY <3>2, <4>1, <4>2, ReachedIsLeast
      <4>3. CASE e # at /\ e \in Reached(x, new)
        BY <1>1, <3>2, <4>1, <4>3, ReachedIsLeast
      <4>4. CASE e \in Reached(step[at], step)
        BY <3>2, <4>1, <4>4, ReachedIsLeast
      <4> QED
        BY <3>2, <4>2, <4>3, <4>4
    <3> HIDE DEF R
    <3>3. Reached(x, step) \subseteq R
      BY <3>1, <3>2, ReachedIsLeast
    <3>4. B \subseteq Reached(x, new)
      <4> SUFFICES ASSUME NEW y \in B, y \notin Reached(x, new) PROVE FALSE
        OBVIOUS
      <4>1. y \in Reached(step[at], step)
        BY <3>3 DEF R
      <4>2. step[at] \in Links
        BY DEF Functional
      <4> QED
        BY <1>3, <4>1, <4>2, ReachedOnwards
    <3>5. Reached(to, step) \subseteq Reached(x, new)
      <4>1. CASE to = NIL
        BY <4>1, NothingReached
      <4>2. CASE to # NIL
        <5>1. to \in Reached(x, new)
          <6>1. at \in Reached(x, new) /\ new[at] # NIL
            BY <1>1, <2>1, <3>4, <4>2
          <6>2. \A e \in Reached(x, new) : new[e] # NIL => new[e] \in Reached(x, new)
            BY <1>1, ReachedIsLeast
          <6> QED
            BY <1>1, <6>1, <6>2
        <5> QED
          <6>1. Reached(to, new) \subseteq Reached(x, new)
            BY <1>1, <5>1, ReachedOnwards
          <6>2. Reached(to, new) = Reached(to, step)
            BY <1>2
          <6> QED
            BY <6>1, <6>2
      <4> QED
        BY <4>1, <4>2
    <3> QED
      BY <3>4, <3>5
  <2> QED
    BY <2>3, <2>4
<1> QED
  BY <1>1, <1>2, <1>3

\* A list is what is up to an entry of it, and what comes after.
LEMMA SplitList ==
  ASSUME NEW step \in Functional, NEW from \in Links, NEW at \in Reached(from, step)
  PROVE  Reached(from, step) = {y \in Reached(from, step) : at \in Reached(y, step)} \cup Reached(step[at], step)
<1>1. at \in Entries /\ at \in Links
  BY ReachedIsLeast, NilIsNone
<1>2. Reached(at, step) = {at} \cup Reached(step[at], step)
  BY <1>1, ReachedUnfolds
<1>3. Reached(step[at], step) \subseteq Reached(from, step)
  BY <1>2, ReachedOnwards
<1>4. \A y \in Reached(from, step) : at \in Reached(y, step) \/ y \in Reached(step[at], step)
  BY <1>1, <1>2, NilIsNone, ReachedIsLeast, ReachedInOrder
<1> QED
  BY <1>3, <1>4

-----------------------------------------------------------------------------
(* The lists.                                                              *)

\* What the lemmas about Reached need of next and of the ends of the lists.
LEMMA ListFacts ==
  ASSUME TypeOK, ListsOK
  PROVE  /\ next \in Functional /\ io_seq \in Links /\ free_seq \in Links /\ free_seq \in Entries
         /\ EndsAt(free_seq, free_seq_end, next)
         /\ io_seq # NIL => EndsAt(io_seq, io_seq_end, next)
         /\ Work \subseteq Entries /\ Avail \subseteq Entries
<1>1. next \in Functional /\ io_seq \in Links /\ free_seq \in Links /\ free_seq \in Entries
  BY NilIsNone DEF TypeOK, Functional
<1>2. Work \subseteq Entries /\ Avail \subseteq Entries
  BY <1>1, ReachedIsLeast DEF Work, Avail, Chain
<1>3. EndsAt(free_seq, free_seq_end, next) /\ (io_seq # NIL => EndsAt(io_seq, io_seq_end, next))
  BY DEF ListsOK, EndsAt, Work, Avail, Chain
<1> QED
  BY <1>1, <1>2, <1>3

\* The work list, when it is not empty.
LEMMA WorkFacts ==
  ASSUME TypeOK, ListsOK, io_seq # NIL
  PROVE  /\ next \in Functional /\ io_seq \in Links /\ io_seq_end \in Links /\ Work \subseteq Entries
         /\ EndsAt(io_seq, io_seq_end, next) /\ io_seq_end \in Work /\ io_seq \in Work
         /\ prev[io_seq] = NIL /\ \A e \in Work : next[e] # NIL => prev[next[e]] = e
         /\ io_seq_end # NIL /\ next[io_seq_end] = NIL
<1>1. next \in Functional /\ io_seq \in Links /\ Work \subseteq Entries /\ EndsAt(io_seq, io_seq_end, next)
  BY ListFacts
<1>2. /\ io_seq_end \in Work /\ next[io_seq_end] = NIL /\ prev[io_seq] = NIL
      /\ \A e \in Work : next[e] # NIL => prev[next[e]] = e
  BY DEF ListsOK
<1>3. io_seq \in Work
  BY <1>1, ReachedIsLeast DEF Work, Chain
<1>4. io_seq_end \in Links /\ io_seq_end # NIL
  BY <1>1, <1>2, NilIsNone
<1> QED
  BY <1>1, <1>2, <1>3, <1>4

\* What a detached entry leads to: another one, or what the last one leads to.
LEMMA DetachedFacts ==
  ASSUME TypeOK, ListsOK, InHandOK, dispatcher.pc \in {"cut", "give_back"}
  PROVE  /\ dispatcher.last \in Detached /\ dispatcher.first \in Detached
         /\ Detached \subseteq Entries
         /\ dispatcher.last \notin Chain(next[dispatcher.last])
         /\ \A e \in Detached : e # dispatcher.last => next[e] \in Detached
         /\ dispatcher.pc = "give_back" => Chain(dispatcher.first) = Detached
<1> DEFINE first == dispatcher.first
           last  == dispatcher.last
<1>1. first \in Entries /\ last \in Chain(first) /\ next \in Functional
      /\ next[last] = IF dispatcher.pc = "cut" THEN io_seq ELSE NIL
  BY ListFacts DEF InHandOK
<1>2. first \in Links /\ Chain(first) \subseteq Entries /\ first \in Chain(first) /\ last \in Links
  <2>1. first \in Links /\ Chain(first) \subseteq Entries /\ first \in Chain(first)
    BY <1>1, NilIsNone, ReachedIsLeast DEF Chain
  <2> QED
    BY <1>1, <2>1, NilIsNone
<1>3. last \in Chain(last)
  <2>1. last \in Entries
    BY <1>1, <1>2
  <2> QED
    BY <1>1, <2>1, ReachedFromItself DEF Chain
<1>4. Detached = {e \in Chain(first) : last \in Chain(e)}
  BY DEF Detached
<1>5. last \in Detached /\ first \in Detached /\ Detached \subseteq Entries
  BY <1>1, <1>2, <1>3, <1>4
<1>6. last \notin Chain(next[last])
  <2>1. CASE dispatcher.pc = "cut"
    BY <1>1, <1>5, <2>1 DEF ListsOK, Work
  <2>2. CASE dispatcher.pc = "give_back"
    <3>1. next[last] = NIL
      BY <1>1, <2>2
    <3> QED
      BY <1>1, <3>1, NothingReached DEF Chain
  <2> QED
    BY <2>1, <2>2
<1>7. ASSUME NEW e \in Detached, e # last PROVE next[e] \in Detached
  <2>1. e \in Entries /\ e \in Chain(first) /\ last \in Chain(e)
    BY <1>4, <1>5, <1>7
  <2>2. last \in Chain(next[e])
    BY <1>1, <1>7, <2>1, ReachedUnfolds DEF Chain
  <2>3. next[e] # NIL
    BY <1>1, <2>2, NothingReached DEF Chain
  <2>4. next[e] \in Chain(first)
    BY <1>1, <1>2, <2>1, <2>3, ReachedIsLeast DEF Chain
  <2> QED
    BY <1>4, <2>2, <2>4
<1>8. ASSUME dispatcher.pc = "give_back" PROVE Chain(first) = Detached
  <2>1. EndsAt(first, last, next)
    BY <1>1, <1>8 DEF EndsAt, Chain
  <2>2. \A e \in Chain(first) : last \in Chain(e)
    BY <1>1, <1>2, <2>1, ListsDoNotReturn DEF Chain, EndsAt
  <2> QED
    BY <1>4, <2>2
<1> QED
  BY <1>5, <1>6, <1>7, <1>8

\* Where the links, the ends and the dispatcher stay, so do the lists.
LEMMA ListsStay ==
  ASSUME ListsOK, UNCHANGED <<links, ends, frees, dispatcher>>
  PROVE  /\ ListsOK' /\ Work' = Work /\ Avail' = Avail /\ InHand' = InHand /\ Detached' = Detached
         /\ \A x : Chain(x)' = Chain(x)
BY DEF ListsOK, Work, Avail, InHand, Detached, Chain, links, ends, frees

\* The head of the free list is taken off it.
LEMMA AllocateLists ==
  ASSUME TypeOK, ListsOK, NEW target, NEW internal \in BOOLEAN, Allocate(target, internal)
  PROVE  /\ ListsOK' /\ Work' = Work /\ Avail' = Avail \ {free_seq} /\ InHand' = {free_seq} /\ InHand = {}
         /\ Detached' = {} /\ Detached = {} /\ free_seq \in Avail /\ free_seq \notin Work
         /\ next[free_seq] \in Entries
         /\ \A x \in Links : free_seq \notin Chain(x) => Chain(x)' = Chain(x)
         /\ \A x \in Avail : x # free_seq => free_seq \notin Chain(x)
<1> DEFINE e == free_seq
<1>1. next \in Functional /\ io_seq \in Links /\ e \in Links /\ e \in Entries /\ e # NIL
      /\ EndsAt(e, free_seq_end, next) /\ Work \subseteq Entries /\ Avail \subseteq Entries
  BY ListFacts, NilIsNone
<1>2. /\ next' = [next EXCEPT ![e] = NIL] /\ prev' = [prev EXCEPT ![e] = NIL]
      /\ free_seq' = next[e] /\ UNCHANGED <<io_seq, io_seq_end, free_seq_end>>
      /\ next[e] # NIL /\ dispatcher.pc = "idle"
      /\ dispatcher'.pc \in {"insert", "insert_internal"} /\ dispatcher'.first = e
  BY DEF Allocate, EntryLeft, CanIssue, ends
<1>3. Detached = {} /\ InHand = {} /\ Detached' = {} /\ InHand' = {e}
  BY <1>2 DEF Detached, InHand
<1>4. e \in Avail /\ e \notin Work
  BY <1>1, ReachedIsLeast DEF Avail, Chain, ListsOK
<1>5. next[e] \in Entries /\ next[e] \in Links
  BY <1>1, <1>2 DEF Functional, Links
<1>6. e \notin Reached(next[e], next)
  BY <1>1, <1>4, ListsDoNotReturn DEF Avail, Chain
<1>7. \A x \in Links : e \notin Chain(x) => Chain(x)' = Chain(x)
  <2>1. e \notin Reached(NIL, next) /\ NIL \in Links
    BY <1>1, NothingReached, NilIsNone
  <2>2. next' = [next EXCEPT ![e] = NIL]
    BY <1>2
  <2>4. next' \in Functional /\ (next')[e] = NIL /\ \A x \in Entries \ {e} : (next')[x] = next[x]
    BY <1>1, <2>1, <2>2 DEF Functional
  <2>3. \A x \in Links : e \notin Reached(x, next) => Reached(x, next') = Reached(x, next)
    BY <1>1, <2>1, <2>4, Splice
  <2> QED
    BY <2>3 DEF Chain
<1>8. Work' = Work
  BY <1>1, <1>2, <1>4, <1>7 DEF Work, Chain
<1>9. Avail' = Avail \ {e}
  <2>1. Avail' = Chain(next[e])
    BY <1>2, <1>5, <1>6, <1>7 DEF Avail, Chain
  <2>2. Avail = {e} \cup Chain(next[e])
    BY <1>1, ReachedUnfolds DEF Avail, Chain
  <2> QED
    BY <1>6, <2>1, <2>2 DEF Chain
<1>10. ASSUME NEW x \in Avail, x # e PROVE e \notin Chain(x)
  BY <1>1, <1>10, ReachedOneWay DEF Avail, Chain
<1>11. ListsOK'
  <2>1. free_seq_end' \in Avail' /\ (next')[free_seq_end'] = NIL
    <3>1. free_seq_end \in Avail /\ next[free_seq_end] = NIL
      BY DEF ListsOK
    <3>2. free_seq_end # e
      BY <1>2, <3>1
    <3> QED
      BY <1>1, <1>2, <1>9, <3>1, <3>2 DEF Functional
  <2>2. ASSUME io_seq' # NIL
        PROVE  /\ io_seq_end' \in Work' /\ (next')[io_seq_end'] = NIL /\ (prev')[io_seq'] = NIL
               /\ \A f \in Work' : (next')[f] # NIL => (prev')[(next')[f]] = f
    <3>1. /\ io_seq_end \in Work /\ next[io_seq_end] = NIL /\ prev[io_seq] = NIL
          /\ \A f \in Work : next[f] # NIL => prev[next[f]] = f
          /\ io_seq \in Work
      BY <1>1, <1>2, <2>2, ReachedIsLeast DEF ListsOK, Work, Chain
    <3>2. \A f \in Work : (next')[f] = next[f] /\ (prev')[f] = prev[f]
      BY <1>1, <1>2, <1>4 DEF Functional, TypeOK
    <3>3. \A f \in Work : next[f] # NIL => next[f] \in Work
      BY <1>1, ReachedIsLeast DEF Work, Chain
    <3> QED
      BY <1>2, <1>8, <3>1, <3>2, <3>3
  <2>3. /\ Work \cap Avail = {} /\ Avail \cup Work \cup {} \cup {} = Entries
    BY <1>3 DEF ListsOK
  <2> QED
    BY <1>3, <1>4, <1>8, <1>9, <2>1, <2>2, <2>3 DEF ListsOK
<1> QED
  BY <1>3, <1>4, <1>5, <1>7, <1>8, <1>9, <1>10, <1>11

\* The place of a new entry on the work list: no entry behind it stops the walk from the tail, it does.
LEMMA PlaceStops ==
  ASSUME TypeOK, ListsOK, io_seq # NIL, NEW target, NEW stops,
         stops = {c \in Entries : nsecs_target[c] <= latest_nsecs \/ nsecs_target[c] <= target}
  PROVE  \/ Place(target) = NIL /\ Work \cap stops = {}
         \/ /\ Place(target) \in Work \cap stops
            /\ Chain(next[Place(target)]) \cap stops = {}
<1> DEFINE back == [c \in Entries |-> IF c \in stops THEN NIL ELSE prev[c]]
           B    == Reached(io_seq_end, back)
<1>1. /\ next \in Functional /\ io_seq \in Links /\ io_seq_end \in Links /\ Work \subseteq Entries
      /\ EndsAt(io_seq, io_seq_end, next) /\ io_seq_end \in Work /\ io_seq \in Work
      /\ prev[io_seq] = NIL /\ \A e \in Work : next[e] # NIL => prev[next[e]] = e
      /\ io_seq_end # NIL /\ next[io_seq_end] = NIL
  BY WorkFacts
<1>2. back \in Functional /\ prev \in Functional
  BY NilIsNone DEF TypeOK, Functional
<1>3. ASSUME NEW c \in Work, prev[c] # NIL
      PROVE  prev[c] \in Work /\ next[prev[c]] = c
  <2>1. PICK p \in Work : next[p] = c
    BY <1>1, <1>3, OneBefore DEF Work, Chain
  <2>2. c # NIL
    BY <1>1, NilIsNone
  <2> QED
    BY <1>1, <2>1, <2>2
\* What is walked over is on the list, and what follows it does not stop the walk.
<1> DEFINE R == {c \in Work : Chain(next[c]) \cap stops = {}}
<1>4. R \in SUBSET Entries /\ io_seq_end \in R
  BY <1>1, NothingReached DEF Chain
<1>5. ASSUME NEW c \in R, back[c] # NIL PROVE back[c] \in R
  <2>1. c \in Work /\ c \in Entries /\ c \notin stops /\ back[c] = prev[c]
    BY <1>1, <1>5
  <2>2. back[c] \in Work /\ next[back[c]] = c
    BY <1>3, <1>5, <2>1
  <2>3. Chain(c) = {c} \cup Chain(next[c])
    BY <1>1, <2>1, ReachedUnfolds DEF Chain
  <2> QED
    BY <2>1, <2>2, <2>3
<1> HIDE DEF R, back
<1>6. B \subseteq R
  BY <1>1, <1>2, <1>4, <1>5, ReachedIsLeast
<1> DEFINE at == stops \cap B
<1>7. Place(target) = IF at = {} THEN NIL ELSE CHOOSE c \in at : TRUE
  BY DEF Place, back
<1>8. CASE at # {}
  <2>1. Place(target) \in at
    BY <1>7, <1>8
  <2> QED
    BY <1>6, <2>1 DEF R
<1>9. CASE at = {}
  <2>1. \A c \in B : prev[c] # NIL => prev[c] \in B
    <3>1. \A c \in B : back[c] = prev[c]
      BY <1>1, <1>6, <1>9 DEF back, R
    <3> QED
      BY <1>1, <1>2, <3>1, ReachedIsLeast
  <2>2. io_seq_end \in B
    BY <1>1, <1>2, ReachedIsLeast
  <2>3. ASSUME NEW x \in Work \ B PROVE FALSE
    <3>1. x \in Entries /\ x \in Links /\ x # NIL
      BY <1>1, NilIsNone
    <3>2. ASSUME NEW c \in Work \ B, next[c] # NIL PROVE next[c] \in Work \ B
      <4>1. next[c] \in Work
        BY <1>1, <3>2, ReachedIsLeast DEF Work, Chain
      <4>2. prev[next[c]] = c
        BY <1>1, <3>2
      <4>3. c # NIL
        BY <1>1, <3>2, NilIsNone
      <4> QED
        BY <2>1, <3>2, <4>1, <4>2, <4>3
    <3> DEFINE rest == Work \ B
    <3>3. rest \in SUBSET Entries /\ x \in rest /\ \A c \in rest : next[c] # NIL => next[c] \in rest
      BY <1>1, <3>2
    <3> HIDE DEF rest
    <3>4. Reached(x, next) \subseteq rest
      BY <1>1, <3>1, <3>3, ReachedIsLeast
    <3>5. io_seq_end \in Reached(x, next)
      <4>1. x \in Reached(io_seq, next)
        BY <2>3 DEF Work, Chain
      <4>2. EndsAt(x, io_seq_end, next)
        BY <1>1, <4>1, ListsDoNotReturn
      <4> QED
        BY <4>2 DEF EndsAt
    <3> QED
      BY <2>2, <3>4, <3>5 DEF rest
  <2> QED
    BY <1>7, <1>9, <2>3
<1> QED
  BY <1>8, <1>9

\* The new entry is linked where it belongs.
LEMMA InsertLists ==
  ASSUME TypeOK, ListsOK, InHandOK, Insert, NEW e, e = dispatcher.first, NEW at, at = Place(nsecs_target[e])
  PROVE  /\ ListsOK' /\ Avail' = Avail /\ Work' = Work \cup {e} /\ InHand = {e} /\ InHand' = {}
         /\ Detached = {} /\ Detached' = {} /\ e \in Entries /\ e \notin Work
         /\ \A x \in Avail : Chain(x)' = Chain(x)
         /\ Chain(e)' = {e} \cup IF io_seq = NIL THEN {} ELSE IF at = NIL THEN Work ELSE Chain(next[at])
         /\ \A x \in Work : Chain(x)' = IF at # NIL /\ at \in Chain(x) THEN Chain(x) \cup {e} ELSE Chain(x)
<1>1. /\ next \in Functional /\ prev \in Functional /\ next' \in Functional
      /\ io_seq \in Links /\ free_seq \in Links /\ Work \subseteq Entries /\ Avail \subseteq Entries
      /\ e \in Entries /\ e \in Links /\ e # NIL /\ next[e] = NIL /\ prev[e] = NIL
      /\ dispatcher.pc \in {"insert", "insert_internal"}
  <2>1. dispatcher.pc \in {"insert", "insert_internal"}
    BY DEF Insert
  <2>2. e \in Entries /\ next[e] = NIL /\ prev[e] = NIL
    BY <2>1 DEF InHandOK
  <2>3. next' \in Functional
    <3>1. next \in Functional /\ io_seq \in Links
      BY ListFacts
    <3>2. CASE next' = next
      BY <3>1, <3>2
    <3>3. CASE next' = [next EXCEPT ![e] = io_seq]
      BY <3>1, <3>3 DEF Functional
    <3>4. ASSUME NEW a, next' = [next EXCEPT ![e] = next[a], ![a] = e], a \in Entries
          PROVE  next' \in Functional
      BY <2>2, <3>1, <3>4, NilIsNone DEF Functional
    <3>5. CASE io_seq # NIL /\ at # NIL
      <4>1. at \in Entries
        BY <3>5, PlaceStops, ListFacts
      <4> QED
        BY <3>2, <3>3, <3>4, <3>5, <4>1 DEF Insert, LinkAfter
    <3> QED
      BY <3>2, <3>3, <3>5 DEF Insert, LinkFirst, links
  <2> QED
    BY <2>1, <2>2, <2>3, ListFacts, NilIsNone DEF TypeOK, Functional
<1>2. /\ InHand = {e} /\ Detached = {} /\ InHand' = {} /\ Detached' = {}
      /\ UNCHANGED <<free_seq, free_seq_end>>
  <2>1. dispatcher'.pc \in {"idle", "reclaim"}
    BY DEF Insert, Afterwards, AtRest
  <2> QED
    BY <1>1, <2>1 DEF InHand, Detached, Insert, frees
<1>3. e \notin Work /\ e \notin Avail
  BY <1>2 DEF ListsOK
<1>4. /\ Chain(e) = {e} /\ e \notin Chain(next[e])
      /\ \A x \in Work : x \in Links /\ Chain(x) \subseteq Work
      /\ \A x \in Avail : x \in Links /\ Chain(x) \subseteq Avail
      /\ \A x \in Work : next[x] # NIL => next[x] \in Work
      /\ io_seq # NIL => EndsAt(io_seq, io_seq_end, next) /\ io_seq \in Work
  <2>1. Chain(e) = {e} /\ e \notin Chain(next[e])
    BY <1>1, ReachedUnfolds, NothingReached DEF Chain
  <2> QED
    BY <1>1, <2>1, ListFacts, ReachedOnwards, ReachedIsLeast, NilIsNone DEF Chain, Work, Avail
\* The work list is empty.
<1>5. CASE io_seq = NIL
  <2>1. io_seq' = e /\ io_seq_end' = e /\ next' = next /\ prev' = prev
    BY <1>5 DEF Insert, links
  <2>2. Work = {}
    BY <1>1, <1>5, NothingReached DEF Work, Chain
  <2>3. \A x : Chain(x)' = Chain(x)
    BY <2>1 DEF Chain
  <2>4. Work' = {e} /\ Avail' = Avail
    BY <1>2, <1>4, <2>1 DEF Work, Avail, Chain
  <2>5. ListsOK'
    BY <1>1, <1>2, <1>3, <2>1, <2>2, <2>4 DEF ListsOK
  <2> QED
    BY <1>1, <1>2, <1>3, <1>4, <1>5, <2>2, <2>3, <2>4, <2>5
\* Before the head.
<1>6. CASE io_seq # NIL /\ at = NIL
  <2>1. /\ prev' = [prev EXCEPT ![io_seq] = e] /\ next' = [next EXCEPT ![e] = io_seq]
        /\ io_seq' = e /\ io_seq_end' = io_seq_end
    BY <1>6 DEF Insert, LinkFirst
  <2>2. io_seq \in Entries /\ (next')[e] = io_seq /\ \A x \in Entries \ {e} : (next')[x] = next[x]
    BY <1>1, <1>6, <2>1 DEF Functional, Links
  <2>3. \A x \in Links : e \notin Chain(x) => Chain(x)' = Chain(x)
    BY <1>1, <1>3, <2>2, Splice DEF Chain, Work
  <2>4. Chain(e)' = {e} \cup Work
    <3>1. e \in Reached(e, next) /\ e \notin Reached(next[e], next) /\ e \notin Reached(io_seq, next)
      BY <1>1, <1>3, <1>4 DEF Chain, Work
    <3>2. Reached(e, next') = {y \in Reached(e, next) : e \in Reached(y, next)} \cup Reached(io_seq, next)
      BY <1>1, <2>2, <3>1, Splice
    <3> QED
      BY <1>4, <3>1, <3>2 DEF Chain, Work
  <2>5. Work' = Work \cup {e} /\ Avail' = Avail
    <3>1. Work' = Chain(e)' /\ Avail' = Chain(free_seq)'
      BY <1>2, <2>1 DEF Work, Avail, Chain
    <3>2. e \notin Chain(free_seq)
      BY <1>3 DEF Avail
    <3> QED
      BY <1>1, <1>2, <2>3, <2>4, <3>1, <3>2 DEF Avail, Chain
  <2>6. /\ \A x \in Avail : Chain(x)' = Chain(x)
        /\ \A x \in Work : Chain(x)' = Chain(x)
    BY <1>3, <1>4, <2>3
  <2>7. ListsOK'
    <3>1. free_seq_end \in Avail /\ next[free_seq_end] = NIL /\ io_seq_end \in Work /\ next[io_seq_end] = NIL
          /\ prev[io_seq] = NIL /\ \A f \in Work : next[f] # NIL => prev[next[f]] = f
      BY <1>6 DEF ListsOK
    <3>2. (next')[free_seq_end] = NIL /\ (next')[io_seq_end] = NIL
      BY <1>1, <1>3, <2>2, <3>1
    <3>3. (prev')[e] = NIL /\ (prev')[io_seq] = e /\ \A f \in Entries \ {io_seq} : (prev')[f] = prev[f]
      BY <1>1, <1>3, <1>4, <1>6, <2>1, <2>2 DEF Functional
    <3>4. \A f \in Work : next[f] # io_seq
      <4>1. \A f \in Work : next[f] = io_seq => f = NIL
        BY <1>6, <3>1
      <4> QED
        BY <1>1, <4>1, NilIsNone
    <3>5. ASSUME NEW f \in Work \cup {e}, (next')[f] # NIL PROVE (prev')[(next')[f]] = f
      <4>1. CASE f = e
        BY <2>2, <3>3, <4>1
      <4>2. CASE f # e
        <5>1. f \in Work /\ (next')[f] = next[f] /\ next[f] # io_seq /\ next[f] \in Work
          BY <1>1, <1>4, <2>2, <3>4, <3>5, <4>2
        <5> QED
          BY <1>1, <3>1, <3>3, <3>5, <5>1
      <4> QED
        BY <4>1, <4>2
    <3>6. /\ Work \cap Avail = {} /\ Avail \cup Work \cup {} \cup {e} = Entries
      BY <1>2 DEF ListsOK
    <3> QED
      BY <1>2, <1>3, <2>1, <2>5, <3>1, <3>2, <3>3, <3>5, <3>6 DEF ListsOK
  <2> QED
    BY <1>1, <1>2, <1>3, <1>6, <2>4, <2>5, <2>6, <2>7
\* Behind at.
<1>7. CASE io_seq # NIL /\ at # NIL
  <2>1. /\ next' = [next EXCEPT ![e] = next[at], ![at] = e]
        /\ prev' = [x \in Entries |-> IF x = e THEN at ELSE IF x = next[at] THEN e ELSE prev[x]]
        /\ io_seq_end' = (IF next[at] = NIL THEN e ELSE io_seq_end) /\ io_seq' = io_seq
    BY <1>7 DEF Insert, LinkAfter
  <2>2. at \in Work /\ at \in Entries /\ at \in Links /\ at # e /\ next[at] \in Links
    <3>1. at \in Work
      BY <1>7, PlaceStops
    <3> QED
      BY <1>1, <1>3, <1>4, <3>1 DEF Functional
  <2>3. at \notin Chain(next[at]) /\ Chain(next[at]) \subseteq Work /\ at \in Chain(at)
    <3>1. Chain(at) = {at} \cup Chain(next[at])
      BY <1>1, <2>2, ReachedUnfolds DEF Chain
    <3>2. at \notin Chain(next[at])
      BY <1>1, <1>4, <1>7, <2>2, ListsDoNotReturn DEF Chain, Work
    <3> QED
      BY <1>4, <2>2, <3>1, <3>2
  \* First e is linked to what follows at.
  <2> DEFINE mid == [next EXCEPT ![e] = next[at]]
  <2>4. mid \in Functional /\ mid[e] = next[at] /\ \A x \in Entries \ {e} : mid[x] = next[x]
    BY <1>1, <2>2 DEF Functional
  <2>5. \A x \in Entries \ {at} : (next')[x] = mid[x]
    BY <1>1, <2>1, <2>2 DEF Functional
  <2>6. (next')[at] = e /\ mid[at] = next[at] /\ (next')[e] = next[at] /\ \A x \in Entries \ {at, e} : (next')[x] = next[x]
    BY <1>1, <2>1, <2>2 DEF Functional
  <2> HIDE DEF mid
  <2>7. \A x \in Links : e \notin Chain(x) => Reached(x, mid) = Chain(x)
    <3>1. e \notin Reached(next[at], next)
      BY <1>3, <2>3 DEF Chain
    <3> QED
      BY <1>1, <2>2, <2>4, <3>1, Splice DEF Chain
  <2>8. Reached(e, mid) = {e} \cup Chain(next[at])
    <3>1. e \in Reached(e, next) /\ e \notin Reached(next[e], next) /\ e \notin Reached(next[at], next)
      BY <1>3, <1>4, <2>3 DEF Chain
    <3>2. Reached(e, mid) = {y \in Reached(e, next) : e \in Reached(y, next)} \cup Reached(next[at], next)
      BY <1>1, <2>2, <2>4, <3>1, Splice
    <3> QED
      BY <1>4, <3>1, <3>2 DEF Chain
  \* Then at is linked to e.
  <2>9. at \notin Reached(e, mid) /\ at \notin Reached(mid[at], mid)
    <3>1. e \notin Chain(next[at])
      BY <1>3, <2>3
    <3> QED
      BY <2>2, <2>3, <2>6, <2>7, <2>8, <3>1
  <2>10. Chain(e)' = {e} \cup Chain(next[at])
    BY <1>1, <2>2, <2>4, <2>5, <2>6, <2>8, <2>9, Splice DEF Chain
  <2>11. ASSUME NEW x \in Links, e \notin Chain(x), at \notin Chain(x) PROVE Chain(x)' = Chain(x)
    <3>1. Reached(x, mid) = Chain(x)
      BY <2>7, <2>11
    <3> QED
      BY <1>1, <2>2, <2>4, <2>5, <2>6, <2>9, <2>11, <3>1, Splice DEF Chain
  <2>12. ASSUME NEW x \in Work, at \in Chain(x) PROVE Chain(x)' = Chain(x) \cup {e}
    <3>1. e \notin Chain(x) /\ x \in Links /\ Chain(x) \subseteq Work
      BY <1>3, <1>4
    <3>2. Reached(x, mid) = Chain(x)
      BY <2>7, <3>1
    <3>3. \A y \in Chain(x) : Reached(y, mid) = Chain(y)
      BY <1>3, <1>4, <2>7, <3>1
    <3>4. Reached(x, next') = {y \in Reached(x, mid) : at \in Reached(y, mid)} \cup Reached(e, mid)
      BY <1>1, <2>2, <2>4, <2>5, <2>6, <2>9, <2>12, <3>1, <3>2, Splice
    <3>5. Reached(x, next') = {y \in Chain(x) : at \in Chain(y)} \cup Chain(next[at]) \cup {e}
      BY <2>8, <3>2, <3>3, <3>4
    <3>6. Chain(x) = {y \in Chain(x) : at \in Chain(y)} \cup Chain(next[at])
      BY <1>1, <2>12, <3>1, SplitList DEF Chain
    <3> QED
      BY <3>5, <3>6 DEF Chain
  <2>13. Work' = Work \cup {e} /\ Avail' = Avail
    <3>1. Work' = Chain(io_seq)' /\ Avail' = Chain(free_seq)' /\ Work = Chain(io_seq) /\ Avail = Chain(free_seq)
      BY <1>2, <2>1 DEF Work, Avail, Chain
    <3>2. at \notin Avail
      BY <2>2 DEF ListsOK
    <3>3. Chain(free_seq)' = Reached(free_seq, next') /\ Chain(io_seq)' = Reached(io_seq, next')
      BY <1>2, <2>1 DEF Chain
    <3>4. Reached(free_seq, next') = Avail
      BY <1>1, <1>3, <2>11, <3>1, <3>2 DEF Chain
    <3>5. Reached(io_seq, next') = Work \cup {e}
      BY <1>4, <1>7, <2>2, <2>12, <3>1 DEF Chain
    <3> QED
      BY <3>1, <3>3, <3>4, <3>5
  <2>14. \A x \in Avail : Chain(x)' = Chain(x)
    <3>1. at \notin Avail
      BY <2>2 DEF ListsOK
    <3> QED
      BY <1>3, <1>4, <2>11, <3>1
  <2>15. \A x \in Work : Chain(x)' = IF at \in Chain(x) THEN Chain(x) \cup {e} ELSE Chain(x)
    BY <1>3, <1>4, <2>11, <2>12
  <2>16. ListsOK'
    <3>1. free_seq_end \in Avail /\ next[free_seq_end] = NIL /\ io_seq_end \in Work /\ next[io_seq_end] = NIL
          /\ prev[io_seq] = NIL /\ \A f \in Work : next[f] # NIL => prev[next[f]] = f
      BY <1>7 DEF ListsOK
    <3>2. (next')[free_seq_end] = NIL
      BY <1>1, <1>3, <2>2, <2>6, <3>1 DEF ListsOK
    <3>3. io_seq_end' \in Work \cup {e} /\ (next')[io_seq_end'] = NIL
      <4>1. CASE next[at] = NIL
        BY <2>1, <2>6, <4>1
      <4>2. CASE next[at] # NIL
        <5>1. io_seq_end' = io_seq_end /\ io_seq_end # at /\ io_seq_end # e /\ io_seq_end \in Entries
          BY <1>1, <1>3, <2>1, <3>1, <4>2
        <5> QED
          BY <2>6, <3>1, <5>1
      <4> QED
        BY <4>1, <4>2
    <3>4. (prev')[e] = at /\ \A f \in Entries \ {e} : (prev')[f] = IF f = next[at] THEN e ELSE prev[f]
      BY <1>1, <2>1
    <3>5. (prev')[io_seq] = NIL
      <4>1. io_seq # next[at]
        <5>1. io_seq = next[at] => at = NIL
          BY <1>7, <2>2, <3>1
        <5> QED
          BY <1>7, <5>1
      <4> QED
        BY <1>1, <1>3, <1>4, <1>7, <3>1, <3>4, <4>1
    <3>6. ASSUME NEW f \in Work \cup {e}, (next')[f] # NIL PROVE (prev')[(next')[f]] = f
      <4>1. CASE f = e
        <5>1. next[at] \in Work
          BY <1>4, <2>2, <2>6, <3>6, <4>1
        <5> QED
          BY <1>1, <1>3, <2>6, <3>4, <4>1, <5>1
      <4>2. CASE f = at
        BY <2>6, <3>4, <4>2
      <4>3. CASE f # e /\ f # at
        <5>1. f \in Work /\ (next')[f] = next[f] /\ next[f] \in Work /\ prev[next[f]] = f
          BY <1>1, <1>4, <2>6, <3>1, <3>6, <4>3
        <5>2. next[f] # next[at]
          BY <2>2, <3>1, <4>3, <5>1, <3>6
        <5> QED
          BY <1>1, <1>3, <3>4, <5>1, <5>2
      <4> QED
        BY <4>1, <4>2, <4>3
    <3>7. /\ Work \cap Avail = {} /\ Avail \cup Work \cup {} \cup {e} = Entries
      BY <1>2 DEF ListsOK
    <3> QED
      BY <1>2, <1>3, <2>1, <2>13, <3>1, <3>2, <3>3, <3>5, <3>6, <3>7 DEF ListsOK
  <2> QED
    BY <1>1, <1>2, <1>3, <1>7, <2>10, <2>13, <2>14, <2>15, <2>16
<1> QED
  BY <1>5, <1>6, <1>7

\* The finished entries at the head of the work list, up to the last of them.
LEMMA LastFinishedFacts ==
  ASSUME TypeOK, ListsOK, io_seq # NIL, Finished(io_seq), NEW last, last = LastFinished
  PROVE  last \in Work /\ \A e \in Work : last \in Chain(e) => Finished(e)
<1> DEFINE onward == [c \in Entries |-> IF next[c] # NIL /\ Finished(next[c]) THEN next[c] ELSE NIL]
           B      == Reached(io_seq, onward)
<1>1. /\ next \in Functional /\ io_seq \in Links /\ io_seq_end \in Links /\ Work \subseteq Entries
      /\ EndsAt(io_seq, io_seq_end, next) /\ io_seq_end \in Work /\ io_seq \in Work
      /\ io_seq_end # NIL /\ next[io_seq_end] = NIL
  BY WorkFacts
<1>2. onward \in Functional
  BY <1>1, NilIsNone DEF Functional
<1>3. \A c \in Entries : onward[c] # NIL => onward[c] = next[c] /\ Finished(next[c])
  OBVIOUS
<1>4. last = CHOOSE c \in B : onward[c] = NIL
  BY DEF LastFinished
<1> HIDE DEF onward
<1>5. B \subseteq Work /\ \A c \in B : Finished(c)
  <2> DEFINE R == {c \in Work : Finished(c)}
  <2>1. R \in SUBSET Entries /\ io_seq \in R
    BY <1>1
  <2>2. ASSUME NEW c \in R, onward[c] # NIL PROVE onward[c] \in R
    <3>1. c \in Work /\ onward[c] = next[c] /\ Finished(next[c])
      BY <1>1, <1>3, <2>2
    <3>2. next[c] \in Work
      BY <1>1, <2>2, <3>1, ReachedIsLeast DEF Work, Chain
    <3> QED
      BY <3>1, <3>2
  <2> HIDE DEF R
  <2>3. B \subseteq R
    BY <1>1, <1>2, <2>1, <2>2, ReachedIsLeast
  <2> QED
    BY <2>3 DEF R
<1>6. io_seq \in B /\ \A c \in B : onward[c] # NIL => onward[c] \in B
  BY <1>1, <1>2, ReachedIsLeast
<1>7. last \in B /\ onward[last] = NIL
  <2>1. \E c \in B : onward[c] = NIL
    <3> SUFFICES ASSUME \A c \in B : onward[c] # NIL PROVE FALSE
      OBVIOUS
    <3>1. \A c \in B : next[c] \in B /\ c \in Entries
      BY <1>1, <1>3, <1>5, <1>6
    <3>2. Work \subseteq B
      BY <1>1, <1>6, <3>1, ReachedIsLeast DEF Work, Chain
    <3>3. NIL \in B
      BY <1>1, <3>1, <3>2
    <3> QED
      BY <1>1, <1>5, <3>3, NilIsNone
  <2> QED
    BY <1>4, <2>1
\* The walk ends where last is.
<1>8. ASSUME NEW x \in B, x # last PROVE onward[x] = next[x] /\ onward[x] \in B
  <2>1. onward[x] # NIL
    <3> SUFFICES ASSUME onward[x] = NIL PROVE FALSE
      OBVIOUS
    <3>1. Reached(x, onward) = {x} /\ Reached(last, onward) = {last}
      BY <1>1, <1>2, <1>5, <1>7, ReachedUnfolds, NothingReached
    <3> QED
      BY <1>1, <1>2, <1>7, <1>8, <3>1, ReachedInOrder
  <2> QED
    BY <1>1, <1>3, <1>5, <1>6, <2>1
<1>9. last \in Work /\ last \in Entries /\ last \notin Chain(next[last]) /\ next[last] \in Links
      /\ Chain(last) = {last} \cup Chain(next[last])
  <2>1. last \in Work /\ last \in Entries
    BY <1>1, <1>5, <1>7
  <2>2. last \notin Chain(next[last])
    BY <1>1, <2>1, ListsDoNotReturn DEF Work, Chain
  <2> QED
    BY <1>1, <2>1, <2>2, ReachedUnfolds DEF Chain, Functional
<1> DEFINE R == {x \in Work : (x \in B /\ last \in Chain(x)) \/ x \in Chain(next[last])}
<1>10. R \in SUBSET Entries /\ io_seq \in R
  BY <1>1, <1>6, <1>9 DEF Work
<1>11. ASSUME NEW x \in R, next[x] # NIL PROVE next[x] \in R
  <2>1. x \in Entries /\ next[x] \in Work
    BY <1>1, <1>11, ReachedIsLeast DEF Work, Chain
  <2>2. CASE x = last
    <3>1. next[last] \in Chain(next[last])
      BY <1>1, <1>9, <1>11, <2>2, ReachedIsLeast DEF Chain
    <3> QED
      BY <2>1, <2>2, <3>1
  <2>3. CASE x # last /\ x \in B /\ last \in Chain(x)
    <3>1. Chain(x) = {x} \cup Chain(next[x])
      BY <1>1, <2>1, ReachedUnfolds DEF Chain
    <3> QED
      BY <1>8, <2>1, <2>3, <3>1
  <2>4. CASE x \in Chain(next[last])
    <3>1. next[x] \in Chain(next[last])
      BY <1>1, <1>9, <1>11, <2>4, ReachedIsLeast DEF Chain
    <3> QED
      BY <2>1, <3>1
  <2> QED
    BY <1>11, <2>2, <2>3, <2>4
<1> HIDE DEF R
<1>12. Work \subseteq R
  BY <1>1, <1>10, <1>11, ReachedIsLeast DEF Work, Chain
<1>13. ASSUME NEW e \in Work, last \in Chain(e) PROVE Finished(e)
  <2>1. e \notin Chain(next[last])
    <3> SUFFICES ASSUME e \in Chain(next[last]) PROVE FALSE
      OBVIOUS
    <3>1. Chain(e) \subseteq Chain(next[last])
      BY <1>1, <1>9, ReachedOnwards DEF Chain
    <3> QED
      BY <1>9, <1>13, <3>1
  <2> QED
    BY <1>5, <1>12, <2>1 DEF R
<1> QED
  BY <1>9, <1>13

\* The finished entries leave the work list.
LEMMA DetachLists ==
  ASSUME TypeOK, ListsOK, Detach
  PROVE  /\ ListsOK' /\ Avail' = Avail /\ InHand = {} /\ InHand' = {} /\ Detached = {}
         /\ Detached' \cup Work' = Work /\ \A e \in Detached' : Finished(e)
         /\ \A x : Chain(x)' = Chain(x)
         /\ dispatcher'.pc = "cut" /\ dispatcher'.first \in Entries /\ dispatcher'.last \in Chain(dispatcher'.first)
         /\ dispatcher'.last \in Entries /\ (next')[dispatcher'.last] = io_seq' /\ io_seq' \in Links /\ dispatcher'.first \in Links
<1> DEFINE last == LastFinished
<1>1. /\ dispatcher.pc = "reclaim" /\ io_seq # NIL /\ Finished(io_seq)
      /\ io_seq' = next[last] /\ next' = next
      /\ prev' = [e \in Entries |-> IF e = next[last] THEN NIL ELSE prev[e]]
      /\ dispatcher' = [pc |-> "cut", first |-> io_seq, last |-> last]
      /\ UNCHANGED <<io_seq_end, free_seq, free_seq_end>>
  BY DEF Detach, frees
<1>2. last \in Work /\ \A e \in Work : last \in Chain(e) => Finished(e)
  BY <1>1, LastFinishedFacts
<1> HIDE DEF last
<1>3. /\ next \in Functional /\ io_seq \in Links /\ Work \subseteq Entries /\ io_seq \in Work
      /\ EndsAt(io_seq, io_seq_end, next) /\ last \in Entries /\ next[last] \in Links
  BY <1>1, <1>2, ListFacts, ReachedIsLeast DEF Work, Chain, Functional
<1>4. Detached = {} /\ InHand = {} /\ InHand' = {}
  BY <1>1 DEF Detached, InHand
<1>5. \A x : Chain(x)' = Chain(x)
  BY <1>1 DEF Chain
<1>6. Work' = Chain(next[last]) /\ Avail' = Avail
  BY <1>1 DEF Work, Avail, Chain
<1>7. Detached' = {e \in Work : last \in Chain(e)}
  BY <1>1 DEF Detached, Work, Chain
<1>8. Work = {e \in Work : last \in Chain(e)} \cup Chain(next[last])
  BY <1>2, <1>3, SplitList DEF Work, Chain
<1>9. last \notin Chain(next[last])
  BY <1>2, <1>3, ListsDoNotReturn DEF Work, Chain
<1>10. Detached' \cap Work' = {}
  <2> SUFFICES ASSUME NEW e \in Chain(next[last]), last \in Chain(e) PROVE FALSE
    BY <1>6, <1>7
  <2>1. Chain(e) \subseteq Chain(next[last])
    BY <1>3, ReachedOnwards DEF Chain
  <2> QED
    BY <1>9, <2>1
<1>11. ListsOK'
  <2>1. /\ Work \cap Avail = {} /\ Avail \cup Work = Entries
        /\ free_seq_end \in Avail /\ next[free_seq_end] = NIL
        /\ io_seq_end \in Work /\ next[io_seq_end] = NIL /\ prev[io_seq] = NIL
        /\ \A e \in Work : next[e] # NIL => prev[next[e]] = e
    BY <1>1, <1>4 DEF ListsOK
  <2>2. ASSUME io_seq' # NIL
        PROVE  /\ io_seq_end' \in Work' /\ (next')[io_seq_end'] = NIL /\ (prev')[io_seq'] = NIL
               /\ \A e \in Work' : (next')[e] # NIL => (prev')[(next')[e]] = e
    <3>1. next[last] \in Work /\ next[last] # NIL
      BY <1>1, <1>2, <1>3, <2>2, ReachedIsLeast DEF Work, Chain
    <3>2. io_seq_end \in Chain(next[last])
      <4>1. EndsAt(next[last], io_seq_end, next)
        BY <1>3, <3>1, ListsDoNotReturn DEF Work, Chain
      <4> QED
        BY <4>1 DEF EndsAt, Chain
    <3>3. ASSUME NEW e \in Work', next[e] # NIL PROVE (prev')[next[e]] = e
      <4>1. e \in Work /\ next[e] \in Work
        BY <1>3, <1>6, <1>8, <3>3, ReachedIsLeast DEF Work, Chain
      <4>2. next[e] # next[last]
        <5>1. next[e] = next[last] => e = last
          BY <1>2, <2>1, <3>1, <4>1
        <5> QED
          BY <1>6, <1>9, <5>1
      <4> QED
        BY <1>1, <1>3, <2>1, <3>3, <4>1, <4>2
    <3> QED
      BY <1>1, <1>3, <1>6, <2>1, <3>1, <3>2, <3>3
  <2>3. Detached' \cup Work' = Work
    BY <1>6, <1>7, <1>8
  <2> QED
    BY <1>1, <1>4, <1>6, <1>10, <2>1, <2>2, <2>3 DEF ListsOK
<1>12. dispatcher'.last \in Chain(dispatcher'.first) /\ dispatcher'.first = io_seq /\ dispatcher'.last = last
  BY <1>1, <1>2 DEF Work
<1> QED
  BY <1>1, <1>2, <1>3, <1>4, <1>5, <1>6, <1>7, <1>8, <1>11, <1>12

\* They are cut off it.
LEMMA CutLists ==
  ASSUME TypeOK, ListsOK, InHandOK, Cut
  PROVE  /\ ListsOK' /\ Avail' = Avail /\ Work' = Work /\ InHand = {} /\ InHand' = {} /\ Detached' = Detached
         /\ \A x \in Work \cup Avail : Chain(x)' = Chain(x)
         /\ dispatcher'.last \in Reached(dispatcher'.first, next') /\ (next')[dispatcher'.last] = NIL
<1> DEFINE first == dispatcher.first
           last  == dispatcher.last
<1>1. /\ dispatcher.pc = "cut" /\ next' = [next EXCEPT ![last] = NIL]
      /\ dispatcher' = [dispatcher EXCEPT !.pc = "give_back"]
      /\ UNCHANGED <<prev, io_seq, io_seq_end, free_seq, free_seq_end>>
  BY DEF Cut, ends, frees
<1>2. dispatcher'.pc = "give_back" /\ dispatcher'.first = first /\ dispatcher'.last = last
  BY <1>1 DEF TypeOK
<1>3. /\ last \in Detached /\ first \in Detached /\ Detached \subseteq Entries
      /\ last \notin Chain(next[last])
  BY <1>1, DetachedFacts
<1>4. /\ next \in Functional /\ io_seq \in Links /\ free_seq \in Links
      /\ Work \subseteq Entries /\ Avail \subseteq Entries /\ first \in Links /\ last \in Entries
  BY <1>3, ListFacts, NilIsNone
<1>5. next' \in Functional /\ (next')[last] = NIL /\ \A x \in Entries \ {last} : (next')[x] = next[x]
  BY <1>1, <1>4, NilIsNone DEF Functional
<1>6. InHand = {} /\ InHand' = {}
  BY <1>1, <1>2 DEF InHand
<1>7. last \notin Work /\ last \notin Avail
  BY <1>3 DEF ListsOK
<1>8. last \notin Reached(NIL, next) /\ NIL \in Links /\ Reached(NIL, next) = {}
  BY <1>4, NothingReached, NilIsNone
<1>9. \A x \in Links : last \notin Chain(x) => Chain(x)' = Chain(x)
  BY <1>4, <1>5, <1>8, Splice DEF Chain
<1>10. \A x \in Links : last \in Chain(x) => Chain(x)' = {y \in Chain(x) : last \in Chain(y)}
  BY <1>3, <1>4, <1>5, <1>8, Splice DEF Chain
<1>11. \A x \in Work \cup Avail : x \in Links /\ last \notin Chain(x)
  BY <1>4, <1>7, ReachedOnwards, NilIsNone DEF Work, Avail, Chain
<1>12. Work' = Work /\ Avail' = Avail
  <2>1. Work' = Reached(io_seq, next') /\ Avail' = Reached(free_seq, next')
    BY <1>1 DEF Work, Avail, Chain
  <2> QED
    BY <1>4, <1>7, <1>9, <2>1 DEF Work, Avail, Chain
<1>13. Detached = {e \in Chain(first) : last \in Chain(e)} /\ last \in Chain(first)
  BY <1>1 DEF Detached, InHandOK
<1>14. Reached(first, next') = Detached
  BY <1>4, <1>10, <1>13 DEF Chain
<1>15. \A e \in Detached : last \in Reached(e, next')
  <2>1. \A e \in Detached : e \in Links /\ last \in Chain(e)
    BY <1>3, <1>13, NilIsNone
  <2>2. last \in Chain(last)
    BY <1>3, <2>1
  <2> QED
    BY <1>10, <2>1, <2>2 DEF Chain
<1>16. Detached' = Detached
  <2>1. Detached' = {e \in Reached(first, next') : last \in Reached(e, next')}
    BY <1>2 DEF Detached, Chain
  <2> QED
    BY <1>14, <1>15, <2>1 DEF Chain
<1>17. ListsOK'
  <2>1. \A e \in Work \cup Avail : (next')[e] = next[e]
    BY <1>4, <1>5, <1>7
  <2>2. /\ Work \cap Avail = {} /\ Detached \cap (Work \cup Avail) = {}
        /\ Avail \cup Work \cup Detached = Entries
        /\ free_seq_end \in Avail /\ next[free_seq_end] = NIL
    BY <1>6 DEF ListsOK
  <2>3. io_seq # NIL => /\ io_seq_end \in Work /\ next[io_seq_end] = NIL /\ prev[io_seq] = NIL
                        /\ \A e \in Work : next[e] # NIL => prev[next[e]] = e
    BY DEF ListsOK
  <2> QED
    BY <1>1, <1>6, <1>12, <1>16, <2>1, <2>2, <2>3 DEF ListsOK
<1>18. dispatcher'.last \in Reached(dispatcher'.first, next')
  BY <1>2, <1>3, <1>14 DEF Chain
<1> QED
  BY <1>2, <1>5, <1>6, <1>9, <1>11, <1>12, <1>16, <1>17, <1>18

\* They are appended to the free list.
LEMMA GiveBackLists ==
  ASSUME TypeOK, ListsOK, InHandOK, GiveBack
  PROVE  /\ ListsOK' /\ Avail' = Avail \cup Detached /\ Work' = Work /\ InHand = {} /\ InHand' = {} /\ Detached' = {}
         /\ \A x \in Work : Chain(x)' = Chain(x)
         /\ \A x \in Avail : Chain(x)' \subseteq Chain(x) \cup Detached
         /\ \A x \in Detached : Chain(x)' \subseteq Detached
         /\ Detached \subseteq Entries
<1> DEFINE first == dispatcher.first
           last  == dispatcher.last
           tail  == free_seq_end
<1>1. /\ dispatcher.pc = "give_back" /\ next' = [next EXCEPT ![tail] = first]
      /\ prev' = [prev EXCEPT ![first] = tail]
      /\ free_seq_end' = last /\ dispatcher'.pc = "idle"
      /\ UNCHANGED <<io_seq, io_seq_end, free_seq>>
  BY DEF GiveBack, ends, AtRest
<1>2. /\ last \in Detached /\ first \in Detached /\ Detached \subseteq Entries /\ Chain(first) = Detached
  BY <1>1, DetachedFacts
<1>3. /\ next \in Functional /\ io_seq \in Links /\ free_seq \in Links
      /\ Work \subseteq Entries /\ Avail \subseteq Entries /\ first \in Links /\ first \in Entries
      /\ tail \in Avail /\ tail \in Entries /\ next[tail] = NIL /\ next[last] = NIL
      /\ EndsAt(free_seq, tail, next) /\ last \in Entries
  BY <1>1, <1>2, ListFacts, NilIsNone DEF ListsOK, InHandOK
<1>4. next' \in Functional /\ (next')[tail] = first /\ \A x \in Entries \ {tail} : (next')[x] = next[x]
  BY <1>1, <1>3 DEF Functional
<1>5. InHand = {} /\ InHand' = {} /\ Detached' = {}
  BY <1>1 DEF InHand, Detached
<1>6. tail \notin Work /\ tail \notin Detached /\ Detached \cap Avail = {} /\ Detached \cap Work = {}
  BY <1>3 DEF ListsOK
<1>7. tail \notin Reached(first, next) /\ tail \notin Reached(next[tail], next)
  BY <1>2, <1>3, <1>6, NothingReached DEF Chain
<1>8. \A x \in Links : tail \notin Chain(x) => Chain(x)' = Chain(x)
  BY <1>3, <1>4, <1>7, Splice DEF Chain
<1>9. \A x \in Links : tail \in Chain(x) => Chain(x)' = {y \in Chain(x) : tail \in Chain(y)} \cup Detached
  <2>1. Reached(first, next) = Detached
    BY <1>2 DEF Chain
  <2> QED
    BY <1>3, <1>4, <1>7, <2>1, Splice DEF Chain
<1>10. /\ \A x \in Work : x \in Links /\ tail \notin Chain(x)
       /\ \A x \in Detached : x \in Links /\ tail \notin Chain(x) /\ Chain(x) \subseteq Detached
       /\ \A x \in Avail : x \in Links /\ tail \in Chain(x)
  <2>1. \A x \in Work : x \in Links /\ tail \notin Chain(x)
    BY <1>3, <1>6, ReachedOnwards, NilIsNone DEF Work, Chain
  <2>2. \A x \in Detached : x \in Links /\ Chain(x) \subseteq Detached
    BY <1>2, <1>3, ReachedOnwards, NilIsNone DEF Chain
  <2>3. \A x \in Avail : EndsAt(x, tail, next)
    BY <1>3, ListsDoNotReturn DEF Avail, Chain
  <2>4. \A x \in Avail : x \in Links /\ tail \in Chain(x)
    BY <1>3, <2>3, NilIsNone DEF EndsAt, Chain
  <2> QED
    BY <1>6, <2>1, <2>2, <2>4
<1>11. Work' = Work
  <2>1. Work' = Reached(io_seq, next')
    BY <1>1 DEF Work, Chain
  <2> QED
    BY <1>3, <1>6, <1>8, <2>1 DEF Work, Chain
<1>12. Avail' = Avail \cup Detached
  <2>1. Avail' = Reached(free_seq, next')
    BY <1>1 DEF Avail, Chain
  <2>2. Avail' = {y \in Avail : tail \in Chain(y)} \cup Detached
    BY <1>3, <1>9, <2>1 DEF Avail, Chain
  <2> QED
    BY <1>10, <2>2
<1>13. ListsOK'
  <2>1. /\ Work \cap Avail = {} /\ Avail \cup Work \cup Detached = Entries
    BY <1>5 DEF ListsOK
  <2>2. io_seq # NIL => /\ io_seq_end \in Work /\ next[io_seq_end] = NIL /\ prev[io_seq] = NIL
                        /\ \A e \in Work : next[e] # NIL => prev[next[e]] = e
    BY DEF ListsOK
  <2>3. (next')[last] = NIL /\ last \in Avail'
    BY <1>2, <1>3, <1>4, <1>6, <1>12
  <2>4. ASSUME io_seq # NIL
        PROVE  /\ (next')[io_seq_end] = NIL /\ (prev')[io_seq] = NIL
               /\ \A e \in Work : (next')[e] # NIL => (prev')[(next')[e]] = e
    <3>1. \A e \in Work : (next')[e] = next[e] /\ (prev')[e] = prev[e]
      BY <1>1, <1>2, <1>3, <1>4, <1>6 DEF TypeOK
    <3>2. io_seq \in Work /\ \A e \in Work : next[e] # NIL => next[e] \in Work
      BY <1>3, <2>4, ReachedIsLeast DEF Work, Chain
    <3> QED
      BY <2>2, <2>4, <3>1, <3>2
  <2> QED
    BY <1>1, <1>5, <1>6, <1>11, <1>12, <2>1, <2>2, <2>3, <2>4 DEF ListsOK
<1> QED
  BY <1>2, <1>5, <1>8, <1>9, <1>10, <1>11, <1>12, <1>13

-----------------------------------------------------------------------------
(* Types.                                                                  *)

DispatcherType == [pc : {"idle", "insert", "insert_internal", "reclaim", "cut", "give_back"},
                   first : Links, last : Links]
WorkerType == [pc : {"start", "visit", "mark", "leave"}, curr : Links]

\* The dispatcher's steps keep the types.
LEMMA DispatcherTypes ==
  ASSUME TypeOK, ListsOK, InHandOK, Issue \/ DispatcherGoesOn
  PROVE  TypeOK'
<1>1. /\ next \in Functional /\ prev \in Functional /\ io_seq \in Links /\ io_seq_end \in Links
      /\ Work \subseteq Entries /\ NIL \in Links /\ Entries \subseteq Links
      /\ dispatcher \in DispatcherType /\ free_seq \in Entries /\ free_seq_end \in Entries
  BY ListFacts, NilIsNone DEF TypeOK, Functional, DispatcherType
<1>2. \A internal : Afterwards(internal) \in DispatcherType /\ AtRest \in DispatcherType
  BY <1>1 DEF Afterwards, AtRest, DispatcherType
<1>3. ASSUME NEW internal \in BOOLEAN, NEW target \in now .. now + MaxDelay, target <= MaxTime, Allocate(target, internal)
      PROVE  TypeOK'
  <2>1. next[free_seq] \in Entries
    BY <1>1, <1>3 DEF Allocate, EntryLeft, Functional, Links
  <2>2. issued < NrOps /\ issued' = issued + 1 /\ issued' \in 0 .. NrOps /\ issued + 1 \in Ops
    BY <1>3, OpsAssumption DEF Allocate, CanIssue, TypeOK, Ops
  <2>3. target \in 0 .. MaxTime
    BY <1>3, TimeAssumption DEF TypeOK
  <2>4. next' \in Functional /\ prev' \in Functional
    BY <1>1, <1>3 DEF Allocate, Functional
  <2>5. dispatcher' \in DispatcherType
    BY <1>1, <1>3 DEF Allocate, DispatcherType
  <2>6. is_completed' \in [Entries -> BOOLEAN] /\ is_copied' \in [Entries -> BOOLEAN]
    BY <1>3, Zenon DEF Allocate, TypeOK
  <2>7. op' \in [Entries -> Ops \cup {NoOp}] /\ nsecs_target' \in [Entries -> 0 .. MaxTime]
    BY <1>1, <1>3, <2>2, <2>3 DEF Allocate, TypeOK
  <2> QED
    BY <1>1, <1>3, <2>1, <2>2, <2>4, <2>5, <2>6, <2>7 DEF Allocate, TypeOK, Functional, DispatcherType, ends
<1>4. ASSUME NEW internal \in BOOLEAN, Drop(internal) PROVE TypeOK'
  <2>1. issued' \in 0 .. NrOps /\ lost' \subseteq Ops
    BY <1>4, OpsAssumption DEF Drop, CanIssue, TypeOK, Ops
  <2> QED
    BY <1>2, <1>4, <2>1 DEF Drop, TypeOK, DispatcherType, links, fields, ends, frees
<1>5. CASE Insert
  <2> DEFINE e  == dispatcher.first
             at == Place(nsecs_target[e])
  <2>1. e \in Entries
    BY <1>5 DEF Insert, InHandOK
  <2>2. next' \in Functional /\ prev' \in Functional /\ io_seq' \in Links /\ io_seq_end' \in Links
    <3>1. CASE io_seq = NIL
      BY <1>1, <1>5, <2>1, <3>1 DEF Insert, links
    <3>2. CASE io_seq # NIL /\ at = NIL
      BY <1>1, <1>5, <2>1, <3>2 DEF Insert, LinkFirst, Functional
    <3>3. CASE io_seq # NIL /\ at # NIL
      <4>1. at \in Entries
        BY <1>1, <3>3, PlaceStops
      <4> HIDE DEF at, e
      <4>2. LinkAfter(e, at)
        BY <1>5, <3>3 DEF Insert, at, e
      <4> QED
        BY <1>1, <2>1, <4>1, <4>2 DEF LinkAfter, Functional
    <3> QED
      BY <3>1, <3>2, <3>3
  <2> QED
    BY <1>2, <1>5, <2>2 DEF Insert, TypeOK, Functional, DispatcherType, fields, frees, history
<1>6. CASE NothingToReclaim
  BY <1>2, <1>6 DEF NothingToReclaim, TypeOK, DispatcherType, links, fields, ends, frees, history
<1>7. CASE Detach
  <2> DEFINE last == LastFinished
  <2>1. last \in Entries /\ next[last] \in Links
    BY <1>1, <1>7, LastFinishedFacts DEF Detach, Functional
  <2>2. /\ io_seq' = next[last] /\ next' = next
        /\ prev' = [e \in Entries |-> IF e = next[last] THEN NIL ELSE prev[e]]
        /\ dispatcher' = [pc |-> "cut", first |-> io_seq, last |-> last]
    BY <1>7 DEF Detach
  <2> HIDE DEF last
  <2>3. prev' \in Functional /\ dispatcher' \in DispatcherType /\ io_seq' \in Links
    BY <1>1, <2>1, <2>2 DEF Functional, DispatcherType
  <2> QED
    BY <1>7, <2>2, <2>3 DEF Detach, TypeOK, Functional, DispatcherType, fields, frees, history
<1>8. CASE Cut
  <2>1. next' \in Functional
    BY <1>1, <1>8 DEF Cut, Functional
  <2>2. dispatcher' \in DispatcherType
    BY <1>1, <1>8 DEF Cut, DispatcherType
  <2> QED
    BY <1>8, <2>1, <2>2 DEF Cut, TypeOK, Functional, DispatcherType, fields, ends, frees, history
<1>9. CASE GiveBack
  <2>1. dispatcher.first \in Entries /\ dispatcher.last \in Entries
    <3>1. dispatcher.pc = "give_back"
      BY <1>9 DEF GiveBack
    <3> QED
      BY <3>1, DetachedFacts
  <2>2. next' \in Functional /\ prev' \in Functional
    BY <1>1, <1>9, <2>1 DEF GiveBack, Functional
  <2> QED
    BY <1>2, <1>9, <2>1, <2>2 DEF GiveBack, TypeOK, Functional, DispatcherType, fields, ends, history
<1> QED
  BY <1>3, <1>4, <1>5, <1>6, <1>7, <1>8, <1>9 DEF Issue, DispatcherGoesOn

\* So do the worker's, if an operation is not posted twice, and the clock's.
LEMMA WorkerTypes ==
  ASSUME TypeOK, WorkerOK, PostedOnce, WorkerStep \/ Tick
  PROVE  TypeOK'
<1>1. next \in Functional /\ worker \in WorkerType /\ NIL \in Links /\ Entries \subseteq Links /\ io_seq \in Links
  BY NilIsNone DEF TypeOK, Functional, WorkerType
<1>2. worker.pc # "start" => worker.curr \in Entries
  BY DEF WorkerOK
<1>3. \A e \in Entries : Following(e) \in WorkerType
  BY <1>1 DEF Following, WorkerType, Functional
<1>4. CASE StartPass
  BY <1>1, <1>4 DEF StartPass, TypeOK, WorkerType, links, fields, ends, frees, history
<1>5. CASE SkipCompleted
  BY <1>2, <1>3, <1>5 DEF SkipCompleted, TypeOK, WorkerType, links, fields, ends, frees, history
<1>6. CASE Visit
  <2>1. worker.curr \in Entries /\ worker' \in WorkerType
    BY <1>1, <1>2, <1>6 DEF Visit, WorkerType
  <2>2. is_copied' \in [Entries -> BOOLEAN]
    BY <1>6 DEF Visit, TypeOK
  <2>3. posted' \in [Ops -> 0 .. 2]
    <3>1. \A o \in Ops : posted[o] \in 0 .. 1
      BY DEF TypeOK, PostedOnce
    <3>2. posted' = posted \/ posted' = [posted EXCEPT ![op[worker.curr]] = @ + 1]
      BY <1>6 DEF Visit
    <3>3. posted \in [Ops -> 0 .. 2]
      BY DEF TypeOK
    <3> QED
      BY <3>1, <3>2, <3>3
  <2> QED
    BY <1>6, <2>1, <2>2, <2>3 DEF Visit, TypeOK, WorkerType, links, fields, ends, frees
<1>7. CASE Mark
  <2>1. worker' \in WorkerType
    BY <1>1, <1>7 DEF Mark, WorkerType
  <2> QED
    BY <1>7, <2>1 DEF Mark, TypeOK, WorkerType, links, fields, ends, frees, history
<1>8. CASE Leave
  BY <1>2, <1>3, <1>8 DEF Leave, TypeOK, WorkerType, links, fields, ends, frees, history
<1>9. CASE Tick
  BY <1>9, TimeAssumption DEF Tick, TypeOK, links, fields, ends, frees, history
<1> QED
  BY <1>4, <1>5, <1>6, <1>7, <1>8, <1>9 DEF WorkerStep

-----------------------------------------------------------------------------
(* The steps of the dispatcher.                                            *)

\* An operation is issued, and gets the head of the free list.
LEMMA AllocateKeeps ==
  ASSUME QueueInv, NEW target \in now .. now + MaxDelay, target <= MaxTime,
         NEW internal \in BOOLEAN, Allocate(target, internal)
  PROVE  QueueInv'
<1>0. PICK e : e = free_seq
  OBVIOUS
<1> DEFINE new == issued + 1
<1>1. TypeOK'
  BY DispatcherTypes DEF QueueInv, Issue
<1>2. /\ ListsOK' /\ Work' = Work /\ Avail' = Avail \ {e} /\ InHand' = {e} /\ InHand = {}
      /\ Detached' = {} /\ Detached = {} /\ e \in Avail /\ e \notin Work /\ next[e] \in Entries
      /\ \A x \in Links : e \notin Chain(x) => Chain(x)' = Chain(x)
      /\ \A x \in Avail : x # e => e \notin Chain(x)
  BY <1>0, AllocateLists DEF QueueInv
<1>3. /\ next \in Functional /\ io_seq \in Links /\ Work \subseteq Entries /\ Avail \subseteq Entries /\ Entries \subseteq Links
      /\ \A x \in Work : x \in Chain(x) /\ Chain(x) \subseteq Work
      /\ \A x \in Avail : Chain(x) \subseteq Avail
  <2>1. /\ next \in Functional /\ io_seq \in Links /\ free_seq \in Links
        /\ Work \subseteq Entries /\ Avail \subseteq Entries /\ Entries \subseteq Links /\ NIL \notin Entries
    BY ListFacts, NilIsNone DEF QueueInv
  <2>2. \A x \in Entries : x \in Chain(x)
    BY <2>1, ReachedIsLeast DEF Chain
  <2>3. \A x \in Work : Chain(x) \subseteq Work
    BY <2>1, ReachedOnwards DEF Work, Chain
  <2>4. \A x \in Avail : Chain(x) \subseteq Avail
    BY <2>1, ReachedOnwards DEF Avail, Chain
  <2> QED
    BY <2>1, <2>2, <2>3, <2>4
<1>4. /\ op' = [op EXCEPT ![e] = new] /\ nsecs_target' = [nsecs_target EXCEPT ![e] = target]
      /\ is_completed' = [is_completed EXCEPT ![e] = FALSE]
      /\ next' = [next EXCEPT ![e] = NIL] /\ prev' = [prev EXCEPT ![e] = NIL]
      /\ dispatcher'.pc \in {"insert", "insert_internal"} /\ dispatcher'.first = e
      /\ NotLapped /\ issued' = new /\ issued < NrOps
      /\ UNCHANGED <<worker, latest_nsecs, now, posted, lost>>
  BY <1>0 DEF Allocate, CanIssue
<1>5. /\ op'[e] = new /\ nsecs_target'[e] = target /\ is_completed'[e] = FALSE /\ next'[e] = NIL /\ prev'[e] = NIL
      /\ \A x \in Work \cup (Avail \ {e}) :
           op'[x] = op[x] /\ nsecs_target'[x] = nsecs_target[x] /\ is_completed'[x] = is_completed[x]
  BY <1>2, <1>3, <1>4 DEF QueueInv, TypeOK
<1>6. new \in Ops /\ new \in 1 .. new /\ issued \in Nat /\ \A o \in 1 .. new : o \in 1 .. issued \/ o = new
  BY <1>4, OpsAssumption DEF QueueInv, TypeOK, Ops
<1>7. InHandOK'
  BY <1>2, <1>3, <1>4, <1>5 DEF InHandOK
<1>8. ASSUME worker.pc # "start"
      PROVE  /\ worker.curr \in Entries /\ worker.curr # e
             /\ worker.curr \in Avail \ {e} => \A x \in Chain(worker.curr)' : is_completed'[x]
  <2>1. worker.curr \in Entries /\ worker.curr # e
    BY <1>0, <1>4, <1>8 DEF QueueInv, WorkerOK, NotLapped
  <2>2. ASSUME worker.curr \in Avail \ {e}
        PROVE  \A x \in Reached(worker.curr, next') : is_completed'[x]
    <3>1. e \notin Chain(worker.curr) /\ worker.curr \in Links
      BY <1>2, <1>3, <2>1, <2>2
    <3>2. Reached(worker.curr, next') = Chain(worker.curr)
      BY <1>2, <3>1 DEF Chain
    <3>3. \A x \in Chain(worker.curr) : is_completed[x] /\ x \in Avail \ {e}
      BY <1>3, <1>8, <2>2, <3>1 DEF QueueInv, WorkerOK
    <3> QED
      BY <1>5, <3>2, <3>3
  <2> QED
    BY <1>4, <2>1, <2>2 DEF Chain
<1>9. WorkerOK'
  <2>1. worker.pc = "mark" => ~is_completed'[worker.curr]
    <3>1. worker.pc = "mark" => ~is_completed[worker.curr] /\ worker.curr \in Entries
      BY DEF QueueInv, WorkerOK
    <3>2. worker.pc = "mark" => worker.curr \in Work \cup (Avail \ {e})
      BY <1>2, <1>8, <3>1 DEF QueueInv, ListsOK
    <3> QED
      BY <1>5, <3>1, <3>2
  <2> QED
    BY <1>2, <1>4, <1>8, <2>1 DEF WorkerOK
<1>10. ~WasPosted(e)'
  <2>1. worker.pc = "mark" => worker.curr # e
    BY <1>8
  <2> QED
    BY <1>4, <1>5, <2>1 DEF WasPosted
<1>11. \A x \in Work : WasPosted(x)' <=> WasPosted(x)
  BY <1>4, <1>5 DEF WasPosted
<1>12. PostedOK'
  <2>1. \A x \in Work : op[x] \in 1 .. issued /\ op[x] # new /\ posted[op[x]] = IF WasPosted(x) THEN 1 ELSE 0
    BY <1>6 DEF QueueInv, PostedOK
  <2>2. \A o \in Ops : o > issued => posted[o] = 0
    BY DEF QueueInv, PostedOK
  <2>3. posted[new] = 0
    BY <1>6, <2>2
  <2>4. \A x \in Work : op'[x] \in 1 .. new /\ posted[op'[x]] = IF WasPosted(x)' THEN 1 ELSE 0
    BY <1>5, <1>6, <1>11, <2>1
  <2>5. \A x \in Work \cup {e} : op'[x] \in 1 .. new /\ posted[op'[x]] = IF WasPosted(x)' THEN 1 ELSE 0
    BY <1>5, <1>6, <1>10, <2>3, <2>4
  <2>6. \A x, y \in Work \cup {e} : op'[x] = op'[y] => x = y
    BY <1>5, <2>1 DEF QueueInv, PostedOK
  <2>7. \A o \in Ops : o > new => posted[o] = 0
    BY <1>6, <2>2 DEF Ops
  <2> QED
    BY <1>2, <1>4, <2>5, <2>6, <2>7 DEF PostedOK
<1>13. ReclaimedWerePosted'
  <2>1. \A o \in 1 .. issued : o \in lost \/ posted[o] = 1 \/ \E x \in Work : op[x] = o
    BY <1>2 DEF QueueInv, ReclaimedWerePosted, Work
  <2>2. \A o \in 1 .. new : o \in lost \/ posted[o] = 1 \/ \E x \in Work \cup {e} : op'[x] = o
    BY <1>5, <1>6, <2>1
  <2> QED
    BY <1>2, <1>4, <2>2 DEF ReclaimedWerePosted, Work
<1>14. Sorted'
  <2>1. ASSUME NEW x \in Work, NEW f \in Chain(x)', nsecs_target'[x] > nsecs_target'[f]
        PROVE  nsecs_target'[x] <= latest_nsecs
    <3>1. Chain(x)' = Chain(x)
      BY <1>2, <1>3
    <3> QED
      BY <1>3, <1>5, <2>1, <3>1 DEF QueueInv, Sorted
  <2> QED
    BY <1>2, <1>4, <2>1 DEF Sorted
<1> QED
  BY <1>1, <1>2, <1>4, <1>7, <1>9, <1>12, <1>13, <1>14 DEF QueueInv, PostedOnce

\* An operation is dropped.
LEMMA DropKeeps ==
  ASSUME QueueInv, NEW internal \in BOOLEAN, Drop(internal)
  PROVE  QueueInv'
<1> DEFINE new == issued + 1
<1>1. TypeOK'
  BY DispatcherTypes DEF QueueInv, Issue
<1>2. /\ dispatcher.pc = "idle" /\ dispatcher'.pc \in {"idle", "reclaim"}
      /\ issued' = new /\ lost' = lost \cup {new} /\ issued < NrOps
      /\ UNCHANGED <<next, prev, op, nsecs_target, is_copied, is_completed, io_seq, io_seq_end,
                     free_seq, free_seq_end, worker, latest_nsecs, now, posted>>
  BY DEF Drop, CanIssue, Afterwards, AtRest, links, fields, ends, frees
<1>3. /\ InHand = {} /\ InHand' = {} /\ Detached = {} /\ Detached' = {} /\ Work' = Work /\ Avail' = Avail
      /\ \A x : Chain(x)' = Chain(x)
  BY <1>2 DEF InHand, Detached, Work, Avail, Chain
<1>4. ListsOK'
  BY <1>2, <1>3 DEF QueueInv, ListsOK
<1>5. InHandOK' /\ WorkerOK'
  BY <1>2, <1>3 DEF QueueInv, InHandOK, WorkerOK, Chain
<1>6. PostedOK'
  <2>1. \A x : WasPosted(x)' <=> WasPosted(x)
    BY <1>2 DEF WasPosted
  <2>2. issued \in Nat
    BY DEF QueueInv, TypeOK
  <2> QED
    BY <1>2, <1>3, <2>1, <2>2 DEF QueueInv, PostedOK, Ops
<1>7. ReclaimedWerePosted'
  <2>1. \A o \in 1 .. issued : o \in lost \/ posted[o] = 1 \/ \E x \in Work : op[x] = o
    BY <1>3 DEF QueueInv, ReclaimedWerePosted, Work
  <2>2. \A o \in 1 .. new : o \in lost \cup {new} \/ posted[o] = 1 \/ \E x \in Work : op[x] = o
    <3>1. issued \in Nat
      BY DEF QueueInv, TypeOK
    <3> QED
      BY <2>1, <3>1
  <2> QED
    BY <1>2, <1>3, <2>2 DEF ReclaimedWerePosted, Work
<1>8. Sorted'
  BY <1>2, <1>3 DEF QueueInv, Sorted
<1> QED
  BY <1>1, <1>2, <1>4, <1>5, <1>6, <1>7, <1>8 DEF QueueInv, PostedOnce

\* The entry in hand is put in its place.
LEMMA InsertKeeps ==
  ASSUME QueueInv, Insert
  PROVE  QueueInv'
<1>0. PICK e : e = dispatcher.first
  OBVIOUS
<1> DEFINE at == Place(nsecs_target[e])
           t  == nsecs_target
<1>1. TypeOK'
  BY DispatcherTypes DEF QueueInv, DispatcherGoesOn
<1>2. /\ ListsOK' /\ Avail' = Avail /\ Work' = Work \cup {e} /\ InHand = {e} /\ InHand' = {}
      /\ Detached = {} /\ Detached' = {} /\ e \in Entries /\ e \notin Work
      /\ \A x \in Avail : Chain(x)' = Chain(x)
  BY <1>0, InsertLists DEF QueueInv
<1>3. /\ Chain(e)' = {e} \cup IF io_seq = NIL THEN {} ELSE IF at = NIL THEN Work ELSE Chain(next[at])
      /\ \A x \in Work : Chain(x)' = IF at # NIL /\ at \in Chain(x) THEN Chain(x) \cup {e} ELSE Chain(x)
  BY <1>0, InsertLists DEF QueueInv
<1>4. /\ UNCHANGED <<op, nsecs_target, is_copied, is_completed, worker, latest_nsecs, now, issued, posted, lost>>
      /\ dispatcher'.pc \in {"idle", "reclaim"}
  BY DEF Insert, Afterwards, AtRest, fields, frees, history
<1>5. InHandOK'
  BY <1>4 DEF InHandOK
<1>6. WorkerOK'
  <2>1. ASSUME worker.pc # "start"
        PROVE  /\ worker.curr \in Entries
               /\ worker.curr \in Avail => \A x \in Reached(worker.curr, next') : is_completed[x]
    BY <1>2, <2>1 DEF QueueInv, WorkerOK, Chain
  <2>2. worker.pc = "mark" => ~is_completed[worker.curr]
    BY DEF QueueInv, WorkerOK
  <2> QED
    BY <1>2, <1>4, <2>1, <2>2 DEF WorkerOK, Chain
<1>7. PostedOK'
  <2>1. \A x : WasPosted(x)' <=> WasPosted(x)
    BY <1>4 DEF WasPosted
  <2> QED
    BY <1>2, <1>4, <2>1 DEF QueueInv, PostedOK
<1>8. ReclaimedWerePosted'
  <2>1. Work' \cup InHand' = Work \cup InHand
    BY <1>2
  <2> QED
    BY <1>4, <2>1 DEF QueueInv, ReclaimedWerePosted, Work
<1>9. Sorted'
  <2> DEFINE stops == {c \in Entries : t[c] <= latest_nsecs \/ t[c] <= t[e]}
  <2>1. /\ next \in Functional /\ io_seq \in Links /\ Work \subseteq Entries /\ (io_seq = NIL => Work = {})
        /\ \A x \in Entries : t[x] \in Int
        /\ latest_nsecs \in Int
    BY ListFacts, NothingReached DEF QueueInv, TypeOK, Work, Chain
  <2>2. \/ io_seq = NIL
        \/ at = NIL /\ Work \cap stops = {}
        \/ at \in Work \cap stops /\ Chain(next[at]) \cap stops = {} /\ Chain(next[at]) \subseteq Work
    <3>1. at \in Work => Chain(next[at]) \subseteq Work
      <4> HIDE DEF at
      <4> SUFFICES ASSUME at \in Work PROVE Chain(next[at]) \subseteq Work
        OBVIOUS
      <4>1. Reached(at, next) = {at} \cup Reached(next[at], next)
        BY <2>1, ReachedUnfolds
      <4> QED
        BY <2>1, <4>1, ReachedOnwards DEF Work, Chain
    <3> QED
      BY <3>1, PlaceStops DEF QueueInv
  <2> HIDE DEF at
  \* Behind the new entry nothing is earlier.
  <2>3. \A f \in Chain(e)' : t[f] >= t[e]
    <3>1. \A f \in Chain(e)' : f = e \/ (f \in Work /\ f \notin stops)
      BY <1>3, <2>1, <2>2, NilIsNone
    <3> QED
      BY <1>2, <2>1, <3>1
  \* Before it what is later is due.
  <2>4. ASSUME NEW x \in Work, at # NIL, at \in Chain(x), t[x] > t[e] PROVE t[x] <= latest_nsecs
    <3>1. x \in Entries /\ Work # {} /\ io_seq # NIL
      BY <2>1
    <3>2. at \in Entries /\ (t[at] <= latest_nsecs \/ t[at] <= t[e])
      BY <2>1, <2>2, <2>4, <3>1
    <3>3. t[x] > t[at] => t[x] <= latest_nsecs
      BY <2>4 DEF QueueInv, Sorted
    <3> QED
      BY <1>2, <2>1, <2>4, <3>1, <3>2, <3>3
  <2>5. ASSUME NEW x \in Work, NEW f \in Chain(x)', t[x] > t[f] PROVE t[x] <= latest_nsecs
    <3>1. CASE f \in Chain(x)
      BY <2>5, <3>1 DEF QueueInv, Sorted
    <3>2. CASE f \notin Chain(x)
      <4>1. f = e /\ at # NIL /\ at \in Chain(x)
        BY <1>3, <2>5, <3>2 DEF Chain
      <4> QED
        BY <2>4, <2>5, <4>1
    <3> QED
      BY <3>1, <3>2
  <2>6. \A f \in Chain(e)' : ~(t[e] > t[f])
    <3>1. \A f \in Chain(e)' : f \in Entries
      BY <1>2, <1>3, <2>1, <2>2
    <3> QED
      BY <1>2, <2>1, <2>3, <3>1
  <2> QED
    BY <1>2, <1>4, <2>5, <2>6 DEF Sorted, Chain
<1> QED
  BY <1>1, <1>2, <1>4, <1>5, <1>6, <1>7, <1>8, <1>9 DEF QueueInv, PostedOnce

\* Nothing is reclaimed.
LEMMA NothingKeeps ==
  ASSUME QueueInv, NothingToReclaim
  PROVE  QueueInv'
<1>1. TypeOK'
  BY DispatcherTypes DEF QueueInv, DispatcherGoesOn
<1>2. /\ dispatcher.pc = "reclaim" /\ dispatcher'.pc = "idle"
      /\ UNCHANGED <<next, prev, op, nsecs_target, is_copied, is_completed, io_seq, io_seq_end,
                     free_seq, free_seq_end, worker, latest_nsecs, now, issued, posted, lost>>
  BY DEF NothingToReclaim, AtRest, links, fields, ends, frees, history
<1>3. /\ InHand = {} /\ InHand' = {} /\ Detached = {} /\ Detached' = {} /\ Work' = Work /\ Avail' = Avail
      /\ \A x : (Chain(x)' = Chain(x)) /\ (WasPosted(x)' <=> WasPosted(x))
  BY <1>2 DEF InHand, Detached, Work, Avail, Chain, WasPosted
<1>4. ListsOK'
  BY <1>2, <1>3 DEF QueueInv, ListsOK
<1>5. InHandOK' /\ WorkerOK'
  BY <1>2, <1>3 DEF QueueInv, InHandOK, WorkerOK, Chain
<1>6. PostedOK' /\ ReclaimedWerePosted'
  BY <1>2, <1>3 DEF QueueInv, PostedOK, ReclaimedWerePosted, Work
<1>7. Sorted'
  BY <1>2, <1>3 DEF QueueInv, Sorted
<1> QED
  BY <1>1, <1>2, <1>4, <1>5, <1>6, <1>7 DEF QueueInv, PostedOnce

\* The finished entries are no longer on the work list; they were posted.
LEMMA DetachKeeps ==
  ASSUME QueueInv, Detach
  PROVE  QueueInv'
<1>1. TypeOK'
  BY DispatcherTypes DEF QueueInv, DispatcherGoesOn
<1>2. /\ ListsOK' /\ Avail' = Avail /\ InHand = {} /\ InHand' = {} /\ Detached = {}
      /\ Detached' \cup Work' = Work /\ \A e \in Detached' : Finished(e)
      /\ \A x : Chain(x)' = Chain(x)
      /\ dispatcher'.pc = "cut" /\ dispatcher'.first \in Entries
      /\ dispatcher'.last \in Chain(dispatcher'.first) /\ (next')[dispatcher'.last] = io_seq'
  BY DetachLists DEF QueueInv
<1>3. UNCHANGED <<next, op, nsecs_target, is_copied, is_completed, worker, latest_nsecs, now, issued, posted, lost>>
  BY DEF Detach, fields, frees, history
<1>4. InHandOK'
  <2>1. \A e \in Detached' : is_completed[e]
    BY <1>2 DEF Finished
  <2>2. dispatcher'.last \in Reached(dispatcher'.first, next')
    BY <1>2, <1>3 DEF Chain
  <2> QED
    BY <1>2, <1>3, <2>1, <2>2 DEF InHandOK, Chain
<1>5. WorkerOK'
  <2>1. ASSUME worker.pc # "start"
        PROVE  /\ worker.curr \in Entries
               /\ worker.curr \in Avail => \A x \in Reached(worker.curr, next') : is_completed[x]
    BY <1>2, <1>3, <2>1 DEF QueueInv, WorkerOK, Chain
  <2>2. worker.pc = "mark" => ~is_completed[worker.curr]
    BY DEF QueueInv, WorkerOK
  <2> QED
    BY <1>2, <1>3, <2>1, <2>2 DEF WorkerOK, Chain
<1>6. \A x : WasPosted(x)' <=> WasPosted(x)
  BY <1>3 DEF WasPosted
<1>7. PostedOK'
  BY <1>2, <1>3, <1>6 DEF QueueInv, PostedOK
<1>8. ReclaimedWerePosted'
  <2>1. \A e \in Detached' : posted[op[e]] = 1
    <3>1. \A e \in Detached' : e \in Work /\ WasPosted(e)
      BY <1>2 DEF Finished, WasPosted
    <3> QED
      BY <3>1 DEF QueueInv, PostedOK
  <2>2. \A o \in 1 .. issued : o \in lost \/ posted[o] = 1 \/ \E x \in Work : op[x] = o
    BY <1>2 DEF QueueInv, ReclaimedWerePosted, Work
  <2>3. \A o \in 1 .. issued : o \in lost \/ posted[o] = 1 \/ \E x \in Work' : op[x] = o
    BY <1>2, <2>1, <2>2
  <2> QED
    BY <1>2, <1>3, <2>3 DEF ReclaimedWerePosted, Work
<1>9. Sorted'
  BY <1>2, <1>3 DEF QueueInv, Sorted
<1> QED
  BY <1>1, <1>2, <1>3, <1>4, <1>5, <1>7, <1>8, <1>9 DEF QueueInv, PostedOnce

\* They are cut off it.
LEMMA CutKeeps ==
  ASSUME QueueInv, Cut
  PROVE  QueueInv'
<1>1. TypeOK'
  BY DispatcherTypes DEF QueueInv, DispatcherGoesOn
<1>2. /\ ListsOK' /\ Avail' = Avail /\ Work' = Work /\ InHand = {} /\ InHand' = {} /\ Detached' = Detached
      /\ \A x \in Work \cup Avail : Chain(x)' = Chain(x)
      /\ dispatcher'.last \in Reached(dispatcher'.first, next') /\ (next')[dispatcher'.last] = NIL
  BY CutLists DEF QueueInv
<1>3. /\ UNCHANGED <<prev, op, nsecs_target, is_copied, is_completed, worker, latest_nsecs, now, issued, posted, lost>>
      /\ dispatcher.pc = "cut" /\ dispatcher' = [dispatcher EXCEPT !.pc = "give_back"]
  BY DEF Cut, fields, history
<1>4. dispatcher'.pc = "give_back" /\ dispatcher'.first = dispatcher.first
  BY <1>3 DEF QueueInv, TypeOK
<1>5. InHandOK'
  <2>1. (\A e \in Detached : is_completed[e]) /\ dispatcher.first \in Entries
    BY <1>3 DEF QueueInv, InHandOK
  <2> QED
    BY <1>2, <1>3, <1>4, <2>1 DEF InHandOK, Chain
<1>6. WorkerOK'
  <2>1. ASSUME worker.pc # "start"
        PROVE  /\ worker.curr \in Entries
               /\ worker.curr \in Avail => \A x \in Reached(worker.curr, next') : is_completed[x]
    BY <1>2, <2>1 DEF QueueInv, WorkerOK, Chain
  <2>2. worker.pc = "mark" => ~is_completed[worker.curr]
    BY DEF QueueInv, WorkerOK
  <2> QED
    BY <1>2, <1>3, <2>1, <2>2 DEF WorkerOK, Chain
<1>7. PostedOK' /\ ReclaimedWerePosted'
  <2>1. \A x : WasPosted(x)' <=> WasPosted(x)
    BY <1>3 DEF WasPosted
  <2> QED
    BY <1>2, <1>3, <2>1 DEF QueueInv, PostedOK, ReclaimedWerePosted, Work
<1>8. Sorted'
  BY <1>2, <1>3 DEF QueueInv, Sorted
<1> QED
  BY <1>1, <1>2, <1>3, <1>5, <1>6, <1>7, <1>8 DEF QueueInv, PostedOnce

\* They are given back, while the worker may stand on one of them, or on a free entry that they follow now.
LEMMA GiveBackKeeps ==
  ASSUME QueueInv, GiveBack
  PROVE  QueueInv'
<1>1. TypeOK'
  BY DispatcherTypes DEF QueueInv, DispatcherGoesOn
<1>2. /\ ListsOK' /\ Avail' = Avail \cup Detached /\ Work' = Work /\ InHand = {} /\ InHand' = {} /\ Detached' = {}
      /\ \A x \in Work : Chain(x)' = Chain(x)
      /\ \A x \in Avail : Chain(x)' \subseteq Chain(x) \cup Detached
      /\ \A x \in Detached : Chain(x)' \subseteq Detached
  BY GiveBackLists DEF QueueInv
<1>3. /\ UNCHANGED <<op, nsecs_target, is_copied, is_completed, worker, latest_nsecs, now, issued, posted, lost>>
      /\ dispatcher.pc = "give_back" /\ dispatcher'.pc = "idle"
  BY DEF GiveBack, fields, history, AtRest
<1>4. InHandOK'
  BY <1>3 DEF InHandOK
<1>5. WorkerOK'
  <2>1. \A e \in Detached : is_completed[e]
    BY <1>3 DEF QueueInv, InHandOK
  <2>2. ASSUME worker.pc # "start"
        PROVE  /\ worker.curr \in Entries
               /\ worker.curr \in Avail \cup Detached => \A x \in Reached(worker.curr, next') : is_completed[x]
    BY <1>2, <2>1, <2>2 DEF QueueInv, WorkerOK, Chain
  <2>3. worker.pc = "mark" => ~is_completed[worker.curr]
    BY DEF QueueInv, WorkerOK
  <2> QED
    BY <1>2, <1>3, <2>2, <2>3 DEF WorkerOK, Chain
<1>6. PostedOK' /\ ReclaimedWerePosted'
  <2>1. \A x : WasPosted(x)' <=> WasPosted(x)
    BY <1>3 DEF WasPosted
  <2> QED
    BY <1>2, <1>3, <2>1 DEF QueueInv, PostedOK, ReclaimedWerePosted, Work
<1>7. Sorted'
  BY <1>2, <1>3 DEF QueueInv, Sorted
<1> QED
  BY <1>1, <1>2, <1>3, <1>4, <1>5, <1>6, <1>7 DEF QueueInv, PostedOnce

-----------------------------------------------------------------------------
(* The steps of the worker.                                                *)

\* next leads the worker from a list only to the same list, and from the detached entries to one of
\* them or to the work list; never to the entry that the dispatcher has in hand.
LEMMA NextStays ==
  ASSUME TypeOK, ListsOK, InHandOK, NEW e \in Entries \ InHand, next[e] # NIL
  PROVE  /\ next[e] \in Entries \ InHand
         /\ next[e] \in Avail => e \in Avail /\ Chain(next[e]) \subseteq Chain(e)
<1>1. next \in Functional /\ io_seq \in Links /\ free_seq \in Links /\ Work \subseteq Entries /\ Avail \subseteq Entries
  BY ListFacts
<1>2. Chain(e) = {e} \cup Chain(next[e])
  BY <1>1, ReachedUnfolds DEF Chain
<1>3. CASE e \in Work
  <2>1. next[e] \in Work
    BY <1>1, <1>3, ReachedIsLeast DEF Work, Chain
  <2> QED
    BY <1>1, <2>1 DEF ListsOK
<1>4. CASE e \in Avail
  <2>1. next[e] \in Avail
    BY <1>1, <1>4, ReachedIsLeast DEF Avail, Chain
  <2> QED
    BY <1>1, <1>2, <1>4, <2>1 DEF ListsOK
<1>5. CASE e \in Detached
  <2>1. dispatcher.pc \in {"cut", "give_back"}
    BY <1>5 DEF Detached
  <2>2. InHand = {}
    BY <2>1 DEF InHand
  <2>3. next[e] \in Detached \cup Work
    <3>1. CASE e # dispatcher.last
      BY <1>5, <2>1, <3>1, DetachedFacts
    <3>2. CASE e = dispatcher.last
      <4>1. next[e] = io_seq
        BY <2>1, <3>2 DEF InHandOK
      <4> QED
        BY <1>1, <4>1, ReachedIsLeast DEF Work, Chain
    <3> QED
      BY <3>1, <3>2
  <2>4. Detached \subseteq Entries
    BY <2>1, DetachedFacts
  <2> QED
    BY <1>1, <2>2, <2>3, <2>4 DEF ListsOK
<1> QED
  BY <1>3, <1>4, <1>5 DEF ListsOK

\* The worker, or the clock, leaves the lists alone; an entry in hand is not marked as completed.
LEMMA WorkerLeavesLists ==
  ASSUME QueueInv, UNCHANGED <<links, ends, frees, dispatcher>>,
         \A e \in Entries : is_completed[e] => is_completed'[e],
         \A e \in InHand : is_completed'[e] = is_completed[e]
  PROVE  /\ ListsOK' /\ InHandOK'
         /\ Work' = Work /\ Avail' = Avail /\ InHand' = InHand /\ Detached' = Detached
         /\ \A x : Chain(x)' = Chain(x)
<1>1. /\ ListsOK' /\ Work' = Work /\ Avail' = Avail /\ InHand' = InHand /\ Detached' = Detached
      /\ \A x : Chain(x)' = Chain(x)
  BY ListsStay DEF QueueInv
<1>2. Detached \subseteq Entries
  <2>1. CASE dispatcher.pc \in {"cut", "give_back"}
    BY <2>1, DetachedFacts DEF QueueInv
  <2>2. CASE dispatcher.pc \notin {"cut", "give_back"}
    BY <2>2 DEF Detached
  <2> QED
    BY <2>1, <2>2
<1>3. InHandOK'
  <2>1. ASSUME dispatcher.pc \in {"insert", "insert_internal"}
        PROVE  LET e == dispatcher.first
               IN  e \in Entries /\ next[e] = NIL /\ prev[e] = NIL /\ ~is_completed'[e]
    BY <2>1 DEF QueueInv, InHandOK, InHand
  <2>2. ASSUME dispatcher.pc \in {"cut", "give_back"}
        PROVE  /\ dispatcher.first \in Entries /\ dispatcher.last \in Chain(dispatcher.first)
               /\ next[dispatcher.last] = IF dispatcher.pc = "cut" THEN io_seq ELSE NIL
               /\ \A e \in Detached : is_completed'[e]
    BY <1>2, <2>2 DEF QueueInv, InHandOK
  <2> QED
    BY <1>1, <2>1, <2>2 DEF InHandOK, links, ends, Chain
<1> QED
  BY <1>1, <1>3

\* Where the worker goes next.
LEMMA FollowingOK ==
  ASSUME QueueInv, worker.pc \in {"visit", "mark", "leave"}, worker' = Following(worker.curr),
         UNCHANGED <<links, is_completed, ends, frees, dispatcher>>
  PROVE  WorkerOK' /\ worker'.pc # "mark"
<1> DEFINE e == worker.curr
<1>1. e \in Entries \ InHand /\ (e \in Avail => \A x \in Chain(e) : is_completed[x])
  BY DEF QueueInv, WorkerOK
<1>2. worker'.pc \in {"start", "visit"} /\ worker'.curr = next[e] /\ (worker'.pc # "start" => next[e] # NIL)
  BY DEF Following
<1>3. next[e] # NIL => /\ next[e] \in Entries \ InHand
                       /\ next[e] \in Avail => e \in Avail /\ Chain(next[e]) \subseteq Chain(e)
  BY <1>1, NextStays DEF QueueInv
<1>4. Avail' = Avail /\ InHand' = InHand
  BY ListsStay DEF QueueInv
<1>5. worker'.pc # "start" => /\ worker'.curr \in Entries \ InHand
                              /\ worker'.curr \in Avail => \A x \in Reached(worker'.curr, next') : is_completed[x]
  BY <1>1, <1>2, <1>3 DEF Chain, links
<1> QED
  BY <1>2, <1>4, <1>5 DEF WorkerOK, Chain

\* The worker goes on, or time passes, and nothing is posted or marked.
LEMMA WalkKeeps ==
  ASSUME QueueInv, StartPass \/ SkipCompleted \/ Leave \/ Tick
  PROVE  QueueInv'
<1>1. TypeOK'
  BY WorkerTypes DEF QueueInv, WorkerStep
<1>2. UNCHANGED <<links, fields, is_copied, is_completed, ends, frees, dispatcher, issued, posted, lost>>
  BY DEF StartPass, SkipCompleted, Leave, Tick, history
<1>3. /\ ListsOK' /\ InHandOK' /\ Work' = Work /\ Avail' = Avail /\ InHand' = InHand
      /\ \A x : Chain(x)' = Chain(x)
  BY <1>2, WorkerLeavesLists
<1>4. latest_nsecs <= latest_nsecs' /\ latest_nsecs' <= now' /\ latest_nsecs \in Int /\ latest_nsecs' \in Int
  BY DEF StartPass, SkipCompleted, Leave, Tick, QueueInv, TypeOK
<1>5. WorkerOK' /\ \A x : WasPosted(x)' <=> WasPosted(x)
  <2>1. CASE StartPass
    <3>1. io_seq \in Work /\ io_seq \in Entries
      BY <2>1, ListFacts, ReachedIsLeast DEF StartPass, QueueInv, Work, Chain
    <3>2. io_seq \notin InHand /\ io_seq \notin Avail
      BY <3>1 DEF QueueInv, ListsOK
    <3> QED
      BY <1>2, <1>3, <2>1, <3>1, <3>2 DEF StartPass, WorkerOK, WasPosted
  <2>2. CASE SkipCompleted
    BY <1>2, <2>2, FollowingOK DEF SkipCompleted, WasPosted
  <2>3. CASE Leave
    BY <1>2, <2>3, FollowingOK DEF Leave, WasPosted
  <2>4. CASE Tick
    <3>1. worker' = worker
      BY <2>4 DEF Tick
    <3> QED
      BY <1>2, <1>3, <3>1 DEF QueueInv, WorkerOK, WasPosted, Chain
  <2> QED
    BY <2>1, <2>2, <2>3, <2>4
<1>6. PostedOK' /\ ReclaimedWerePosted' /\ PostedOnce'
  BY <1>2, <1>3, <1>5 DEF QueueInv, PostedOK, ReclaimedWerePosted, PostedOnce, Work, fields
<1>7. Sorted'
  <2>1. ASSUME NEW e \in Work, NEW f \in Chain(e), nsecs_target[e] > nsecs_target[f]
        PROVE  nsecs_target[e] <= latest_nsecs'
    <3>1. nsecs_target[e] <= latest_nsecs /\ nsecs_target[e] \in Int
      BY <2>1, ListFacts DEF QueueInv, Sorted, TypeOK
    <3> QED
      BY <1>4, <3>1
  <2> QED
    BY <1>2, <1>3, <2>1 DEF Sorted, fields
<1> QED
  BY <1>1, <1>3, <1>4, <1>5, <1>6, <1>7 DEF QueueInv

\* What is not completed where the worker stands is on the work list.
LEMMA NotCompletedIsWork ==
  ASSUME QueueInv, worker.pc # "start", ~is_completed[worker.curr]
  PROVE  worker.curr \in Work /\ worker.curr \in Entries
<1> DEFINE e == worker.curr
<1>1. e \in Entries \ InHand /\ (e \in Avail => \A x \in Chain(e) : is_completed[x])
  BY DEF QueueInv, WorkerOK
<1>2. e \notin Avail
  <2>1. e \in Chain(e)
    BY <1>1, ListFacts, ReachedUnfolds DEF QueueInv, Chain
  <2> QED
    BY <1>1, <2>1
<1>3. e \notin Detached
  <2>1. e \in Detached => dispatcher.pc \in {"cut", "give_back"}
    BY DEF Detached
  <2> QED
    BY <2>1 DEF QueueInv, InHandOK
<1> QED
  BY <1>1, <1>2, <1>3 DEF QueueInv, ListsOK

\* What is due is posted.
LEMMA VisitKeeps ==
  ASSUME QueueInv, Visit
  PROVE  QueueInv'
<1>0. PICK e : e = worker.curr
  OBVIOUS
<1>1. TypeOK'
  BY WorkerTypes DEF QueueInv, WorkerStep
<1>2. /\ UNCHANGED <<links, fields, is_completed, ends, frees, dispatcher, issued, lost, now>>
      /\ worker.pc = "visit" /\ ~is_completed[e] /\ latest_nsecs' = now
  BY <1>0 DEF Visit
<1>3. /\ ListsOK' /\ InHandOK' /\ Work' = Work /\ Avail' = Avail /\ InHand' = InHand
      /\ \A x : Chain(x)' = Chain(x)
  BY <1>2, WorkerLeavesLists
<1>4. e \in Work /\ e \in Entries
  BY <1>0, <1>2, NotCompletedIsWork
<1>5. /\ worker'.curr = e /\ worker'.pc \in {"mark", "leave"}
      /\ posted' = IF worker'.pc = "mark" THEN [posted EXCEPT ![op[e]] = @ + 1] ELSE posted
  BY <1>0 DEF Visit, QueueInv, TypeOK
<1>6. WorkerOK'
  <2>1. e \notin InHand /\ e \notin Avail
    BY <1>4 DEF QueueInv, ListsOK
  <2> QED
    BY <1>2, <1>3, <1>4, <1>5, <2>1 DEF WorkerOK
<1>7. /\ \A x : x # e => (WasPosted(x)' <=> WasPosted(x))
      /\ ~WasPosted(e) /\ (WasPosted(e)' <=> worker'.pc = "mark")
  BY <1>2, <1>5, <1>0 DEF WasPosted
<1>8. /\ op[e] \in Ops /\ posted[op[e]] = 0 /\ op[e] \in 1 .. issued
      /\ \A x \in Work \cup InHand : x # e => op[x] # op[e]
      /\ \A x \in Work \cup InHand : op[x] \in Ops
      /\ posted \in [Ops -> 0 .. 2]
  <2>1. 1 .. issued \subseteq Ops
    BY OpsAssumption DEF QueueInv, TypeOK, Ops
  <2> QED
    BY <1>4, <1>7, <2>1 DEF QueueInv, PostedOK, TypeOK
<1>9. \A o \in Ops : posted'[o] = IF worker'.pc = "mark" /\ o = op[e] THEN 1 ELSE posted[o]
  BY <1>5, <1>8
<1>10. PostedOK'
  <2>1. \A x \in Work \cup InHand : op[x] \in 1 .. issued /\ posted'[op[x]] = IF WasPosted(x)' THEN 1 ELSE 0
    <3>1. \A x \in Work \cup InHand : op[x] \in 1 .. issued /\ posted[op[x]] = IF WasPosted(x) THEN 1 ELSE 0
      BY DEF QueueInv, PostedOK
    <3>2. ASSUME NEW x \in Work \cup InHand, x # e PROVE posted'[op[x]] = IF WasPosted(x)' THEN 1 ELSE 0
      BY <1>7, <1>8, <1>9, <3>1, <3>2
    <3>3. posted'[op[e]] = IF WasPosted(e)' THEN 1 ELSE 0
      BY <1>7, <1>8, <1>9
    <3> QED
      BY <3>1, <3>2, <3>3
  <2>2. \A o \in Ops : o > issued => posted'[o] = 0
    <3>1. issued \in Int
      BY DEF QueueInv, TypeOK
    <3> QED
      BY <1>8, <1>9, <3>1 DEF QueueInv, PostedOK
  <2> QED
    BY <1>2, <1>3, <2>1, <2>2 DEF QueueInv, PostedOK, fields
<1>11. PostedOnce'
  BY <1>9 DEF QueueInv, PostedOnce
<1>12. ReclaimedWerePosted'
  <2>1. \A o \in 1 .. issued : o \in Ops
    BY OpsAssumption DEF QueueInv, TypeOK, Ops
  <2>2. \A o \in 1 .. issued : posted[o] = 1 => posted'[o] = 1
    BY <1>8, <1>9, <2>1
  <2> QED
    BY <1>2, <1>3, <2>2 DEF QueueInv, ReclaimedWerePosted, Work, fields
<1>13. Sorted' /\ latest_nsecs' <= now'
  <2>1. ASSUME NEW x \in Work, NEW f \in Chain(x), nsecs_target[x] > nsecs_target[f]
        PROVE  nsecs_target[x] <= now
    <3>1. nsecs_target[x] <= latest_nsecs /\ nsecs_target[x] \in Int /\ latest_nsecs <= now /\ latest_nsecs \in Int /\ now \in Int
      BY <2>1, ListFacts DEF QueueInv, Sorted, TypeOK
    <3> QED
      BY <3>1
  <2>2. now <= now
    BY DEF QueueInv, TypeOK
  <2> QED
    BY <1>2, <1>3, <2>1, <2>2 DEF Sorted, fields
<1> QED
  BY <1>1, <1>3, <1>6, <1>10, <1>11, <1>12, <1>13 DEF QueueInv

\* What was posted is marked.
LEMMA MarkKeeps ==
  ASSUME QueueInv, Mark
  PROVE  QueueInv'
<1>0. PICK e : e = worker.curr
  OBVIOUS
<1>1. TypeOK'
  BY WorkerTypes DEF QueueInv, WorkerStep
<1>2. /\ UNCHANGED <<links, fields, is_copied, ends, frees, dispatcher, latest_nsecs, now, issued, posted, lost>>
      /\ worker.pc = "mark" /\ is_completed' = [is_completed EXCEPT ![e] = TRUE]
      /\ worker'.pc = "leave" /\ worker'.curr = e
  BY <1>0 DEF Mark, QueueInv, TypeOK, history
<1>3. e \in Work /\ e \in Entries
  BY <1>0, <1>2, NotCompletedIsWork DEF QueueInv, WorkerOK
<1>4. e \notin InHand /\ e \notin Avail
  BY <1>3 DEF QueueInv, ListsOK
<1>5. is_completed'[e] /\ \A x \in Entries : x # e => is_completed'[x] = is_completed[x]
  BY <1>2, <1>3 DEF QueueInv, TypeOK
<1>6. /\ ListsOK' /\ InHandOK' /\ Work' = Work /\ Avail' = Avail /\ InHand' = InHand
      /\ \A x : Chain(x)' = Chain(x)
  <2>1. InHand \subseteq Entries
    BY DEF QueueInv, InHandOK, InHand
  <2>2. \A x \in Entries : is_completed[x] => is_completed'[x]
    BY <1>5
  <2>3. \A x \in InHand : is_completed'[x] = is_completed[x]
    BY <1>4, <1>5, <2>1
  <2> QED
    BY <1>2, <2>2, <2>3, WorkerLeavesLists
<1>7. WorkerOK'
  BY <1>2, <1>3, <1>4, <1>6 DEF WorkerOK
<1>8. \A x \in Work \cup InHand : WasPosted(x)' <=> WasPosted(x)
  <2>1. Work \cup InHand \subseteq Entries
    BY ListFacts DEF QueueInv, InHandOK, InHand
  <2>2. \A x \in Entries : x # e => (WasPosted(x)' <=> WasPosted(x))
    BY <1>0, <1>2, <1>5 DEF WasPosted
  <2>3. WasPosted(e)' /\ WasPosted(e)
    BY <1>0, <1>2, <1>5 DEF WasPosted
  <2> QED
    BY <2>1, <2>2, <2>3
<1>9. PostedOK' /\ PostedOnce' /\ ReclaimedWerePosted'
  BY <1>2, <1>6, <1>8 DEF QueueInv, PostedOK, PostedOnce, ReclaimedWerePosted, Work, fields
<1>10. Sorted' /\ latest_nsecs' <= now'
  BY <1>2, <1>6 DEF QueueInv, Sorted, fields
<1> QED
  BY <1>1, <1>6, <1>7, <1>9, <1>10 DEF QueueInv

-----------------------------------------------------------------------------
(* The theorems.                                                           *)

\* Initially every entry is free, in the order of their indices.
LEMMA InitQueue == Init => QueueInv
<1> SUFFICES ASSUME Init PROVE QueueInv
  OBVIOUS
<1>1. /\ \A e \in Entries : next[e] = (IF e = NrEntries - 1 THEN NIL ELSE e + 1) /\ prev[e] = e - 1
      /\ next \in Functional /\ prev \in Functional /\ 0 \in Entries /\ NrEntries - 1 \in Entries
      /\ next[NrEntries - 1] = NIL
  BY EntriesAssumption DEF Init, Functional, Links, Entries, NIL
<1>2. io_seq = NIL /\ free_seq = 0 /\ free_seq_end = NrEntries - 1 /\ dispatcher = AtRest /\ io_seq_end = NIL
  BY DEF Init
<1>3. Work = {} /\ InHand = {} /\ Detached = {}
  BY <1>1, <1>2, NothingReached DEF Work, Chain, InHand, Detached, AtRest
<1>4. Avail = Entries
  <2>1. /\ Avail \subseteq Entries /\ 0 \in Avail
        /\ \A e \in Avail : e # NrEntries - 1 => e + 1 \in Avail
    <3>1. 0 \in Links /\ 0 # NIL
      BY <1>1, NilIsNone
    <3>2. /\ Avail \subseteq Entries /\ 0 \in Avail
          /\ \A e \in Avail : next[e] # NIL => next[e] \in Avail
      BY <1>1, <1>2, <3>1, ReachedIsLeast DEF Avail, Chain
    <3>3. \A e \in Entries : e + 1 # NIL
      BY EntriesAssumption DEF Entries, NIL
    <3> QED
      BY <1>1, <3>2, <3>3
  <2> SUFFICES ASSUME Avail # Entries PROVE FALSE
    OBVIOUS
  <2> DEFINE missing == {e \in Entries : e \notin Avail}
  <2>2. missing \in SUBSET Nat /\ missing # {}
    <3>1. Entries \in SUBSET Nat
      BY DEF Entries
    <3>2. missing # {}
      BY <2>1
    <3> QED
      BY <3>1, <3>2
  <2>3. PICK m \in missing : \A j \in missing : m <= j
    BY <2>2, LeastNumber
  <2>4. m \in Entries /\ m # 0 /\ m - 1 \in Entries /\ m - 1 # NrEntries - 1 /\ m - 1 \notin missing
    BY <2>1, <2>3, EntriesAssumption DEF Entries
  <2>5. (m - 1) + 1 \in Avail
    BY <2>1, <2>4
  <2> QED
    BY <2>3, <2>4, <2>5, EntriesAssumption DEF Entries
<1>5. TypeOK
  <2>1. next \in [Entries -> Links] /\ prev \in [Entries -> Links] /\ NIL \in Links
    BY <1>1, NilIsNone DEF Functional
  <2> QED
    BY <1>1, <1>2, <2>1, OpsAssumption, TimeAssumption DEF Init, TypeOK, AtRest, Ops, NoOp
<1>6. ListsOK
  BY <1>1, <1>2, <1>3, <1>4 DEF ListsOK
<1>7. InHandOK /\ WorkerOK
  BY DEF Init, InHandOK, WorkerOK, AtRest
<1>8. PostedOK /\ PostedOnce /\ ReclaimedWerePosted
  BY <1>3 DEF Init, PostedOK, PostedOnce, ReclaimedWerePosted, Ops
<1>9. Sorted /\ latest_nsecs <= now
  BY <1>3 DEF Init, Sorted
<1> QED
  BY <1>5, <1>6, <1>7, <1>8, <1>9 DEF QueueInv

\* Every step of the dispatcher, of the worker and of the clock keeps the invariant.
LEMMA StepQueue == QueueInv /\ [Next]_vars => QueueInv'
<1> SUFFICES ASSUME QueueInv, [Next]_vars PROVE QueueInv'
  OBVIOUS
<1>1. CASE Issue
  BY <1>1, AllocateKeeps, DropKeeps DEF Issue
<1>2. CASE DispatcherGoesOn
  BY <1>2, InsertKeeps, NothingKeeps, DetachKeeps, CutKeeps, GiveBackKeeps DEF DispatcherGoesOn
<1>3. CASE WorkerStep
  BY <1>3, WalkKeeps, VisitKeeps, MarkKeeps DEF WorkerStep
<1>4. CASE Tick
  BY <1>4, WalkKeeps
<1>5. CASE UNCHANGED vars
  <2>1. /\ Work' = Work /\ Avail' = Avail /\ InHand' = InHand /\ Detached' = Detached
        /\ \A x : Chain(x)' = Chain(x)
        /\ \A x : WasPosted(x)' <=> WasPosted(x)
    BY <1>5 DEF vars, links, ends, frees, Work, Avail, InHand, Detached, Chain, WasPosted
  <2>2. TypeOK' /\ ListsOK'
    BY <1>5, <2>1 DEF vars, links, fields, ends, frees, history, QueueInv, TypeOK, ListsOK
  <2>3. InHandOK' /\ WorkerOK'
    BY <1>5, <2>1 DEF vars, links, ends, frees, QueueInv, InHandOK, WorkerOK, Chain
  <2>4. PostedOK' /\ PostedOnce' /\ ReclaimedWerePosted' /\ Sorted' /\ latest_nsecs' <= now'
    BY <1>5, <2>1 DEF vars, fields, history, QueueInv, PostedOK, PostedOnce, ReclaimedWerePosted, Sorted, Work
  <2> QED
    BY <2>2, <2>3, <2>4 DEF QueueInv
<1> QED
  BY <1>1, <1>2, <1>3, <1>4, <1>5 DEF Next

\* It holds throughout.
LEMMA InvariantQueue == Spec => []QueueInv
BY InitQueue, StepQueue, PTL DEF Spec

\* However the worker walks over the lists while the dispatcher changes them, every entry is on the work list, on the
\* free list or in the dispatcher's hands, on one of them only (__insert_req_sorted, __reclaim_completed_reqs).
THEOREM ListsStayIntact == Spec => []ListsIntact
<1>1. QueueInv => ListsIntact
  <2> SUFFICES ASSUME QueueInv PROVE ListsIntact
    OBVIOUS
  <2>1. TypeOK /\ ListsOK
    BY DEF QueueInv
  <2>2. IsFiniteSet(Entries) /\ Cardinality(Entries) = NrEntries
    BY EntriesAssumption, FS_Interval DEF Entries
  <2>3. /\ Work \subseteq Entries /\ Avail \subseteq Entries /\ Detached \subseteq Entries /\ InHand \subseteq Entries
    BY <2>1 DEF ListsOK
  <2>4. IsFiniteSet(Work) /\ IsFiniteSet(Avail) /\ IsFiniteSet(Detached) /\ IsFiniteSet(InHand)
    BY <2>2, <2>3, FS_Subset
  <2>5. Detached \cap InHand = {}
    BY DEF Detached, InHand
  <2>6. Cardinality(Avail \cup Work) = Cardinality(Avail) + Cardinality(Work)
    BY <2>1, <2>4, DisjointUnion DEF ListsOK
  <2>7. Cardinality(Detached \cup InHand) = Cardinality(Detached) + Cardinality(InHand)
    BY <2>4, <2>5, DisjointUnion
  <2>8. Cardinality((Avail \cup Work) \cup (Detached \cup InHand))
          = Cardinality(Avail \cup Work) + Cardinality(Detached \cup InHand)
    <3>1. (Avail \cup Work) \cap (Detached \cup InHand) = {}
      BY <2>1 DEF ListsOK
    <3>2. IsFiniteSet(Avail \cup Work) /\ IsFiniteSet(Detached \cup InHand)
      BY <2>4, FS_Union
    <3> QED
      BY <3>1, <3>2, DisjointUnion
  <2>9. (Avail \cup Work) \cup (Detached \cup InHand) = Entries
    BY <2>1 DEF ListsOK
  <2>10. Cardinality(Avail) + Cardinality(Work) + Cardinality(Detached) + Cardinality(InHand) = NrEntries
    <3>1. /\ Cardinality(Avail) \in Nat /\ Cardinality(Work) \in Nat
          /\ Cardinality(Detached) \in Nat /\ Cardinality(InHand) \in Nat
      BY <2>4, FS_CardinalityType
    <3>2. (Cardinality(Avail) + Cardinality(Work)) + (Cardinality(Detached) + Cardinality(InHand)) = NrEntries
      BY <2>2, <2>6, <2>7, <2>8, <2>9
    <3> QED
      BY <3>1, <3>2
  <2> QED
    BY <2>1, <2>9, <2>10 DEF ListsIntact, ListsOK, Work, Avail
<1> QED
  BY <1>1, InvariantQueue, PTL

\* The worker posts no operation twice, although it may walk over reclaimed and reused entries (nvmev_io_worker).
THEOREM NeverPostedTwice == Spec => []PostedOnce
BY InvariantQueue, PTL DEF QueueInv

\* What __reclaim_completed_reqs takes off the work list was posted; nothing else leaves it.
THEOREM ReclaimedAfterPosting == Spec => []ReclaimedWerePosted
BY InvariantQueue, PTL DEF QueueInv

\* __insert_req_sorted keeps the list sorted, but for entries that are due already.
THEOREM SortedButForDue == Spec => []InversionsAreDue
<1>1. QueueInv => InversionsAreDue
  <2> SUFFICES ASSUME QueueInv, NEW e \in Work, NEW f \in Chain(next[e]), nsecs_target[e] > nsecs_target[f]
               PROVE  nsecs_target[e] <= latest_nsecs
    BY DEF InversionsAreDue, Work
  <2>1. f \in Chain(e)
    BY ListFacts, ReachedUnfolds DEF QueueInv, Chain
  <2> QED
    BY <2>1 DEF QueueInv, Sorted
<1> QED
  BY <1>1, InvariantQueue, PTL

-----------------------------------------------------------------------------
(* Proofs about the completion queue of CompletionQueue, for rings of any  *)
(* size, any number of submission queues, commands and workers, provided   *)
(* that one worker fills the ring (OneFiller) and that the host has fewer  *)
(* commands in flight than the ring has entries (SetupAssumption).         *)
(*                                                                         *)
(* The inductive invariant is CqInv.  It looks at the ring from where the  *)
(* host stands (Shown): the first n entries are those it has not read, and *)
(* the head lies behind them (Window); the commands waited for are the     *)
(* disjoint union of those in a list, in a worker's hands and in the n     *)
(* entries (Located).  So n entries are n commands, and the ring never     *)
(* fills up (NeverFull), although no step looks at how full it is.         *)

\* The entry of a ring of s entries that lies k after h, and the phase bit that
\* makes it one the host has not read, if p is the host's at h.
At(s, h, k)         == IF h + k < 0 THEN h + k + s ELSE IF h + k < s THEN h + k ELSE h + k - s
PhaseAt(s, h, p, k) == IF 0 <= h + k /\ h + k < s THEN p ELSE 1 - p

\* The ring as the host sees it: its next entry is the first.
Shown == [k \in Ring |-> entries[At(Size, host.head, k)]]

\* The commands waited for are in a list, in hand, or in one of the n entries
\* the host has not read, each in one of them.
Located(out, q, hand, n, ring) ==
  /\ out = q \cup hand \cup {ring[k].tag : k \in 0 .. n - 1}
  /\ q \cap hand = {}
  /\ \A k \in 0 .. n - 1 : ring[k].tag \notin q \cup hand
  /\ \A k, l \in 0 .. n - 1 : ring[k].tag = ring[l].tag => k = l

Writing == \E w \in Workers : io_workers[w].pc = "locked"
Hand    == {io_workers[w].tag : w \in {v \in Workers : io_workers[v].pc = "lock"}}

\* The head is d entries ahead of the host, who has n entries to read: one more
\* while a worker writes to the one at the head.  The host may read that one
\* too, and then is ahead by an entry.
Window(d, n) ==
  /\ d \in -1 .. Size - 1 /\ n \in 0 .. Size
  /\ n = IF Writing THEN d + 1 ELSE d
  /\ cq.head = At(Size, host.head, d)
  /\ cq.phase = PhaseAt(Size, host.head, host.phase, d)
  /\ \A k \in Ring : Shown[k].phase = PhaseAt(Size, host.head, host.phase, k) <=> k < n
  /\ \A k \in 0 .. n - 1 : k = d \/ Shown[k].result = Shown[k].tag
  /\ Located(outstanding, queued, Hand, n, Shown)

\* A worker fills for its own submission queues, at the head.
HandsOK ==
  \A w \in Workers : io_workers[w].pc \in {"lock", "locked"} =>
    /\ io_workers[w].tag \in Tags
    /\ __get_io_worker(io_workers[w].tag[1]) = w
    /\ io_workers[w].head = cq.head
    /\ io_workers[w].pc = "locked" => entries[io_workers[w].head].tag = io_workers[w].tag

RingOK == HandsOK /\ \E d, n \in Int : Window(d, n)

CqInv == CqTypeOK /\ RingOK

\* The submission queues of a ring are served by one worker.
OneFiller == \A s \in Setups : \E w \in Workers : \A q \in s.sqs : __get_io_worker(q) = w

-----------------------------------------------------------------------------
(* Going round the ring.                                                   *)

\* Places on the ring are distinct, and those behind the host are those ahead.
LEMMA PlacesDiffer ==
  ASSUME NEW s \in Nat, s > 1, NEW h \in 0 .. s - 1
  PROVE  /\ \A k \in -1 .. s - 1 : At(s, h, k) \in 0 .. s - 1
         /\ \A k, l \in 0 .. s - 1 : At(s, h, k) = At(s, h, l) => k = l
         /\ At(s, h, -1) = At(s, h, s - 1)
         /\ At(s, h, 0) = h
BY DEF At

\* One entry on: the host reads, and what was one ahead is next.
LEMMA HostMoves ==
  ASSUME NEW s \in Nat, s > 1, NEW h \in 0 .. s - 1, NEW p \in {0, 1},
         NEW h2, h2 = IF h + 1 = s THEN 0 ELSE h + 1,
         NEW p2, p2 = IF h + 1 = s THEN 1 - p ELSE p
  PROVE  /\ h2 \in 0 .. s - 1 /\ p2 \in {0, 1}
         /\ \A k \in -1 .. s - 2 : /\ At(s, h2, k) = At(s, h, k + 1)
                                   /\ PhaseAt(s, h2, p2, k) = PhaseAt(s, h, p, k + 1)
         /\ At(s, h2, s - 1) = h
         /\ PhaseAt(s, h2, p2, s - 1) = 1 - p
BY DEF At, PhaseAt

\* One entry on: the worker fills.
LEMMA HeadMoves ==
  ASSUME NEW s \in Nat, s > 1, NEW h \in 0 .. s - 1, NEW p \in {0, 1}, NEW k \in -1 .. s - 2
  PROVE  LET i == At(s, h, k)
         IN  /\ At(s, h, k + 1) = IF i + 1 = s THEN 0 ELSE i + 1
             /\ PhaseAt(s, h, p, k + 1) = IF i + 1 = s THEN 1 - PhaseAt(s, h, p, k)
                                                       ELSE PhaseAt(s, h, p, k)
BY DEF At, PhaseAt

\* On a ring of s entries a sum of two places is taken modulo s.
LEMMA Remainder ==
  ASSUME NEW s \in Nat, s > 1, NEW n \in 0 .. 2 * s - 1
  PROVE  n % s = IF n < s THEN n ELSE n - s
<1> DEFINE q == n \div s
           r == n % s
<1>1. q \in Nat /\ r \in 0 .. s - 1 /\ n = (s * q) + r
  OBVIOUS
<1> HIDE DEF q, r
<1>2. CASE q = 0
  BY <1>1, <1>2
<1>3. CASE q = 1
  BY <1>1, <1>3
<1>4. CASE q > 1
  <2>1. PICK m \in Nat : q = m + 2
    BY <1>1, <1>4
  <2>2. s * q = s * m + 2 * s
    BY <1>1, <2>1
  <2>3. s * m \in Nat
    BY \A a, b \in Nat : a * b \in Nat
  <2> QED
    BY <1>1, <2>2, <2>3
<1>5. n % s = r
  BY DEF r
<1> QED
  BY <1>1, <1>2, <1>3, <1>4, <1>5

-----------------------------------------------------------------------------
(* Consequences of the invariant.                                          *)

\* The ring has room for more entries than there are commands.
LEMMA Sizes ==
  ASSUME setup \in Setups
  PROVE  /\ Size \in Nat /\ Size > 1
         /\ IsFiniteSet(Tags) /\ Cardinality(Tags) \in Nat /\ Cardinality(Tags) < Size
         /\ NoTag \notin Tags
<1>1. /\ Size \in Nat /\ Size > 1 /\ setup.depth \in Nat
      /\ setup.sqs \subseteq Nat \ {0} /\ IsFiniteSet(setup.sqs)
      /\ Cardinality(setup.sqs) * setup.depth < Size
  BY SetupAssumption DEF Size
<1>2. IsFiniteSet(1 .. setup.depth) /\ Cardinality(1 .. setup.depth) = setup.depth
  <2> DEFINE d == setup.depth
  <2>1. d \in Nat
    BY <1>1
  <2> HIDE DEF d
  <2>2. IsFiniteSet(1 .. d) /\ Cardinality(1 .. d) = IF 1 > d THEN 0 ELSE d - 1 + 1
    BY <2>1, FS_Interval
  <2> QED
    BY <2>1, <2>2 DEF d
<1>3. IsFiniteSet(Tags) /\ Cardinality(Tags) = Cardinality(setup.sqs) * setup.depth
  BY <1>1, <1>2, FS_Product DEF Tags, TagsOf
<1>4. NoTag \notin Tags
  BY <1>1 DEF Tags, TagsOf, NoTag
<1> QED
  BY <1>1, <1>3, <1>4, FS_CardinalityType

\* The places of the ring, from where the host stands.
LEMMA RingPlaces ==
  ASSUME CqTypeOK
  PROVE  /\ Size \in Nat /\ Size > 1 /\ host.head \in 0 .. Size - 1 /\ host.phase \in {0, 1}
         /\ \A k \in Ring : At(Size, host.head, k) \in Ring
         /\ \A k, l \in Ring : At(Size, host.head, k) = At(Size, host.head, l) => k = l
         /\ At(Size, host.head, 0) = host.head
<1>1. Size \in Nat /\ Size > 1 /\ host.head \in 0 .. Size - 1 /\ host.phase \in {0, 1}
  BY Sizes DEF CqTypeOK, Ring
<1> DEFINE h == host.head
           s == Size
<1>2. /\ \A k \in -1 .. s - 1 : At(s, h, k) \in 0 .. s - 1
      /\ \A k, l \in 0 .. s - 1 : At(s, h, k) = At(s, h, l) => k = l
      /\ At(s, h, 0) = h
  <2> HIDE DEF h, s
  <2> QED
    BY <1>1, PlacesDiffer DEF h, s
<1>3. \A k \in Ring : k \in -1 .. s - 1
  BY <1>1 DEF Ring
<1> QED
  BY <1>1, <1>2, <1>3 DEF Ring

\* At most one worker is filling.
LEMMA OneWorkerFills ==
  ASSUME OneFiller, setup \in Setups, HandsOK, NEW v \in Workers, NEW w \in Workers,
         io_workers[v].pc \in {"lock", "locked"}, io_workers[w].pc \in {"lock", "locked"}
  PROVE  v = w
<1>1. /\ io_workers[v].tag[1] \in setup.sqs /\ __get_io_worker(io_workers[v].tag[1]) = v
      /\ io_workers[w].tag[1] \in setup.sqs /\ __get_io_worker(io_workers[w].tag[1]) = w
  BY DEF HandsOK, Tags, TagsOf
<1> QED
  BY <1>1 DEF OneFiller

\* So many commands can the host be waiting for that the ring is never full.
LEMMA NeverFull ==
  ASSUME setup \in Setups, outstanding \subseteq Tags,
         NEW n \in 0 .. Size, NEW q, NEW hand, NEW ring, Located(outstanding, q, hand, n, ring)
  PROVE  n < Size
<1> DEFINE f == [k \in 0 .. n - 1 |-> ring[k].tag]
<1>1. f \in Injection(0 .. n - 1, Tags)
  BY DEF Located, Injection, IsInjective
<1>2. IsFiniteSet(0 .. n - 1) /\ Cardinality(0 .. n - 1) = n
  <2>1. n \in Nat /\ n - 1 \in Int
    BY Sizes
  <2>2. IsFiniteSet(0 .. n - 1) /\ Cardinality(0 .. n - 1) = IF 0 > n - 1 THEN 0 ELSE n - 1 - 0 + 1
    BY <2>1, FS_Interval
  <2> QED
    BY <2>1, <2>2
<1>3. Cardinality(0 .. n - 1) <= Cardinality(Tags)
  BY <1>1, Sizes, FS_Injection
<1> QED
  BY <1>2, <1>3, Sizes

-----------------------------------------------------------------------------
(* Types.                                                                  *)

\* The queues stay as they were created.
LEMMA SetupStays ==
  ASSUME UNCHANGED setup
  PROVE  Size' = Size /\ Ring' = Ring /\ Tags' = Tags
BY DEF Size, Ring, Tags

\* Going on by one entry stays on the ring.
LEMMA RingGoesOn ==
  ASSUME setup \in Setups, NEW i \in Ring
  PROVE  /\ AfterEntry(i) \in Ring
         /\ cq.phase \in {0, 1} => HeadAfter(i) \in [head : Ring, phase : {0, 1}, interrupt_ready : BOOLEAN]
BY Sizes DEF Ring, AfterEntry, HeadAfter

\* A count that changes stays a count, and a queue that is none does not matter.
LEMMA CountsStay ==
  ASSUME NEW S, NEW f \in [S -> Int], NEW q, NEW n, q \in S => n \in Int
  PROVE  [f EXCEPT ![q] = n] \in [S -> Int]
OBVIOUS

\* Every step keeps the types.
LEMMA TypesKept == CqTypeOK /\ CqNext => CqTypeOK'
<1> SUFFICES ASSUME CqTypeOK, CqNext PROVE CqTypeOK'
  OBVIOUS
<1>1. /\ setup' = setup /\ setup' \in Setups
      /\ Ring' = Ring /\ Tags' = Tags
  BY SetupStays DEF CqTypeOK, CqNext
<1> USE <1>1
<1>2. ASSUME Look PROVE CqTypeOK'
  BY <1>2 DEF CqTypeOK, Look, device, bells
<1>3. ASSUME ReadEntry PROVE CqTypeOK'
  <2>1. host' \in [head : Ring, phase : {0, 1}, looking : BOOLEAN]
    <3>1. host \in [head : Ring, phase : {0, 1}, looking : BOOLEAN]
      BY DEF CqTypeOK
    <3>2. CASE host.head + 1 = Size
      <4>1. 0 \in Ring /\ 1 - host.phase \in {0, 1}
        BY <3>1, Sizes DEF Ring
      <4>2. host' = [host EXCEPT !.head = 0, !.phase = 1 - @]
        BY <1>3, <3>2 DEF ReadEntry
      <4> QED
        BY <3>1, <4>1, <4>2
    <3>3. CASE host.head + 1 # Size
      <4>1. host.head + 1 \in Ring
        BY <3>1, <3>3, Sizes DEF Ring
      <4>2. host' = [host EXCEPT !.head = @ + 1]
        BY <1>3, <3>3 DEF ReadEntry
      <4> QED
        BY <3>1, <4>1, <4>2
    <3> QED
      BY <3>2, <3>3
  <2> QED
    BY <1>3, <2>1 DEF CqTypeOK, ReadEntry, device, bells
<1>4. ASSUME RingDoorbell PROVE CqTypeOK'
  BY <1>4 DEF CqTypeOK, RingDoorbell, device
<1>5. ASSUME Acknowledge PROVE CqTypeOK'
  <2>1. nr_in_flight' \in [setup.sqs -> Int]
    <3> DEFINE q == entries[old_db].tag[1]
               n == nr_in_flight[q] - 1
    <3>1. nr_in_flight' = [nr_in_flight EXCEPT ![q] = n]
      BY <1>5 DEF Acknowledge
    <3>2. nr_in_flight \in [setup.sqs -> Int] /\ (q \in setup.sqs => n \in Int)
      BY DEF CqTypeOK
    <3> HIDE DEF q, n
    <3> QED
      BY <3>1, <3>2, CountsStay
  <2>2. old_db' \in Ring
    BY <1>5, RingGoesOn DEF CqTypeOK, Acknowledge
  <2> QED
    BY <1>5, <2>1, <2>2 DEF CqTypeOK, Acknowledge, device
<1>6. ASSUME NEW t \in Tags, Submit(t) PROVE CqTypeOK'
  <2>1. nr_in_flight' \in [setup.sqs -> Int]
    <3> DEFINE q == t[1]
               n == nr_in_flight[q] + 1
    <3>1. nr_in_flight' = [nr_in_flight EXCEPT ![q] = n]
      BY <1>6 DEF Submit
    <3>2. nr_in_flight \in [setup.sqs -> Int] /\ (q \in setup.sqs => n \in Int)
      BY DEF CqTypeOK
    <3> HIDE DEF q, n
    <3> QED
      BY <3>1, <3>2, CountsStay
  <2> QED
    BY <1>6, <2>1 DEF CqTypeOK, Submit, device, bells
<1>7. ASSUME NEW w \in Workers, FillStatus(w) PROVE CqTypeOK'
  <2>1. io_workers[w].head \in Ring /\ io_workers[w].tag \in Tags \cup {NoTag}
    BY DEF CqTypeOK
  <2>2. entries' \in [Ring -> [tag : Tags \cup {NoTag}, phase : {0, 1}, result : Tags \cup {NoTag}]]
    <3> DEFINE h == io_workers[w].head
               t == io_workers[w].tag
    <3>1. /\ entries' = [entries EXCEPT ![h].tag = t, ![h].phase = cq.phase]
          /\ h \in Ring /\ t \in Tags \cup {NoTag} /\ cq.phase \in {0, 1}
      BY <1>7, <2>1 DEF CqTypeOK, FillStatus
    <3>2. entries \in [Ring -> [tag : Tags \cup {NoTag}, phase : {0, 1}, result : Tags \cup {NoTag}]]
      BY DEF CqTypeOK
    <3> HIDE DEF h, t
    <3> QED
      BY <3>1, <3>2
  <2>3. io_workers' \in [Workers -> [pc : {"rest", "lock", "locked", "signal"},
                                    tag : Tags \cup {NoTag}, head : Ring]]
    <3>1. io_workers' = [io_workers EXCEPT ![w].pc = "locked"]
      BY <1>7 DEF FillStatus
    <3>2. io_workers \in [Workers -> [pc : {"rest", "lock", "locked", "signal"},
                                  tag : Tags \cup {NoTag}, head : Ring]]
      BY DEF CqTypeOK
    <3> QED
      BY <3>1, <3>2
  <2> QED
    BY <1>7, <2>2, <2>3 DEF CqTypeOK, FillStatus, bells
<1>8. Resting \in [pc : {"rest", "lock", "locked", "signal"}, tag : Tags \cup {NoTag}, head : Ring]
  BY Sizes DEF Resting, Ring
<1>9. ASSUME NEW w \in Workers, FillResult(w) PROVE CqTypeOK'
  <2>1. io_workers[w].head \in Ring /\ io_workers[w].tag \in Tags \cup {NoTag} /\ cq.phase \in {0, 1}
    BY DEF CqTypeOK
  <2>2. entries' \in [Ring -> [tag : Tags \cup {NoTag}, phase : {0, 1}, result : Tags \cup {NoTag}]]
    BY <1>9, <2>1 DEF CqTypeOK, FillResult
  <2>3. io_workers' \in [Workers -> [pc : {"rest", "lock", "locked", "signal"},
                                    tag : Tags \cup {NoTag}, head : Ring]]
    BY <1>8, <1>9 DEF CqTypeOK, FillResult, Resumes
  <2>4. cq' \in [head : Ring, phase : {0, 1}, interrupt_ready : BOOLEAN]
    BY <1>9, <2>1, RingGoesOn DEF FillResult
  <2> QED
    BY <1>9, <2>2, <2>3, <2>4 DEF CqTypeOK, FillResult, bells
<1>10. ASSUME NEW w \in Workers, Signal(w) PROVE CqTypeOK'
  <2>1. io_workers' \in [Workers -> [pc : {"rest", "lock", "locked", "signal"},
                                    tag : Tags \cup {NoTag}, head : Ring]]
    BY <1>8, <1>10 DEF CqTypeOK, Signal, Resumes
  <2> QED
    BY <1>10, <2>1 DEF CqTypeOK, Signal, bells
<1>11. ASSUME NEW w \in Workers, BeginSignal(w) PROVE CqTypeOK'
  <2>1. io_workers' \in [Workers -> [pc : {"rest", "lock", "locked", "signal"},
                                    tag : Tags \cup {NoTag}, head : Ring]]
    <3>1. io_workers' = [io_workers EXCEPT ![w].pc = "signal"]
      BY <1>11 DEF BeginSignal
    <3>2. io_workers \in [Workers -> [pc : {"rest", "lock", "locked", "signal"},
                                  tag : Tags \cup {NoTag}, head : Ring]]
      BY DEF CqTypeOK
    <3> QED
      BY <3>1, <3>2
  <2>2. cq' \in [head : Ring, phase : {0, 1}, interrupt_ready : BOOLEAN]
    BY <1>11 DEF CqTypeOK, BeginSignal
  <2> QED
    BY <1>11, <2>1, <2>2 DEF CqTypeOK, BeginSignal, bells
<1>12. ASSUME NEW w \in Workers, NEW t \in Tags, BeginFill(w, t) PROVE CqTypeOK'
  <2>1. io_workers' \in [Workers -> [pc : {"rest", "lock", "locked", "signal"},
                                    tag : Tags \cup {NoTag}, head : Ring]]
    BY <1>12 DEF CqTypeOK, BeginFill
  <2> QED
    BY <1>12, <2>1 DEF CqTypeOK, BeginFill, bells
<1> QED
  BY <1>2, <1>3, <1>4, <1>5, <1>6, <1>7, <1>9, <1>10, <1>11, <1>12 DEF CqNext, Host, Filling

-----------------------------------------------------------------------------
(* Steps that leave the ring and the commands alone.                       *)

\* The workers' records, as functions.
LEMMA WorkerRecords ==
  ASSUME CqTypeOK
  PROVE  io_workers \in [Workers -> [pc : {"rest", "lock", "locked", "signal"},
                                    tag : Tags \cup {NoTag}, head : Ring]]
BY DEF CqTypeOK

\* A step keeps the ring if it moves no command, no entry and no position.
LEMMA QuietSteps ==
  ASSUME RingOK, UNCHANGED <<setup, entries, outstanding, queued>>,
         host'.head = host.head, host'.phase = host.phase,
         cq'.head = cq.head, cq'.phase = cq.phase,
         \A w \in Workers : \/ io_workers'[w] = io_workers[w]
                            \/ /\ io_workers[w].pc \notin {"lock", "locked"}
                               /\ io_workers'[w].pc \notin {"lock", "locked"}
  PROVE  RingOK'
<1>1. Size' = Size /\ Ring' = Ring /\ Tags' = Tags
  BY SetupStays
<1>2. Shown' = Shown
  BY <1>1 DEF Shown
<1>3. Hand' = Hand
  BY DEF Hand
<1>4. Writing' <=> Writing
  BY DEF Writing
<1>5. HandsOK'
  BY <1>1 DEF RingOK, HandsOK
<1>6. PICK d \in Int, n \in Int : Window(d, n)
  BY DEF RingOK
<1>7. Window(d, n)'
  BY <1>1, <1>2, <1>3, <1>4, <1>6 DEF Window
<1> QED
  BY <1>5, <1>6, <1>7 DEF RingOK

\* The host begins or ends looking, the dispatcher acknowledges.
LEMMA LookKeeps == CqTypeOK /\ RingOK /\ UNCHANGED setup /\ (Look \/ RingDoorbell \/ Acknowledge) => RingOK'
<1> SUFFICES ASSUME CqTypeOK, RingOK, UNCHANGED setup, Look \/ RingDoorbell \/ Acknowledge
             PROVE  RingOK'
  OBVIOUS
<1>1. host'.head = host.head /\ host'.phase = host.phase
  BY DEF CqTypeOK, Look, RingDoorbell, Acknowledge
<1>2. UNCHANGED <<device, outstanding, queued>>
  BY DEF Look, RingDoorbell, Acknowledge
<1> QED
  BY <1>1, <1>2, QuietSteps DEF device

\* A worker raises an interrupt.
LEMMA SignalKeeps ==
  ASSUME CqTypeOK, RingOK, UNCHANGED setup, NEW w \in Workers, BeginSignal(w) \/ Signal(w)
  PROVE  RingOK'
<1>1. cq'.head = cq.head /\ cq'.phase = cq.phase
  BY DEF CqTypeOK, BeginSignal, Signal
<1>2. UNCHANGED <<entries, host, outstanding, queued>>
  BY DEF BeginSignal, Signal
<1>3. /\ io_workers[w].pc \notin {"lock", "locked"} /\ io_workers'[w].pc \notin {"lock", "locked"}
      /\ \A v \in Workers : v # w => io_workers'[v] = io_workers[v]
  BY WorkerRecords DEF BeginSignal, Signal, Resumes, Resting
<1> QED
  BY <1>1, <1>2, <1>3, QuietSteps

-----------------------------------------------------------------------------
(* Steps that move a command.                                              *)

\* A new command is put into a list.
LEMMA SubmitKeeps ==
  ASSUME CqTypeOK, RingOK, UNCHANGED setup, NEW t \in Tags, Submit(t)
  PROVE  RingOK'
<1>1. /\ t \notin outstanding /\ outstanding' = outstanding \cup {t} /\ queued' = queued \cup {t}
      /\ UNCHANGED <<io_workers, cq, entries, host>>
  BY DEF Submit, device
<1>2. Size' = Size /\ Ring' = Ring /\ Tags' = Tags
  BY SetupStays
<1>3. /\ Shown' = Shown /\ Hand' = Hand /\ (Writing' <=> Writing) /\ HandsOK'
  BY <1>1, <1>2 DEF Shown, Hand, Writing, HandsOK, RingOK
<1>4. PICK d \in Int, n \in Int : Window(d, n)
  BY DEF RingOK
<1>5. Located(outstanding', queued', Hand, n, Shown)
  BY <1>1, <1>4 DEF Window, Located
<1>6. Window(d, n)'
  BY <1>1, <1>2, <1>3, <1>4, <1>5 DEF Window
<1> QED
  BY <1>3, <1>6 DEF RingOK

\* A worker takes a command and the head of the ring.
LEMMA BeginFillKeeps ==
  ASSUME OneFiller, CqTypeOK, RingOK, UNCHANGED setup, NEW w \in Workers, NEW t \in Tags, BeginFill(w, t)
  PROVE  RingOK'
<1>1. /\ io_workers[w].pc = "rest" /\ t \in queued /\ __get_io_worker(t[1]) = w
      /\ queued' = queued \ {t}
      /\ io_workers' = [io_workers EXCEPT ![w] = [pc |-> "lock", tag |-> t, head |-> cq.head]]
      /\ UNCHANGED <<outstanding, cq, entries, host>>
  BY DEF BeginFill
<1>2. /\ Size' = Size /\ Ring' = Ring /\ Tags' = Tags
      /\ Shown' = Shown
  BY <1>1, SetupStays DEF Shown
<1>3. /\ io_workers'[w] = [pc |-> "lock", tag |-> t, head |-> cq.head]
      /\ \A v \in Workers : v # w => io_workers'[v] = io_workers[v]
  BY <1>1, WorkerRecords
<1>4. \A v \in Workers : io_workers[v].pc \notin {"lock", "locked"}
  <2> SUFFICES ASSUME NEW v \in Workers, io_workers[v].pc \in {"lock", "locked"} PROVE FALSE
    OBVIOUS
  <2>1. io_workers[v].tag[1] \in setup.sqs /\ __get_io_worker(io_workers[v].tag[1]) = v
    BY DEF RingOK, HandsOK, Tags, TagsOf
  <2>2. t[1] \in setup.sqs
    BY DEF Tags, TagsOf
  <2>3. v = w
    BY <1>1, <2>1, <2>2 DEF OneFiller, CqTypeOK
  <2> QED
    BY <1>1, <2>3
<1>5. Hand = {} /\ Hand' = {t} /\ ~Writing /\ ~Writing'
  BY <1>3, <1>4 DEF Hand, Writing
<1>6. HandsOK'
  BY <1>1, <1>2, <1>3, <1>4 DEF HandsOK
<1>7. PICK d \in Int, n \in Int : Window(d, n)
  BY DEF RingOK
<1>8. Located(outstanding, queued', {t}, n, Shown)
  BY <1>1, <1>5, <1>7 DEF Window, Located
<1>9. Window(d, n)'
  BY <1>1, <1>2, <1>5, <1>7, <1>8 DEF Window
<1> QED
  BY <1>6, <1>9 DEF RingOK

\* The entry at the head becomes one the host has not read.
LEMMA FillStatusKeeps ==
  ASSUME OneFiller, CqTypeOK, RingOK, UNCHANGED setup, NEW w \in Workers, FillStatus(w)
  PROVE  RingOK'
<1> DEFINE t == io_workers[w].tag
<1>1. /\ io_workers[w].pc = "lock" /\ \A v \in Workers : io_workers[v].pc # "locked"
      /\ io_workers' = [io_workers EXCEPT ![w].pc = "locked"]
      /\ entries' = [entries EXCEPT ![io_workers[w].head].tag = t, ![io_workers[w].head].phase = cq.phase]
      /\ UNCHANGED <<outstanding, queued, cq, host>>
  BY DEF FillStatus
<1>2. Size' = Size /\ Ring' = Ring /\ Tags' = Tags /\ Size \in Nat /\ Size > 1
  BY SetupStays, Sizes DEF CqTypeOK
<1>3. /\ io_workers'[w].pc = "locked" /\ io_workers'[w].tag = t /\ io_workers'[w].head = io_workers[w].head
      /\ \A v \in Workers : v # w => io_workers'[v] = io_workers[v]
  BY <1>1, WorkerRecords
<1>4. \A v \in Workers : v # w => io_workers[v].pc \notin {"lock", "locked"}
  BY <1>1, OneWorkerFills DEF RingOK, CqTypeOK
<1>5. /\ ~Writing /\ Writing' /\ Hand = {t} /\ Hand' = {}
  BY <1>1, <1>3, <1>4 DEF Hand, Writing
<1>6. PICK d \in Int, n \in Int : Window(d, n)
  BY DEF RingOK
<1>7. /\ d = n /\ d \in 0 .. Size - 1 /\ d \in Ring
      /\ io_workers[w].head = At(Size, host.head, d) /\ io_workers[w].head \in Ring
      /\ cq.phase = PhaseAt(Size, host.head, host.phase, d)
  BY <1>1, <1>2, <1>5, <1>6 DEF Window, RingOK, HandsOK, CqTypeOK, Ring
<1>8. /\ entries'[io_workers[w].head].tag = t
      /\ entries'[io_workers[w].head].phase = cq.phase
      /\ \A i \in Ring : i # io_workers[w].head => entries'[i] = entries[i]
  BY <1>1, <1>7 DEF CqTypeOK
<1>9. host.head \in 0 .. Size - 1
  BY DEF CqTypeOK, Ring
<1>10. /\ Shown'[d].tag = t /\ Shown'[d].phase = PhaseAt(Size, host.head, host.phase, d)
       /\ \A k \in Ring : k # d => Shown'[k] = Shown[k]
  <2>1. \A k \in Ring : At(Size, host.head, k) \in Ring
    BY RingPlaces
  <2>2. \A k \in Ring : k # d => At(Size, host.head, k) # io_workers[w].head
    BY <1>7, RingPlaces
  <2> QED
    BY <1>1, <1>2, <1>7, <1>8, <2>1, <2>2 DEF Shown
<1>11. HandsOK'
  <2>1. /\ t \in Tags /\ __get_io_worker(t[1]) = w /\ io_workers[w].head = cq.head
    BY <1>1 DEF RingOK, HandsOK
  <2>2. \A v \in Workers : io_workers'[v].pc \in {"lock", "locked"} => v = w
    BY <1>3, <1>4
  <2>3. /\ io_workers'[w].tag \in Tags' /\ __get_io_worker(io_workers'[w].tag[1]) = w
        /\ io_workers'[w].head = cq'.head
        /\ entries'[io_workers'[w].head].tag = io_workers'[w].tag
    <3>1. io_workers'[w].tag \in Tags'
      BY <1>2, <1>3, <2>1
    <3>2. __get_io_worker(io_workers'[w].tag[1]) = w
      BY <1>3, <2>1
    <3>3. io_workers'[w].head = cq'.head
      BY <1>1, <1>3, <2>1
    <3>4. entries'[io_workers'[w].head].tag = io_workers'[w].tag
      BY <1>3, <1>8
    <3> QED
      BY <3>1, <3>2, <3>3, <3>4
  <2> HIDE DEF t
  <2>4. ASSUME NEW v \in Workers, io_workers'[v].pc \in {"lock", "locked"}
        PROVE  /\ io_workers'[v].tag \in Tags' /\ __get_io_worker(io_workers'[v].tag[1]) = v
               /\ io_workers'[v].head = cq'.head
               /\ entries'[io_workers'[v].head].tag = io_workers'[v].tag
    BY <2>2, <2>3, <2>4
  <2> QED
    BY <2>4 DEF HandsOK, __get_io_worker
<1>12. \A k \in 0 .. d - 1 : k \in Ring /\ k # d
  BY <1>2, <1>7 DEF Ring
<1>13. Located(outstanding, queued, {}, d + 1, Shown')
  <2>1. Located(outstanding, queued, {t}, d, Shown)
    BY <1>5, <1>6, <1>7 DEF Window
  <2>2. 0 .. (d + 1) - 1 = (0 .. d - 1) \cup {d}
    BY <1>7
  <2>3. {Shown'[k].tag : k \in 0 .. (d + 1) - 1} = {Shown[k].tag : k \in 0 .. d - 1} \cup {t}
    BY <1>10, <1>12, <2>2
  <2> QED
    BY <1>10, <1>12, <2>1, <2>2, <2>3 DEF Located
<1>14. /\ \A k \in Ring : Shown'[k].phase = PhaseAt(Size, host.head, host.phase, k) <=> k < d + 1
       /\ \A k \in 0 .. (d + 1) - 1 : k = d \/ Shown'[k].result = Shown'[k].tag
  <2>1. /\ \A k \in Ring : Shown[k].phase = PhaseAt(Size, host.head, host.phase, k) <=> k < d
        /\ \A k \in 0 .. d - 1 : k = d \/ Shown[k].result = Shown[k].tag
    BY <1>6, <1>7 DEF Window
  <2>2. \A k \in 0 .. (d + 1) - 1 : k = d \/ k \in 0 .. d - 1
    BY <1>7
  <2>3. \A k \in Ring : k # d => (k < d + 1 <=> k < d)
    BY <1>7 DEF Ring
  <2> QED
    BY <1>7, <1>10, <1>12, <2>1, <2>2, <2>3
<1>15. Window(d, d + 1)'
  BY <1>1, <1>2, <1>5, <1>6, <1>7, <1>13, <1>14 DEF Window
<1> QED
  BY <1>11, <1>15 DEF RingOK

\* The result is filled in, and the head goes on.
LEMMA FillResultKeeps ==
  ASSUME OneFiller, CqTypeOK, RingOK, UNCHANGED setup, NEW w \in Workers, FillResult(w)
  PROVE  RingOK'
<1> DEFINE t == io_workers[w].tag
           i == io_workers[w].head
<1>1. /\ io_workers[w].pc = "locked"
      /\ io_workers' = [io_workers EXCEPT ![w] = Resting]
      /\ entries' = [entries EXCEPT ![i].result = t]
      /\ cq' = HeadAfter(i)
      /\ UNCHANGED <<outstanding, queued, host>>
  BY DEF FillResult, Resumes
<1>2. Size' = Size /\ Ring' = Ring /\ Tags' = Tags /\ Size \in Nat /\ Size > 1
  BY SetupStays, Sizes DEF CqTypeOK
<1>3. /\ io_workers'[w].pc = "rest"
      /\ \A v \in Workers : v # w => io_workers'[v] = io_workers[v]
  BY <1>1, WorkerRecords DEF Resting
<1>4. \A v \in Workers : v # w => io_workers[v].pc \notin {"lock", "locked"}
  BY <1>1, OneWorkerFills DEF RingOK, CqTypeOK
<1>5. /\ Writing /\ ~Writing' /\ Hand = {} /\ Hand' = {}
  BY <1>1, <1>3, <1>4 DEF Hand, Writing
<1>6. HandsOK'
  BY <1>3, <1>4 DEF HandsOK
<1>7. PICK d \in Int, n \in Int : Window(d, n)
  BY DEF RingOK
<1>8. n < Size
  BY <1>7, NeverFull DEF Window, CqTypeOK
<1>9. /\ n = d + 1 /\ d \in -1 .. Size - 2 /\ i = At(Size, host.head, d) /\ entries[i].tag = t
      /\ cq.phase = PhaseAt(Size, host.head, host.phase, d)
  BY <1>1, <1>2, <1>5, <1>7, <1>8 DEF Window, RingOK, HandsOK
<1>10. host.head \in 0 .. Size - 1 /\ host.phase \in {0, 1} /\ i \in Ring
  BY DEF CqTypeOK, Ring
<1>11. /\ cq'.head = At(Size, host.head, d + 1)
       /\ cq'.phase = PhaseAt(Size, host.head, host.phase, d + 1)
  <2>1. LET j == At(Size, host.head, d)
        IN  /\ At(Size, host.head, d + 1) = IF j + 1 = Size THEN 0 ELSE j + 1
            /\ PhaseAt(Size, host.head, host.phase, d + 1) =
                 IF j + 1 = Size THEN 1 - PhaseAt(Size, host.head, host.phase, d)
                                 ELSE PhaseAt(Size, host.head, host.phase, d)
    BY <1>2, <1>9, <1>10, HeadMoves
  <2> QED
    BY <1>1, <1>9, <2>1 DEF HeadAfter
<1>12. /\ entries'[i].tag = t /\ entries'[i].result = t /\ entries'[i].phase = entries[i].phase
       /\ \A j \in Ring : j # i => entries'[j] = entries[j]
  BY <1>1, <1>9, <1>10 DEF CqTypeOK
<1>13. ASSUME NEW k \in Ring
       PROVE  /\ Shown'[k].tag = Shown[k].tag /\ Shown'[k].phase = Shown[k].phase
              /\ k = d => Shown'[k].result = Shown'[k].tag
              /\ k < d => Shown'[k] = Shown[k]
  <2> DEFINE j == At(Size, host.head, k)
  <2>1. j \in Ring /\ Shown[k] = entries[j] /\ Shown'[k] = entries'[j]
    BY <1>1, <1>2, RingPlaces DEF Shown
  <2>2. k = d => j = i
    BY <1>9
  <2>3. k < d => j # i
    <3>1. k < d => d \in Ring /\ k # d
      BY <1>2, <1>9 DEF Ring
    <3> QED
      BY <1>9, <3>1, RingPlaces
  <2> HIDE DEF j
  <2> QED
    BY <1>9, <1>12, <2>1, <2>2, <2>3
<1>14. \A k \in 0 .. n - 1 : k \in Ring /\ (k = d \/ k < d)
  BY <1>2, <1>9 DEF Ring
<1>15. Located(outstanding, queued, {}, n, Shown')
  <2>1. Located(outstanding, queued, {}, n, Shown)
    BY <1>5, <1>7 DEF Window
  <2>2. \A k \in 0 .. n - 1 : Shown'[k].tag = Shown[k].tag
    BY <1>13, <1>14
  <2> QED
    BY <2>1, <2>2 DEF Located
<1>16. /\ \A k \in Ring : Shown'[k].phase = PhaseAt(Size, host.head, host.phase, k) <=> k < n
       /\ \A k \in 0 .. n - 1 : k = d + 1 \/ Shown'[k].result = Shown'[k].tag
  BY <1>7, <1>13, <1>14 DEF Window
<1>17. Window(d + 1, n)'
  BY <1>1, <1>2, <1>5, <1>8, <1>9, <1>11, <1>15, <1>16 DEF Window
<1> QED
  BY <1>6, <1>9, <1>17 DEF RingOK

\* The host takes its next entry, and everything is one nearer.
LEMMA ReadKeeps == CqTypeOK /\ RingOK /\ UNCHANGED setup /\ ReadEntry => RingOK'
<1> SUFFICES ASSUME CqTypeOK, RingOK, UNCHANGED setup, ReadEntry PROVE RingOK'
  OBVIOUS
<1> DEFINE h  == host.head
           p  == host.phase
           h2 == host'.head
           p2 == host'.phase
           s  == Size
<1>1. /\ entries[h].phase = p /\ outstanding' = outstanding \ {entries[h].tag}
      /\ UNCHANGED <<queued, io_workers, cq, entries>>
  BY DEF ReadEntry, Turned, device
<1>2. Size' = s /\ Ring' = Ring /\ Tags' = Tags /\ s \in Nat /\ s > 1
      /\ h \in 0 .. s - 1 /\ p \in {0, 1}
  BY SetupStays, RingPlaces
<1>3. h2 = (IF h + 1 = s THEN 0 ELSE h + 1) /\ p2 = (IF h + 1 = s THEN 1 - p ELSE p)
  <2>1. host \in [head : Ring, phase : {0, 1}, looking : BOOLEAN]
    BY DEF CqTypeOK
  <2> QED
    BY <2>1 DEF ReadEntry
<1>4. PICK d \in Int, n \in Int : Window(d, n)
  BY DEF RingOK
<1> HIDE DEF h, p, h2, p2, s
<1>5. /\ \A k \in -1 .. s - 2 : /\ At(s, h2, k) = At(s, h, k + 1)
                                /\ PhaseAt(s, h2, p2, k) = PhaseAt(s, h, p, k + 1)
      /\ At(s, h2, s - 1) = h
      /\ PhaseAt(s, h2, p2, s - 1) = 1 - p
  BY <1>2, <1>3, HostMoves
<1>6. /\ 0 \in Ring /\ Shown[0] = entries[h] /\ Shown[0].phase = PhaseAt(s, h, p, 0)
  BY <1>1, <1>2, RingPlaces DEF Shown, Ring, PhaseAt, h, s
<1>7. /\ d \in -1 .. s - 1 /\ n \in 0 .. s /\ n = (IF Writing THEN d + 1 ELSE d)
      /\ cq.head = At(s, h, d) /\ cq.phase = PhaseAt(s, h, p, d)
      /\ \A k \in Ring : Shown[k].phase = PhaseAt(s, h, p, k) <=> k < n
      /\ \A k \in 0 .. n - 1 : k = d \/ Shown[k].result = Shown[k].tag
      /\ Located(outstanding, queued, Hand, n, Shown)
  BY <1>4 DEF Window, h, p, s
<1>8. n > 0 /\ d >= 0 /\ d - 1 \in -1 .. s - 2 /\ n - 1 \in 0 .. s - 1
  BY <1>2, <1>6, <1>7
<1>9. ASSUME NEW k \in 0 .. s - 2
      PROVE  /\ k \in Ring /\ k + 1 \in Ring /\ Shown'[k] = Shown[k + 1]
             /\ PhaseAt(s, h2, p2, k) = PhaseAt(s, h, p, k + 1)
  <2>1. k \in Ring /\ k + 1 \in Ring /\ k \in -1 .. s - 2
    BY <1>2 DEF Ring, s
  <2>2. Shown'[k] = entries[At(s, h2, k)] /\ Shown[k + 1] = entries[At(s, h, k + 1)]
    BY <1>1, <1>2, <2>1 DEF Shown, h, h2, s
  <2> QED
    BY <1>5, <2>1, <2>2
<1>10. s - 1 \in Ring /\ Shown'[s - 1] = Shown[0] /\ PhaseAt(s, h2, p2, s - 1) = 1 - p
  <2>1. s - 1 \in Ring
    BY <1>2 DEF Ring, s
  <2>2. Shown'[s - 1] = entries[At(s, h2, s - 1)]
    BY <1>1, <1>2, <2>1 DEF Shown, h2, s
  <2> QED
    BY <1>5, <1>6, <2>1, <2>2
<1>11. \A k \in Ring : k = s - 1 \/ k \in 0 .. s - 2
  BY <1>2 DEF Ring, s
<1>12. \A k \in Ring : Shown'[k].phase = PhaseAt(s, h2, p2, k) <=> k < n - 1
  <2> TAKE k \in Ring
  <2>1. CASE k = s - 1
    <3>1. Shown'[k].phase = p /\ PhaseAt(s, h2, p2, k) = 1 - p
      BY <1>1, <1>6, <1>10, <2>1
    <3>2. ~(k < n - 1)
      BY <1>2, <1>7, <2>1
    <3> QED
      BY <1>2, <3>1, <3>2
  <2>2. CASE k \in 0 .. s - 2
    <3>1. k + 1 < n <=> k < n - 1
      BY <1>2, <1>7, <2>2
    <3> QED
      BY <1>7, <1>9, <2>2, <3>1
  <2> QED
    BY <1>11, <2>1, <2>2
<1>13. \A k \in 0 .. (n - 1) - 1 : k \in 0 .. s - 2 /\ k + 1 \in 0 .. n - 1
  BY <1>2, <1>7
<1>14. \A k \in 0 .. (n - 1) - 1 : k = d - 1 \/ Shown'[k].result = Shown'[k].tag
  <2> TAKE k \in 0 .. (n - 1) - 1
  <2>1. k + 1 = d \/ Shown[k + 1].result = Shown[k + 1].tag
    BY <1>7, <1>13
  <2>2. Shown'[k] = Shown[k + 1]
    BY <1>9, <1>13
  <2> QED
    BY <1>7, <1>8, <2>1, <2>2
<1>15. Located(outstanding', queued, Hand, n - 1, Shown')
  <2>1. 0 \in 0 .. n - 1 /\ outstanding' = outstanding \ {Shown[0].tag}
    BY <1>1, <1>6, <1>7, <1>8
  <2>2. \A k \in 0 .. (n - 1) - 1 : Shown'[k].tag = Shown[k + 1].tag /\ k + 1 \in 0 .. n - 1 /\ k + 1 # 0
    BY <1>9, <1>13
  <2>3. \A k \in 0 .. n - 1 : k = 0 \/ (k - 1 \in 0 .. (n - 1) - 1 /\ Shown'[k - 1].tag = Shown[k].tag)
    <3> TAKE k \in 0 .. n - 1
    <3>1. k = 0 \/ (k - 1 \in 0 .. (n - 1) - 1 /\ (k - 1) + 1 = k)
      BY <1>7
    <3> QED
      BY <2>2, <3>1
  <2>4. outstanding' = queued \cup Hand \cup {Shown'[k].tag : k \in 0 .. (n - 1) - 1}
    <3>1. /\ outstanding = queued \cup Hand \cup {Shown[k].tag : k \in 0 .. n - 1}
          /\ Shown[0].tag \notin queued \cup Hand
          /\ \A k \in 0 .. n - 1 : Shown[k].tag = Shown[0].tag => k = 0
      BY <1>7, <2>1 DEF Located
    <3>2. {Shown[k].tag : k \in 0 .. n - 1} \ {Shown[0].tag}
             = {Shown'[k].tag : k \in 0 .. (n - 1) - 1}
      <4>1. ASSUME NEW x \in {Shown[k].tag : k \in 0 .. n - 1}, x # Shown[0].tag
            PROVE  x \in {Shown'[k].tag : k \in 0 .. (n - 1) - 1}
        <5>1. PICK k \in 0 .. n - 1 : x = Shown[k].tag
          BY <4>1
        <5>2. k - 1 \in 0 .. (n - 1) - 1 /\ x = Shown'[k - 1].tag
          BY <2>3, <4>1, <5>1
        <5> QED
          BY <5>2
      <4>2. ASSUME NEW x \in {Shown'[k].tag : k \in 0 .. (n - 1) - 1}
            PROVE  x \in {Shown[k].tag : k \in 0 .. n - 1} /\ x # Shown[0].tag
        <5>1. PICK k \in 0 .. (n - 1) - 1 : x = Shown'[k].tag
          BY <4>2
        <5>2. x = Shown[k + 1].tag /\ k + 1 \in 0 .. n - 1 /\ k + 1 # 0
          BY <2>2, <5>1
        <5> QED
          BY <3>1, <5>2
      <4> QED
        BY <4>1, <4>2
    <3> QED
      BY <2>1, <3>1, <3>2
  <2>5. \A k, l \in 0 .. (n - 1) - 1 : Shown'[k].tag = Shown'[l].tag => k = l
    <3> SUFFICES ASSUME NEW k \in 0 .. (n - 1) - 1, NEW l \in 0 .. (n - 1) - 1,
                        Shown'[k].tag = Shown'[l].tag
                 PROVE  k = l
      OBVIOUS
    <3>1. k + 1 = l + 1
      BY <1>7, <2>2 DEF Located
    <3> QED
      BY <3>1
  <2> QED
    BY <1>7, <2>2, <2>4, <2>5 DEF Located
<1>16. /\ Hand' = Hand /\ (Writing' <=> Writing) /\ HandsOK'
  BY <1>1, <1>2 DEF Hand, Writing, HandsOK, RingOK
<1>17. /\ cq'.head = At(s, h2, d - 1) /\ cq'.phase = PhaseAt(s, h2, p2, d - 1)
       /\ n - 1 = IF Writing THEN (d - 1) + 1 ELSE d - 1
  <2>1. (d - 1) + 1 = d
    BY <1>7
  <2> QED
    BY <1>1, <1>5, <1>7, <1>8, <2>1
<1>18. Window(d - 1, n - 1)'
  <2>1. d - 1 \in -1 .. s - 1 /\ n - 1 \in 0 .. s
    BY <1>2, <1>7, <1>8
  <2>2. Located(outstanding', queued', Hand', n - 1, Shown')
    BY <1>1, <1>15, <1>16
  <2> QED
    BY <1>1, <1>2, <1>12, <1>14, <1>16, <1>17, <2>1, <2>2 DEF Window, h2, p2, s
<1>19. \E e, m \in Int : Window(e, m)'
  <2>1. d - 1 \in Int /\ n - 1 \in Int
    BY <1>7
  <2> QED
    BY <1>18, <2>1
<1> QED
  BY <1>16, <1>19 DEF RingOK

-----------------------------------------------------------------------------
(* The theorems.                                                           *)

\* CqInv is inductive where one worker fills a ring.
THEOREM RingInvariant == OneFiller => (CqSpec => []CqInv)
<1> SUFFICES ASSUME OneFiller PROVE CqSpec => []CqInv
  OBVIOUS
<1>1. CqInit => CqInv
  <2> SUFFICES ASSUME CqInit PROVE CqInv
    OBVIOUS
  <2>1. setup \in Setups /\ Size \in Nat /\ Size > 1 /\ 0 \in Ring
    BY Sizes DEF CqInit, Ring
  <2>2. CqTypeOK
    <3>1. io_workers \in [Workers -> [pc : {"rest", "lock", "locked", "signal"},
                                     tag : Tags \cup {NoTag}, head : Ring]]
      BY <2>1 DEF CqInit, Resting
    <3>2. entries \in [Ring -> [tag : Tags \cup {NoTag}, phase : {0, 1},
                               result : Tags \cup {NoTag}]]
      BY DEF CqInit
    <3>3. nr_in_flight \in [setup.sqs -> Int]
      BY DEF CqInit
    <3> QED
      BY <2>1, <3>1, <3>2, <3>3 DEF CqInit, CqTypeOK
  <2>3. HandsOK /\ ~Writing /\ Hand = {}
    BY DEF CqInit, HandsOK, Writing, Hand, Resting
  <2>4. \A k \in Ring : Shown[k].phase = 0 /\ PhaseAt(Size, 0, 1, k) = 1
    BY <2>1, <2>2, RingPlaces DEF CqInit, Shown, Ring, PhaseAt
  <2>5. Located({}, {}, {}, 0, Shown)
    BY DEF Located
  <2>6. At(Size, 0, 0) = 0 /\ PhaseAt(Size, 0, 1, 0) = 1
    BY <2>1 DEF At, PhaseAt
  <2>7. Window(0, 0)
    BY <2>1, <2>3, <2>4, <2>5, <2>6 DEF CqInit, Window, Ring
  <2> QED
    BY <2>2, <2>3, <2>7 DEF CqInv, RingOK
<1>2. CqInv /\ [CqNext]_cqVars => CqInv'
  <2> SUFFICES ASSUME CqInv, [CqNext]_cqVars PROVE CqInv'
    OBVIOUS
  <2>1. CASE CqNext
    <3>1. CqTypeOK'
      BY <2>1, TypesKept DEF CqInv
    <3>2. RingOK'
      BY <2>1, LookKeeps, ReadKeeps, SubmitKeeps, BeginFillKeeps, FillStatusKeeps,
         FillResultKeeps, SignalKeeps
      DEF CqInv, CqNext, Host, Filling
    <3> QED
      BY <3>1, <3>2 DEF CqInv
  <2>2. CASE UNCHANGED cqVars
    <3>1. RingOK'
      BY <2>2, QuietSteps DEF CqInv, cqVars, device
    <3>2. CqTypeOK'
      BY <2>2, SetupStays DEF CqInv, CqTypeOK, cqVars, device, bells
    <3> QED
      BY <3>1, <3>2 DEF CqInv
  <2> QED
    BY <2>1, <2>2
<1> QED
  BY <1>1, <1>2, PTL DEF CqSpec

\* The host reads the places of the ring in the order they are ahead.
LEMMA UnreadInWindow ==
  ASSUME CqTypeOK, NEW d \in Int, NEW n \in Int, Window(d, n)
  PROVE  /\ \A k \in Ring : Ahead(k) = At(Size, host.head, k) /\ entries[Ahead(k)] = Shown[k]
         /\ UnreadAt = 0 .. n - 1
         /\ 0 .. n - 1 \subseteq Ring
<1>1. /\ Size \in Nat /\ Size > 1 /\ host.head \in 0 .. Size - 1
  BY RingPlaces
<1>2. ASSUME NEW k \in Ring
      PROVE  Ahead(k) = At(Size, host.head, k) /\ entries[Ahead(k)] = Shown[k]
  <2>1. k \in 0 .. Size - 1 /\ host.head + k \in 0 .. 2 * Size - 1
    BY <1>1 DEF Ring
  <2>2. (host.head + k) % Size = IF host.head + k < Size THEN host.head + k ELSE host.head + k - Size
    <3> DEFINE s == Size
               m == host.head + k
    <3>1. s \in Nat /\ s > 1 /\ m \in 0 .. 2 * s - 1
      BY <1>1, <2>1
    <3> HIDE DEF s, m
    <3>2. m % s = IF m < s THEN m ELSE m - s
      BY <3>1, Remainder
    <3> QED
      BY <1>1, <2>1, <3>2 DEF s, m, Ring
  <2> QED
    BY <1>1, <2>1, <2>2 DEF Ahead, At, Shown
<1>3. ASSUME NEW k \in Ring
      PROVE  Unread(k) <=> k < n
  <2>1. k \in 0 .. Size - 1
    BY DEF Ring
  <2>2. Unread(k) <=> Shown[k].phase = PhaseAt(Size, host.head, host.phase, k)
    BY <1>1, <1>2, <2>1 DEF Unread, PhaseAt
  <2> QED
    BY <2>2 DEF Window
<1>4. n \in 0 .. Size
  BY DEF Window
<1>5. 0 .. n - 1 \subseteq Ring
  BY <1>1, <1>4 DEF Ring
<1>6. \A k \in Ring : k < n <=> k \in 0 .. n - 1
  BY <1>1, <1>4 DEF Ring
<1> QED
  BY <1>2, <1>3, <1>5, <1>6 DEF UnreadAt

\* A set has one element or none.
LEMMA AtMostOne ==
  ASSUME NEW S, \A x, y \in S : x = y
  PROVE  Cardinality(S) = IF S = {} THEN 0 ELSE 1
<1>1. CASE S = {}
  BY <1>1, FS_EmptySet
<1>2. CASE S # {}
  <2>1. PICK x : x \in S
    BY <1>2
  <2>2. S = {x}
    BY <2>1
  <2> QED
    BY <1>2, <2>2, FS_Singleton
<1> QED
  BY <1>1, <1>2

\* A command is in as many places as it should be.
LEMMA PlacesAreRight ==
  ASSUME OneFiller, CqInv, NEW t \in Tags
  PROVE  Places(t) = IF t \in outstanding THEN 1 ELSE 0
<1>1. PICK d \in Int, n \in Int : Window(d, n)
  BY DEF CqInv, RingOK
<1> DEFINE A == {t} \cap queued
           B == {w \in Workers : io_workers[w].pc = "lock" /\ io_workers[w].tag = t}
           C == {k \in UnreadAt : entries[Ahead(k)].tag = t}
<1>2. C = {k \in 0 .. n - 1 : Shown[k].tag = t}
  BY <1>1, UnreadInWindow DEF CqInv
<1>3. Located(outstanding, queued, Hand, n, Shown)
  BY <1>1 DEF Window
<1>4. A # {} <=> t \in queued
  OBVIOUS
<1>5. B # {} <=> t \in Hand
  BY DEF Hand
<1>6. C # {} <=> t \in {Shown[k].tag : k \in 0 .. n - 1}
  BY <1>2
<1>7. /\ Cardinality(A) = IF A = {} THEN 0 ELSE 1
      /\ Cardinality(B) = IF B = {} THEN 0 ELSE 1
      /\ Cardinality(C) = IF C = {} THEN 0 ELSE 1
  <2>1. \A x, y \in A : x = y
    OBVIOUS
  <2>2. \A x, y \in B : x = y
    BY OneWorkerFills DEF CqInv, CqTypeOK, RingOK
  <2>3. \A x, y \in C : x = y
    BY <1>2, <1>3 DEF Located
  <2> HIDE DEF A, B, C
  <2> QED
    BY <2>1, <2>2, <2>3, AtMostOne
<1>8. Places(t) = Cardinality(A) + Cardinality(B) + Cardinality(C)
  BY DEF Places
<1>9. /\ t \in outstanding <=> (A # {} \/ B # {} \/ C # {})
      /\ ~(A # {} /\ B # {}) /\ ~(A # {} /\ C # {}) /\ ~(B # {} /\ C # {})
  <2> HIDE DEF A, B
  <2>1. C # {} => t \notin queued \cup Hand
    BY <1>2, <1>3 DEF Located
  <2> HIDE DEF C
  <2> QED
    BY <1>3, <1>4, <1>5, <1>6, <2>1 DEF Located
<1> HIDE DEF A, B, C
<1> QED
  BY <1>7, <1>8, <1>9

\* For rings of any size, any number of queues and commands that are fewer than
\* the entries, and any number of workers of which one fills the ring: a
\* completion is neither overwritten unread nor seen twice, and is whole but for
\* the entry that is being written (__fill_cq_result, nvmev_proc_io_cq).
THEOREM CompletionsAreExact == OneFiller => (CqSpec => []CompletionsExact)
<1> SUFFICES ASSUME OneFiller PROVE CqSpec => []CompletionsExact
  OBVIOUS
<1>1. CqInv => CompletionsExact
  <2> SUFFICES ASSUME CqInv PROVE CompletionsExact
    OBVIOUS
  <2>1. PICK d \in Int, n \in Int : Window(d, n)
    BY DEF CqInv, RingOK
  <2>2. CqTypeOK /\ HandsOK
    BY DEF CqInv, RingOK
  <2>3. /\ \A k \in Ring : Ahead(k) = At(Size, host.head, k) /\ entries[Ahead(k)] = Shown[k]
        /\ UnreadAt = 0 .. n - 1
        /\ 0 .. n - 1 \subseteq Ring
    BY <2>1, <2>2, UnreadInWindow
  <2>4. UnreadAt = 0 .. Cardinality(UnreadAt) - 1
    <3>1. n \in Nat
      BY <2>1, RingPlaces, <2>2 DEF Window
    <3>2. Cardinality(0 .. n - 1) = IF 0 > n - 1 THEN 0 ELSE n - 1 - 0 + 1
      BY <3>1, FS_Interval
    <3>3. Cardinality(0 .. n - 1) = n
      BY <3>1, <3>2
    <3> QED
      BY <2>3, <3>3
  <2>5. \A t \in Tags : Places(t) = IF t \in outstanding THEN 1 ELSE 0
    BY PlacesAreRight
  <2>6. ASSUME NEW k \in UnreadAt
        PROVE  \/ entries[Ahead(k)].result = entries[Ahead(k)].tag
               \/ \E w \in Workers : io_workers[w].pc = "locked" /\ io_workers[w].head = Ahead(k)
    <3>1. k \in 0 .. n - 1 /\ k \in Ring
      BY <2>3
    <3>2. CASE Shown[k].result = Shown[k].tag
      BY <2>3, <3>1, <3>2
    <3>3. CASE Shown[k].result # Shown[k].tag
      <4>1. k = d
        BY <2>1, <3>1, <3>3 DEF Window
      <4>2. Writing /\ cq.head = Ahead(k)
        BY <2>1, <2>3, <3>1, <4>1 DEF Window
      <4> QED
        BY <2>2, <4>2 DEF Writing, HandsOK
    <3> QED
      BY <3>2, <3>3
  <2> QED
    BY <2>2, <2>4, <2>5, <2>6 DEF CompletionsExact
<1> QED
  BY <1>1, RingInvariant, PTL

-----------------------------------------------------------------------------
(* Sums.                                                                   *)

Chosen(Q) == CHOOSE x \in Q : TRUE

\* S sums f up over every set in DD.
Sums(S, f, DD) == \A Q \in DD : S[Q] = IF Q = {} THEN 0 ELSE f[Chosen(Q)] + S[Q \ {Chosen(Q)}]

\* What is left of a finite set without one of its elements.
LEMMA OneLess ==
  ASSUME NEW D, IsFiniteSet(D), NEW Q \in SUBSET D, Q # {}
  PROVE  /\ Chosen(Q) \in Q /\ Q \ {Chosen(Q)} \in SUBSET D
         /\ Cardinality(Q) \in Nat /\ Cardinality(Q \ {Chosen(Q)}) \in Nat
         /\ Cardinality(Q) = Cardinality(Q \ {Chosen(Q)}) + 1
<1>1. Chosen(Q) \in Q
  BY DEF Chosen
<1>2. IsFiniteSet(Q)
  BY FS_Subset
<1>3. PICK x : x = Chosen(Q)
  OBVIOUS
<1>4. Cardinality(Q \ {x}) = Cardinality(Q) - 1 /\ IsFiniteSet(Q \ {x})
  BY <1>1, <1>2, <1>3, FS_RemoveElement
<1>5. Cardinality(Q) \in Nat /\ Cardinality(Q \ {x}) \in Nat
  BY <1>2, <1>4, FS_CardinalityType
<1> QED
  BY <1>1, <1>3, <1>4, <1>5

\* SumOf sums up.
LEMMA SumOfSums ==
  ASSUME NEW D, IsFiniteSet(D), NEW f \in [D -> Int]
  PROVE  \E S : Sums(S, f, SUBSET D) /\ SumOf(f) = S[D]
<1> DEFINE Upto(m)  == {Q \in SUBSET D : Cardinality(Q) <= m}
           Is(g, m) == g = [Q \in Upto(m) |-> IF Q = {} THEN 0 ELSE f[Chosen(Q)] + g[Q \ {Chosen(Q)}]]
           Without  == {m \in Nat : ~\E g : Is(g, m)}
<1>1. Without = {}
  <2> SUFFICES ASSUME Without # {} PROVE FALSE
    OBVIOUS
  <2>1. PICK m \in Without : \A l \in Without : m <= l
    <3>1. Without \in SUBSET Nat
      OBVIOUS
    <3> HIDE DEF Without
    <3> QED
      BY <3>1, LeastNumber
  <2>2. m # 0
    <3>1. ASSUME NEW Q \in Upto(0) PROVE Q = {}
      <4>1. Q \in SUBSET D /\ Cardinality(Q) <= 0
        OBVIOUS
      <4> HIDE DEF Upto
      <4> SUFFICES ASSUME Q # {} PROVE FALSE
        OBVIOUS
      <4>2. PICK x : x = Chosen(Q)
        OBVIOUS
      <4>3. Cardinality(Q \ {x}) \in Nat /\ Cardinality(Q) = Cardinality(Q \ {x}) + 1
        BY <4>1, <4>2, OneLess
      <4> QED
        BY <4>1, <4>3
    <3>2. Is([Q \in Upto(0) |-> 0], 0)
      <4> HIDE DEF Upto
      <4> QED
        BY <3>1
    <3>3. \E g : Is(g, 0)
      <4> HIDE DEF Is
      <4> QED
        BY <3>2
    <3> HIDE DEF Is
    <3> QED
      BY <2>1, <3>3
  <2>3. PICK k \in Nat : m = k + 1 /\ k \notin Without
    <3>1. m \in Nat /\ m # 0
      BY <2>2
    <3> HIDE DEF Without
    <3>2. PICK k \in Nat : m = k + 1
      <4>1. m - 1 \in Nat /\ m = (m - 1) + 1
        BY <3>1
      <4> QED
        BY <4>1
    <3>3. k \notin Without
      BY <2>1, <3>2
    <3> QED
      BY <3>2, <3>3
  <2>4. PICK g : Is(g, k)
    BY <2>3
  <2> DEFINE h == [Q \in Upto(m) |-> IF Q = {} THEN 0 ELSE f[Chosen(Q)] + g[Q \ {Chosen(Q)}]]
  <2>5. ASSUME NEW Q \in Upto(m), Q # {}
        PROVE  h[Q \ {Chosen(Q)}] = g[Q \ {Chosen(Q)}]
    <3>1. Q \in SUBSET D /\ Cardinality(Q) <= m
      OBVIOUS
    <3>2. PICK R : R = Q \ {Chosen(Q)}
      OBVIOUS
    <3>3. R \in SUBSET D /\ Cardinality(R) \in Nat /\ Cardinality(Q) = Cardinality(R) + 1
      BY <2>5, <3>1, <3>2, OneLess
    <3>4. R \in Upto(k) /\ R \in Upto(m)
      BY <2>3, <3>1, <3>3
    <3>5. g[R] = IF R = {} THEN 0 ELSE f[Chosen(R)] + g[R \ {Chosen(R)}]
      BY <2>4, <3>4
    <3>6. h[R] = IF R = {} THEN 0 ELSE f[Chosen(R)] + g[R \ {Chosen(R)}]
      BY <3>4
    <3> HIDE DEF h, Upto
    <3> QED
      BY <3>2, <3>5, <3>6
  <2>6. Is(h, m)
    <3> HIDE DEF Upto
    <3> QED
      BY <2>5
  <2> HIDE DEF h
  <2> QED
    BY <2>1, <2>6
<1>2. IsFiniteSet(D) /\ Cardinality(D) \in Nat
  BY FS_CardinalityType
<1>3. Upto(Cardinality(D)) = SUBSET D
  <2>1. \A Q \in SUBSET D : Cardinality(Q) <= Cardinality(D)
    BY FS_Subset
  <2> QED
    BY <2>1
<1>4. PICK g : Is(g, Cardinality(D))
  BY <1>1, <1>2
<1>5. g = [Q \in SUBSET D |-> IF Q = {} THEN 0 ELSE f[Chosen(Q)] + g[Q \ {Chosen(Q)}]]
  BY <1>3, <1>4
<1> HIDE DEF Upto, Is, Without
<1> DEFINE S == CHOOSE h : h = [Q \in SUBSET D |-> IF Q = {} THEN 0 ELSE f[Chosen(Q)] + h[Q \ {Chosen(Q)}]]
<1>6. S = [Q \in SUBSET D |-> IF Q = {} THEN 0 ELSE f[Chosen(Q)] + S[Q \ {Chosen(Q)}]]
  BY <1>5
<1>7. SumOf(f) = S[D]
  <2>1. DOMAIN f = D
    OBVIOUS
  <2> QED
    BY ONLY <2>1 DEF SumOf, Chosen
<1> HIDE DEF S
<1>8. Sums(S, f, SUBSET D)
  BY <1>6 DEF Sums
<1> QED
  BY <1>7, <1>8

\* g is f but for a, where it has d more.
MovesBy(g, f, D, a, d) == \A x \in D : g[x] = IF x = a THEN f[x] + d ELSE f[x]

\* The sums of two functions that differ at one place.
LEMMA SumsDiffer ==
  ASSUME NEW D, IsFiniteSet(D), NEW f \in [D -> Int], NEW a \in D, NEW d \in Int,
         NEW g, MovesBy(g, f, D, a, d),
         NEW S, Sums(S, f, SUBSET D), NEW T, Sums(T, g, SUBSET D)
  PROVE  \A Q \in SUBSET D : S[Q] \in Int /\ T[Q] = S[Q] + (IF a \in Q THEN d ELSE 0)
<1> DEFINE Right(Q) == S[Q] \in Int /\ T[Q] = S[Q] + (IF a \in Q THEN d ELSE 0)
           Wrong    == {m \in Nat : \E Q \in SUBSET D : Cardinality(Q) = m /\ ~Right(Q)}
<1> SUFFICES ASSUME NEW P \in SUBSET D, ~Right(P) PROVE FALSE
  OBVIOUS
<1>1. Cardinality(P) \in Wrong
  BY FS_Subset, FS_CardinalityType
<1>2. PICK m \in Wrong : \A l \in Wrong : m <= l
  <2>1. Wrong \in SUBSET Nat
    OBVIOUS
  <2> HIDE DEF Wrong
  <2> QED
    BY <1>1, <2>1, LeastNumber
<1>3. PICK Q \in SUBSET D : Cardinality(Q) = m /\ ~Right(Q)
  BY <1>2
<1>4. Q # {}
  <2> SUFFICES ASSUME Q = {} PROVE FALSE
    OBVIOUS
  <2>1. S[Q] = 0 /\ T[Q] = 0
    BY DEF Sums
  <2> QED
    BY <1>3, <2>1
<1>5. PICK q : q = Chosen(Q)
  OBVIOUS
<1>6. PICK R : R = Q \ {q}
  OBVIOUS
<1>7. q \in Q /\ q \in D /\ R \in SUBSET D /\ Cardinality(R) \in Nat /\ Cardinality(Q) = Cardinality(R) + 1
  BY <1>4, <1>5, <1>6, OneLess
<1>8. Right(R)
  <2>1. Cardinality(R) \notin Wrong
    BY <1>2, <1>3, <1>7
  <2> HIDE DEF Right
  <2> QED
    BY <1>7, <2>1
<1>9. S[Q] = f[q] + S[R] /\ T[Q] = g[q] + T[R]
  BY <1>4, <1>5, <1>6 DEF Sums
<1>10. f[q] \in Int /\ g[q] = IF q = a THEN f[q] + d ELSE f[q]
  BY <1>7 DEF MovesBy
<1>11. a \in Q <=> (a = q \/ a \in R)
  BY <1>6, <1>7
<1>12. q \notin R
  BY <1>6
<1>13. Right(Q)
  <2> HIDE DEF Wrong
  <2> QED
    BY ONLY <1>8, <1>9, <1>10, <1>11, <1>12, d \in Int
<1> QED
  BY <1>3, <1>13

\* A sum moves by as much as one of its terms.
LEMMA SumMoves ==
  ASSUME NEW D, IsFiniteSet(D), NEW f \in [D -> Int], NEW a \in D, NEW d \in Int,
         NEW g \in [D -> Int], MovesBy(g, f, D, a, d)
  PROVE  SumOf(f) \in Int /\ SumOf(g) = SumOf(f) + d
<1>1. PICK S : Sums(S, f, SUBSET D) /\ SumOf(f) = S[D]
  BY SumOfSums
<1>2. PICK T : Sums(T, g, SUBSET D) /\ SumOf(g) = T[D]
  BY SumOfSums
<1>3. \A Q \in SUBSET D : S[Q] \in Int /\ T[Q] = S[Q] + (IF a \in Q THEN d ELSE 0)
  <2>1. Sums(S, f, SUBSET D) /\ Sums(T, g, SUBSET D) /\ f \in [D -> Int] /\ a \in D /\ d \in Int /\ IsFiniteSet(D)
    BY <1>1, <1>2
  <2>2. MovesBy(g, f, D, a, d)
    OBVIOUS
  <2> QED
    BY ONLY <2>1, <2>2, SumsDiffer
<1>4. D \in SUBSET D
  OBVIOUS
<1> QED
  BY <1>1, <1>2, <1>3, <1>4

\* A sum over a set that is not empty is a number.
LEMMA SumOfInt ==
  ASSUME NEW D, IsFiniteSet(D), NEW f \in [D -> Int], NEW a \in D
  PROVE  SumOf(f) \in Int
<1>1. MovesBy(f, f, D, a, 0)
  BY DEF MovesBy
<1> QED
  BY <1>1, SumMoves

\* A sum of zeros.
LEMMA SumOfZeros ==
  ASSUME NEW D, IsFiniteSet(D), NEW f, f = [x \in D |-> 0]
  PROVE  SumOf(f) = 0
<1>1. f \in [D -> Int]
  OBVIOUS
<1>2. PICK T : Sums(T, f, SUBSET D) /\ SumOf(f) = T[D]
  BY <1>1, SumOfSums
<1>3. D \in SUBSET D
  OBVIOUS
<1>4. CASE D = {}
  <2>1. T[D] = IF D = {} THEN 0 ELSE f[Chosen(D)] + T[D \ {Chosen(D)}]
    BY <1>2, <1>3 DEF Sums
  <2> QED
    BY <1>2, <1>4, <2>1
<1>5. ASSUME NEW a \in D PROVE SumOf(f) = 0
  <2>1. PICK Z : Z = [Q \in SUBSET D |-> 0]
    OBVIOUS
  <2>2. Sums(Z, f, SUBSET D)
    <3>1. ASSUME NEW Q \in SUBSET D PROVE Z[Q] = IF Q = {} THEN 0 ELSE f[Chosen(Q)] + Z[Q \ {Chosen(Q)}]
      <4>1. Z[Q] = 0 /\ Z[Q \ {Chosen(Q)}] = 0
        BY <2>1
      <4>2. Q # {} => f[Chosen(Q)] = 0
        BY DEF Chosen
      <4> QED
        BY <4>1, <4>2
    <3> QED
      BY <3>1 DEF Sums
  <2>3. MovesBy(f, f, D, a, 0)
    BY DEF MovesBy
  <2>4. T[D] = Z[D] + (IF a \in D THEN 0 ELSE 0)
    BY <1>1, <1>2, <1>3, <2>2, <2>3, SumsDiffer
  <2> QED
    BY <1>2, <1>3, <2>1, <2>4
<1> QED
  BY <1>4, <1>5

\* A multiple has no remainder.
LEMMA MultipleOf ==
  ASSUME NEW s \in Nat \ {0}, NEW k \in Int, NEW x, x = k * s
  PROVE  x % s = 0
<1>0. x \in Int
  BY \A a, b \in Int : a * b \in Int
<1> DEFINE q == x \div s
           r == x % s
<1>1. q \in Int /\ r \in 0 .. s - 1 /\ x = (s * q) + r
  BY <1>0
<1> HIDE DEF q, r
<1>2. PICK d \in Int : d = k - q
  BY <1>1
<1>3. s * d = r
  <2>1. s * k = s * (q + d) /\ s * (q + d) = (s * q) + (s * d)
    BY <1>1, <1>2
  <2>2. s * q \in Int /\ s * d \in Int /\ x = s * k
    BY <1>1, <1>2, \A a, b \in Int : a * b \in Int /\ a * b = b * a
  <2> QED
    BY <1>0, <1>1, <2>1, <2>2
<1>4. d = 0
  <2>1. ASSUME d > 0 PROVE FALSE
    <3>1. PICK c \in Nat : d = c + 1
      <4>1. d - 1 \in Nat /\ d = (d - 1) + 1
        BY <2>1
      <4> QED
        BY <4>1
    <3>2. s * c \in Nat /\ s * d = (s * c) + s
      BY <3>1, \A a, b \in Nat : a * b \in Nat
    <3> QED
      BY <1>1, <1>3, <3>2
  <2>2. ASSUME d < 0 PROVE FALSE
    <3>1. PICK c \in Nat : d = -c - 1
      <4>1. -d - 1 \in Nat /\ d = -(-d - 1) - 1
        BY <2>2
      <4> QED
        BY <4>1
    <3>2. s * c \in Nat /\ s * d = -(s * c) - s
      BY <3>1, \A a, b \in Nat : a * b \in Nat
    <3> QED
      BY <1>1, <1>3, <3>2
  <2> QED
    BY <2>1, <2>2
<1>5. r = 0
  BY <1>3, <1>4
<1> QED
  BY <1>5 DEF r

-----------------------------------------------------------------------------
(* The statistics.                                                         *)

\* Entries that were never filled lie ahead of the host, who is in its first
\* round, and of all that was given back.
Fresh ==
  \A i \in Ring : entries[i].tag = NoTag => old_db <= db /\ db <= host.head /\ host.head <= i

\* By how much the statistics are ahead.
Lead == SumOf(nr_in_flight) - Cardinality(queued) - Filled - (cq.head - old_db)

Rounds == \E k \in Int : Lead = k * Size

\* Where nothing is given back and no entry is read, entries are only filled.
LEMMA FreshStays ==
  ASSUME Fresh, UNCHANGED <<setup, bells>>, host'.head = host.head,
         \A i \in Ring : entries'[i].tag = NoTag => entries[i].tag = NoTag
  PROVE  Fresh'
<1>1. Ring' = Ring
  BY SetupStays
<1> QED
  BY <1>1 DEF Fresh, bells

\* An entry the host takes was filled.
LEMMA TurnedWasFilled ==
  ASSUME CqInv, Turned
  PROVE  entries[host.head].tag # NoTag
<1>1. PICK d \in Int, n \in Int : Window(d, n)
  BY DEF CqInv, RingOK
<1>2. /\ Size \in Nat /\ Size > 1 /\ host.head \in 0 .. Size - 1 /\ host.phase \in {0, 1}
      /\ At(Size, host.head, 0) = host.head
  BY RingPlaces DEF CqInv
<1>3. 0 \in Ring /\ Shown[0] = entries[host.head]
  BY <1>2 DEF Ring, Shown
<1>4. PhaseAt(Size, host.head, host.phase, 0) = host.phase
  BY <1>2 DEF PhaseAt
<1>5. 0 < n
  BY <1>1, <1>3, <1>4 DEF Window, Turned
<1>6. Shown[0].tag \in outstanding
  BY <1>1, <1>5 DEF Window, Located
<1>7. outstanding \subseteq Tags /\ NoTag \notin Tags
  BY Sizes DEF CqInv, CqTypeOK
<1> QED
  BY <1>3, <1>6, <1>7

LEMMA FreshKept == CqInv /\ Fresh /\ CqNext => Fresh'
<1> SUFFICES ASSUME CqInv, Fresh, CqNext PROVE Fresh'
  OBVIOUS
<1>1. UNCHANGED setup /\ Ring' = Ring /\ Size \in Nat /\ Size > 1 /\ Ring = 0 .. Size - 1
  BY Sizes, SetupStays DEF CqNext, Ring, CqInv, CqTypeOK
<1>2. /\ host \in [head : Ring, phase : {0, 1}, looking : BOOLEAN] /\ db \in Ring /\ old_db \in Ring
      /\ entries \in [Ring -> [tag : Tags \cup {NoTag}, phase : {0, 1}, result : Tags \cup {NoTag}]]
      /\ NoTag \notin Tags
  BY Sizes DEF CqInv, CqTypeOK
<1>3. CASE Look
  <2>1. host'.head = host.head /\ UNCHANGED <<entries, bells>>
    BY <1>2, <1>3 DEF Look, device
  <2> QED
    BY <1>1, <2>1, FreshStays
<1>4. CASE ReadEntry
  <2>1. UNCHANGED <<entries, db, old_db>> /\ Turned
    BY <1>4 DEF ReadEntry, device, bells
  <2>2. host'.head = IF host.head + 1 = Size THEN 0 ELSE host.head + 1
    BY <1>2, <1>4 DEF ReadEntry
  <2>3. entries[host.head].tag # NoTag
    BY <2>1, TurnedWasFilled
  <2>4. ASSUME NEW i \in Ring, entries[i].tag = NoTag
        PROVE  old_db <= db /\ db <= host'.head /\ host'.head <= i
    <3>1. old_db <= db /\ db <= host.head /\ host.head <= i /\ i # host.head
      BY <2>3, <2>4 DEF Fresh
    <3>2. i \in 0 .. Size - 1 /\ host.head \in 0 .. Size - 1 /\ db \in Nat /\ old_db \in Nat
      BY <1>1, <1>2
    <3> QED
      BY <1>1, <2>2, <3>1, <3>2
  <2> QED
    BY <1>1, <2>1, <2>4 DEF Fresh
<1>5. CASE RingDoorbell
  <2>1. UNCHANGED <<entries, old_db>> /\ db' = host.head /\ host'.head = host.head
    BY <1>2, <1>5 DEF RingDoorbell, device
  <2>2. ASSUME NEW i \in Ring, entries[i].tag = NoTag
        PROVE  old_db <= host.head /\ host.head <= i
    <3>1. old_db <= db /\ db <= host.head /\ host.head <= i
      BY <2>2 DEF Fresh
    <3>2. host.head \in Int /\ db \in Int /\ old_db \in Int
      BY <1>1, <1>2
    <3> QED
      BY <3>1, <3>2
  <2>3. host.head <= host.head
    BY <1>1, <1>2
  <2> QED
    BY <1>1, <2>1, <2>2, <2>3 DEF Fresh
<1>6. CASE Acknowledge
  <2>1. UNCHANGED <<entries, host, db>> /\ old_db # db /\ old_db' = AfterEntry(old_db)
    BY <1>6 DEF Acknowledge, device
  <2>2. ASSUME NEW i \in Ring, entries[i].tag = NoTag
        PROVE  old_db' <= db /\ db <= host.head /\ host.head <= i
    <3>1. old_db <= db /\ db <= host.head /\ host.head <= i
      BY <2>2 DEF Fresh
    <3>2. db \in 0 .. Size - 1 /\ old_db \in 0 .. Size - 1
      BY <1>1, <1>2
    <3> QED
      BY <1>1, <2>1, <3>1, <3>2 DEF AfterEntry
  <2> QED
    BY <1>1, <2>1, <2>2 DEF Fresh
<1>7. CASE \E t \in Tags : Submit(t)
  <2>1. UNCHANGED <<entries, host, bells>>
    BY <1>7 DEF Submit, device
  <2> QED
    BY <1>1, <2>1, FreshStays
<1>8. CASE \E w \in Workers : BeginSignal(w) \/ Signal(w) \/ \E t \in Tags : BeginFill(w, t)
  <2>1. UNCHANGED <<entries, host, bells>>
    BY <1>8 DEF BeginSignal, Signal, BeginFill
  <2> QED
    BY <1>1, <2>1, FreshStays
<1>9. ASSUME NEW w \in Workers, FillStatus(w) PROVE Fresh'
  <2>1. UNCHANGED <<host, bells>>
    BY <1>9 DEF FillStatus
  <2>2. io_workers[w].pc = "lock" /\ io_workers[w].tag \in Tags
    BY <1>9 DEF FillStatus, CqInv, RingOK, HandsOK
  <2>3. entries' = [entries EXCEPT ![io_workers[w].head].tag = io_workers[w].tag, ![io_workers[w].head].phase = cq.phase]
    BY <1>9 DEF FillStatus
  <2>4. ASSUME NEW i \in Ring, entries'[i].tag = NoTag PROVE entries[i].tag = NoTag
    BY <1>2, <2>2, <2>3, <2>4
  <2> QED
    BY <1>1, <2>1, <2>4, FreshStays
<1>10. ASSUME NEW w \in Workers, FillResult(w) PROVE Fresh'
  <2>1. UNCHANGED <<host, bells>>
    BY <1>10 DEF FillResult
  <2>2. entries' = [entries EXCEPT ![io_workers[w].head].result = io_workers[w].tag]
    BY <1>10 DEF FillResult
  <2>3. ASSUME NEW i \in Ring, entries'[i].tag = NoTag PROVE entries[i].tag = NoTag
    BY <1>2, <2>2, <2>3
  <2> QED
    BY <1>1, <2>1, <2>3, FreshStays
<1> QED
  BY <1>3, <1>4, <1>5, <1>6, <1>7, <1>8, <1>9, <1>10 DEF CqNext, Host, Filling

\* The workers that are filling.
Fillers == {w \in Workers : io_workers[w].pc \in {"lock", "locked"}}

LEMMA Finite ==
  ASSUME CqInv
  PROVE  /\ IsFiniteSet(queued) /\ Cardinality(queued) \in Nat
         /\ IsFiniteSet(Fillers) /\ Filled = Cardinality(Fillers) /\ Filled \in Nat
         /\ IsFiniteSet(setup.sqs) /\ nr_in_flight \in [setup.sqs -> Int]
         /\ cq.head \in Int /\ old_db \in Int
         /\ Size \in Nat /\ Size > 1 /\ Ring = 0 .. Size - 1
<1>1. Size \in Nat /\ Size > 1 /\ IsFiniteSet(Tags)
  BY Sizes DEF CqInv, CqTypeOK
<1>2. IsFiniteSet(queued) /\ Cardinality(queued) \in Nat
  BY <1>1, FS_Subset, FS_CardinalityType DEF CqInv, CqTypeOK
<1>3. IsFiniteSet(Workers)
  BY FS_Interval, WorkerAssumption DEF Workers
<1>4. IsFiniteSet(Fillers) /\ Cardinality(Fillers) \in Nat
  BY <1>3, FS_Subset, FS_CardinalityType DEF Fillers
<1>5. Filled = Cardinality(Fillers)
  BY DEF Filled, Fillers
<1> QED
  BY <1>1, <1>2, <1>4, <1>5, SetupAssumption DEF CqInv, CqTypeOK, Ring

\* The statistics stay right, or move by a round.
LEMMA RoundMore ==
  ASSUME Size \in Nat, Size' = Size, Rounds, Lead' = Lead + Size
  PROVE  Rounds'
<1>1. PICK k \in Int : Lead = k * Size
  BY DEF Rounds
<1>2. PICK s \in Nat : s = Size
  OBVIOUS
<1>3. (k * s) + s = (k + 1) * s /\ k + 1 \in Int
  BY <1>2
<1>4. Lead' = (k + 1) * Size'
  BY <1>1, <1>2, <1>3
<1> QED
  BY <1>3, <1>4 DEF Rounds

LEMMA RoundLess ==
  ASSUME Size \in Nat, Size' = Size, Rounds, Lead' = Lead - Size
  PROVE  Rounds'
<1>1. PICK k \in Int : Lead = k * Size
  BY DEF Rounds
<1>2. PICK s \in Nat : s = Size
  OBVIOUS
<1>3. (k * s) - s = (k - 1) * s /\ k - 1 \in Int
  BY <1>2
<1>4. Lead' = (k - 1) * Size'
  BY <1>1, <1>2, <1>3
<1> QED
  BY <1>3, <1>4 DEF Rounds

LEMMA RoundsStay ==
  ASSUME CqInv, UNCHANGED setup, Rounds, Lead' = Lead
  PROVE  Rounds'
<1>1. Size \in Nat /\ Size' = Size
  BY Finite, SetupStays
<1>2. PICK k \in Int : Lead = k * Size
  BY DEF Rounds
<1> QED
  BY <1>1, <1>2 DEF Rounds

\* One count moves, and the sum with it.
LEMMA StatisticsMove ==
  ASSUME IsFiniteSet(setup.sqs), nr_in_flight \in [setup.sqs -> Int], nr_in_flight' \in [setup.sqs -> Int],
         NEW q \in setup.sqs, NEW d \in Int, MovesBy(nr_in_flight', nr_in_flight, setup.sqs, q, d)
  PROVE  SumOf(nr_in_flight) \in Int /\ SumOf(nr_in_flight') = SumOf(nr_in_flight) + d
<1>1. PICK D, f, g : D = setup.sqs /\ f = nr_in_flight /\ g = nr_in_flight'
  OBVIOUS
<1>2. /\ IsFiniteSet(D) /\ f \in [D -> Int] /\ g \in [D -> Int] /\ q \in D /\ d \in Int
      /\ MovesBy(g, f, D, q, d)
  BY <1>1
<1>3. SumOf(f) \in Int /\ SumOf(g) = SumOf(f) + d
  BY ONLY <1>2, SumMoves
<1> QED
  BY <1>1, <1>3

LEMMA RoundsKept == CqInv /\ Fresh /\ Rounds /\ CqNext => Rounds'
<1> SUFFICES ASSUME CqInv, Fresh, Rounds, CqNext PROVE Rounds'
  OBVIOUS
<1>1. UNCHANGED setup /\ Size' = Size /\ Ring' = Ring /\ Tags' = Tags
  BY SetupStays DEF CqNext
<1>2. /\ IsFiniteSet(queued) /\ Cardinality(queued) \in Nat
      /\ IsFiniteSet(Fillers) /\ Filled = Cardinality(Fillers) /\ Filled \in Nat
      /\ IsFiniteSet(setup.sqs) /\ nr_in_flight \in [setup.sqs -> Int]
      /\ cq.head \in Int /\ old_db \in Int
      /\ Size \in Nat /\ Size > 1 /\ Ring = 0 .. Size - 1
  BY Finite
<1>3. io_workers \in [Workers -> [pc : {"rest", "lock", "locked", "signal"}, tag : Tags \cup {NoTag}, head : Ring]]
  BY DEF CqInv, CqTypeOK
<1>4. Filled' = Cardinality(Fillers')
  BY DEF Filled, Fillers
<1>5. \A t \in Tags : t[1] \in setup.sqs
  BY DEF Tags, TagsOf
<1>6. Lead = SumOf(nr_in_flight) - Cardinality(queued) - Filled - (cq.head - old_db)
  BY DEF Lead
<1>7. Lead' = SumOf(nr_in_flight') - Cardinality(queued') - Filled' - (cq'.head - old_db')
  BY DEF Lead
\* The statistics before, if there is a queue to keep them.
<1>8. ASSUME NEW q \in setup.sqs PROVE SumOf(nr_in_flight) \in Int
  BY <1>2, SumOfInt
<1>9. CASE Look \/ ReadEntry \/ RingDoorbell
  <2>1. UNCHANGED <<queued, io_workers, cq, old_db, nr_in_flight>>
    BY <1>9 DEF Look, ReadEntry, RingDoorbell, device, bells
  <2>2. Fillers' = Fillers
    BY <2>1 DEF Fillers
  <2> QED
    BY <1>1, <1>2, <1>4, <1>6, <1>7, <2>1, <2>2, RoundsStay
<1>10. ASSUME NEW w \in Workers, BeginSignal(w) \/ Signal(w) \/ FillStatus(w) PROVE Rounds'
  <2>1. UNCHANGED <<queued, bells, nr_in_flight>> /\ cq'.head = cq.head
    BY <1>10 DEF BeginSignal, Signal, FillStatus, CqInv, CqTypeOK
  <2>2. Fillers' = Fillers
    <3>1. \A v \in Workers : v # w => io_workers'[v] = io_workers[v]
      BY <1>3, <1>10 DEF BeginSignal, Signal, FillStatus, Resumes
    <3>2. io_workers[w].pc \in {"lock", "locked"} <=> io_workers'[w].pc \in {"lock", "locked"}
      BY <1>3, <1>10 DEF BeginSignal, Signal, FillStatus, Resumes, Resting
    <3> QED
      BY <3>1, <3>2 DEF Fillers
  <2> QED
    BY <1>1, <1>2, <1>4, <1>6, <1>7, <2>1, <2>2, RoundsStay DEF bells
<1>11. ASSUME NEW t \in Tags, Submit(t) PROVE Rounds'
  <2>1. /\ t \notin outstanding /\ queued' = queued \cup {t} /\ UNCHANGED <<io_workers, cq, old_db>>
        /\ nr_in_flight' = [nr_in_flight EXCEPT ![t[1]] = @ + 1]
    BY <1>11 DEF Submit, device, bells
  <2>2. t \notin queued
    BY <2>1 DEF CqInv, RingOK, Window, Located
  <2>3. Cardinality(queued') = Cardinality(queued) + 1
    BY <1>2, <2>1, <2>2, FS_AddElement
  <2>4. SumOf(nr_in_flight) \in Int /\ SumOf(nr_in_flight') = SumOf(nr_in_flight) + 1
    <3>1. PICK q \in setup.sqs : q = t[1]
      BY <1>5
    <3>2. nr_in_flight' = [nr_in_flight EXCEPT ![q] = @ + 1]
      BY <2>1, <3>1
    <3>3. nr_in_flight' \in [setup.sqs -> Int]
      BY <1>2, <3>2
    <3>4. MovesBy(nr_in_flight', nr_in_flight, setup.sqs, q, 1)
      BY <1>2, <3>2 DEF MovesBy
    <3>5. IsFiniteSet(setup.sqs) /\ nr_in_flight \in [setup.sqs -> Int]
      BY <1>2
    <3> QED
      BY <3>1, <3>3, <3>4, <3>5, StatisticsMove
  <2>5. Fillers' = Fillers
    BY <2>1 DEF Fillers
  <2>6. Lead' = Lead
    BY <1>2, <1>4, <1>6, <1>7, <2>1, <2>3, <2>4, <2>5
  <2> QED
    BY <1>1, <2>6, RoundsStay
<1>12. ASSUME NEW w \in Workers, NEW t \in Tags, BeginFill(w, t) PROVE Rounds'
  <2>1. /\ io_workers[w].pc = "rest" /\ t \in queued /\ queued' = queued \ {t}
        /\ io_workers' = [io_workers EXCEPT ![w] = [pc |-> "lock", tag |-> t, head |-> cq.head]]
        /\ UNCHANGED <<cq, old_db, nr_in_flight>>
    BY <1>12 DEF BeginFill, bells
  <2>2. Cardinality(queued') = Cardinality(queued) - 1
    BY <1>2, <2>1, FS_RemoveElement
  <2>3. Fillers' = Fillers \cup {w} /\ w \notin Fillers
    BY <1>3, <2>1 DEF Fillers
  <2>4. Filled' = Filled + 1
    BY <1>2, <1>4, <2>3, FS_AddElement
  <2>5. SumOf(nr_in_flight) \in Int
    BY <1>5, <1>8
  <2>6. Lead' = Lead
    BY <1>2, <1>6, <1>7, <2>1, <2>2, <2>4, <2>5
  <2> QED
    BY <1>1, <2>6, RoundsStay
<1>13. ASSUME NEW w \in Workers, FillResult(w) PROVE Rounds'
  <2>1. /\ io_workers[w].pc = "locked" /\ io_workers' = [io_workers EXCEPT ![w] = Resting]
        /\ cq' = HeadAfter(io_workers[w].head) /\ UNCHANGED <<queued, old_db, nr_in_flight>>
    BY <1>13 DEF FillResult, Resumes, bells
  <2>2. io_workers[w].head = cq.head /\ io_workers[w].tag \in Tags
    BY <2>1 DEF CqInv, RingOK, HandsOK
  <2>3. Fillers' = Fillers \ {w} /\ w \in Fillers
    BY <1>3, <2>1 DEF Fillers, Resting
  <2>4. Filled' = Filled - 1
    BY <1>2, <1>4, <2>3, FS_RemoveElement
  <2>5. SumOf(nr_in_flight) \in Int
    BY <1>5, <1>8, <2>2
  <2>6. cq'.head = IF cq.head + 1 = Size THEN 0 ELSE cq.head + 1
    BY <2>1, <2>2 DEF HeadAfter
  <2>7. CASE cq.head + 1 = Size
    <3>1. cq'.head = (cq.head + 1) - Size
      BY <1>2, <2>6, <2>7
    <3>2. PICK X \in Int, c \in Int, f \in Int, h \in Int, o \in Int, s \in Int :
            X = SumOf(nr_in_flight) /\ c = Cardinality(queued) /\ f = Filled /\ h = cq.head /\ o = old_db /\ s = Size
      BY <1>2, <2>5
    <3>3. Lead = X - c - f - (h - o) /\ Lead' = X - c - (f - 1) - (((h + 1) - s) - o)
      BY <1>6, <1>7, <2>1, <2>4, <3>1, <3>2
    <3>4. Lead' = Lead + s
      BY <3>3
    <3>5. Size \in Nat /\ Size' = Size /\ Rounds /\ Lead' = Lead + Size
      BY <1>1, <1>2, <3>2, <3>4
    <3> QED
      BY ONLY <3>5, RoundMore, Zenon
  <2>8. CASE cq.head + 1 # Size
    <3>1. cq'.head = cq.head + 1
      BY <2>6, <2>8
    <3>2. PICK X \in Int, c \in Int, f \in Int, h \in Int, o \in Int :
            X = SumOf(nr_in_flight) /\ c = Cardinality(queued) /\ f = Filled /\ h = cq.head /\ o = old_db
      BY <1>2, <2>5
    <3>3. Lead = X - c - f - (h - o) /\ Lead' = X - c - (f - 1) - ((h + 1) - o)
      BY <1>6, <1>7, <2>1, <2>4, <3>1, <3>2
    <3>4. Lead' = Lead
      BY <3>3
    <3> QED
      BY <1>1, <3>4, RoundsStay
  <2> QED
    BY <2>7, <2>8
<1>14. CASE Acknowledge
  <2>1. /\ old_db # db /\ old_db' = AfterEntry(old_db) /\ UNCHANGED <<queued, io_workers, cq>>
        /\ nr_in_flight' = [nr_in_flight EXCEPT ![entries[old_db].tag[1]] = @ - 1]
    BY <1>14 DEF Acknowledge, device
  <2>2. entries[old_db].tag \in Tags
    <3>1. old_db \in Ring /\ db \in Int /\ host.head \in Int /\ entries[old_db].tag \in Tags \cup {NoTag}
      BY <1>2 DEF CqInv, CqTypeOK
    <3>2. entries[old_db].tag # NoTag
      BY <1>2, <2>1, <3>1 DEF Fresh
    <3> QED
      BY <3>1, <3>2
  <2>3. PICK q \in setup.sqs : q = entries[old_db].tag[1]
    BY <1>5, <2>2
  <2>4. MovesBy(nr_in_flight', nr_in_flight, setup.sqs, q, -1) /\ nr_in_flight' \in [setup.sqs -> Int]
    BY <1>2, <2>1, <2>3 DEF MovesBy
  <2>5. SumOf(nr_in_flight) \in Int /\ SumOf(nr_in_flight') = SumOf(nr_in_flight) - 1
    <3>1. SumOf(nr_in_flight) \in Int /\ SumOf(nr_in_flight') = SumOf(nr_in_flight) + (-1)
      BY <1>2, <2>4, StatisticsMove
    <3> QED
      BY <3>1
  <2>6. Fillers' = Fillers
    BY <2>1 DEF Fillers
  <2>7. old_db \in 0 .. Size - 1
    BY <1>2 DEF CqInv, CqTypeOK
  <2>8. CASE old_db + 1 = Size
    <3>1. old_db' = 0
      BY <1>2, <2>1, <2>7, <2>8 DEF AfterEntry
    <3>2. PICK X \in Int, c \in Int, f \in Int, h \in Int, o \in Int, s \in Int :
            X = SumOf(nr_in_flight) /\ c = Cardinality(queued) /\ f = Filled /\ h = cq.head /\ o = old_db /\ s = Size
      BY <1>2, <2>5
    <3>3. Filled' = f
      BY <1>2, <1>4, <2>6, <3>2
    <3>4. Lead = X - c - f - (h - o) /\ Lead' = (X - 1) - c - f - (h - 0) /\ o + 1 = s
      BY <1>6, <1>7, <2>1, <2>5, <2>8, <3>1, <3>2, <3>3
    <3>5. Lead' = Lead - s
      BY <3>4
    <3>6. Size \in Nat /\ Size' = Size /\ Rounds /\ Lead' = Lead - Size
      BY <1>1, <1>2, <3>2, <3>5
    <3> QED
      BY ONLY <3>6, RoundLess, Zenon
  <2>9. CASE old_db + 1 # Size
    <3>1. old_db' = old_db + 1
      BY <1>2, <2>1, <2>7, <2>9 DEF AfterEntry
    <3>2. PICK X \in Int, c \in Int, f \in Int, h \in Int, o \in Int :
            X = SumOf(nr_in_flight) /\ c = Cardinality(queued) /\ f = Filled /\ h = cq.head /\ o = old_db
      BY <1>2, <2>5
    <3>3. Filled' = f
      BY <1>2, <1>4, <2>6, <3>2
    <3>4. Lead = X - c - f - (h - o) /\ Lead' = (X - 1) - c - f - (h - (o + 1))
      BY <1>6, <1>7, <2>1, <2>5, <3>1, <3>2, <3>3
    <3>5. Lead' = Lead
      BY <3>4
    <3> QED
      BY <1>1, <3>5, RoundsStay
  <2> QED
    BY <2>8, <2>9
<1> QED
  BY <1>9, <1>10, <1>11, <1>12, <1>13, <1>14 DEF CqNext, Host, Filling

\* For rings of any size, and any number of queues and commands that are fewer than the
\* entries: the counts of commands in flight that nvmev_proc_io_cq lowers are right together,
\* but for whole rounds of the ring that the host read before it rang the doorbell, although
\* they are lowered for whatever command is in the entry by then.
THEOREM StatisticsAreRight == OneFiller => (CqSpec => []InFlightUpToRounds)
<1> SUFFICES ASSUME OneFiller PROVE CqSpec => []InFlightUpToRounds
  OBVIOUS
<1>1. CqSpec => []CqInv
  BY RingInvariant
<1>2. CqInit /\ CqInv => Fresh /\ Rounds
  <2> SUFFICES ASSUME CqInit, CqInv PROVE Fresh /\ Rounds
    OBVIOUS
  <2>1. Fresh
    BY Finite DEF CqInit, Fresh
  <2>2. SumOf(nr_in_flight) = 0
    BY Finite, SumOfZeros DEF CqInit
  <2>3. Cardinality(queued) = 0
    BY FS_EmptySet DEF CqInit
  <2>4. Fillers = {}
    BY DEF CqInit, Fillers, Resting
  <2>5. Filled = 0
    BY <2>4, Finite, FS_EmptySet
  <2>6. cq.head = 0 /\ old_db = 0
    BY DEF CqInit
  <2>7. Lead = 0 * Size
    BY <2>2, <2>3, <2>5, <2>6, Finite DEF Lead
  <2> QED
    BY <2>1, <2>7 DEF Rounds
<1>3. CqInv /\ Fresh /\ Rounds /\ [CqNext]_cqVars => Fresh' /\ Rounds'
  <2> SUFFICES ASSUME CqInv, Fresh, Rounds, [CqNext]_cqVars PROVE Fresh' /\ Rounds'
    OBVIOUS
  <2>1. CASE CqNext
    BY <2>1, FreshKept, RoundsKept
  <2>2. CASE UNCHANGED cqVars
    <3>1. UNCHANGED <<setup, queued, io_workers, cq, entries, host, db, old_db, nr_in_flight>>
      BY <2>2 DEF cqVars, device, bells
    <3>2. Fresh'
      BY <3>1, FreshStays DEF bells
    <3>3. Lead' = Lead
      BY <3>1 DEF Lead, Filled
    <3> QED
      BY <3>1, <3>2, <3>3, RoundsStay
  <2> QED
    BY <2>1, <2>2
<1>4. CqInv /\ Rounds => InFlightUpToRounds
  <2> SUFFICES ASSUME CqInv, Rounds PROVE Lead % Size = 0
    BY DEF InFlightUpToRounds, Lead
  <2>1. PICK k \in Int : Lead = k * Size
    BY DEF Rounds
  <2>2. Size \in Nat \ {0}
    BY Finite
  <2> QED
    BY <2>1, <2>2, MultipleOf
<1> QED
  BY <1>1, <1>2, <1>3, <1>4, PTL DEF CqSpec

-----------------------------------------------------------------------------
(* The write buffers.                                                      *)

BufferType == [zid : Zones \cup {NONE}, start : 0 .. PgsPerZone, pgs : 0 .. WbPgs - 1]

\* No two buffers are of one zone.
Unshared(b) == \A i, j \in Wbs : i # j /\ b[i].zid # NONE => b[i].zid # b[j].zid

\* A buffer with data holds all of its zone that is not in the NAND.
HoldsTail(b, f, w) ==
  \A i \in Wbs : b[i].pgs > 0 => /\ b[i].zid \in Zones
                                /\ b[i].start = f[b[i].zid]
                                /\ b[i].pgs = w[b[i].zid] - f[b[i].zid]

\* A zone with pages that are not in the NAND has a buffer with data.
HasBuffer(b, f, w) ==
  \A z \in Zones : /\ f[z] <= w[z]
                   /\ f[z] < w[z] => \E i \in Wbs : b[i].zid = z /\ b[i].pgs > 0

\* What buffers b hold of zones with f pages in the NAND and w pages written.
Contents(b, f, w) ==
  /\ b \in [Wbs -> BufferType]
  /\ f \in [Zones -> 0 .. PgsPerZone]
  /\ w \in [Zones -> 0 .. PgsPerZone]
  /\ Unshared(b) /\ HoldsTail(b, f, w) /\ HasBuffer(b, f, w)

WaitingOK    == waiting \in [Queues -> Zones \cup {NONE}]
HandlerOK == handler \in [qid : Queues, pc : {"poll", "handle"}, seen : SUBSET Wbs]

\* The variables that do not describe contents.
ControlOK ==
  /\ busy \in [Wbs -> BOOLEAN] /\ releases \in [Wbs -> Nat]
  /\ WaitingOK /\ HandlerOK

WbInv == Contents(write_buffer, flushed, wp) /\ ControlOK /\ BusyUntilReleased

-----------------------------------------------------------------------------
(* Numbers.                                                                *)

\* First picks a buffer of the set.
LEMMA FirstIsMember ==
  ASSUME NEW S \in SUBSET Wbs, S # {}
  PROVE  First(S) \in S
<1>1. S \in SUBSET Nat
  BY SizesAssumption DEF Wbs
<1>2. \E i \in S : \A j \in S : i <= j
  BY <1>1, LeastNumber
<1> QED
  BY <1>2 DEF First

\* What is kept of a buffer does not fill it.
LEMMA KeptBounds ==
  ASSUME NEW n \in Nat
  PROVE  Kept(n) \in 0 .. WbPgs - 1 /\ Kept(n) <= n
<1>1. WbPgs \in Nat \ {0}
  BY SizesAssumption
<1>2. Kept(n) \in 0 .. WbPgs - 1
  BY <1>1 DEF Kept
<1>3. n = (WbPgs * (n \div WbPgs)) + (n % WbPgs)
  BY <1>1
<1>4. n \div WbPgs \in Nat
  BY <1>1
<1>5. \A a, b \in Nat : a * b \in Nat
  OBVIOUS
<1>6. WbPgs * (n \div WbPgs) \in Nat
  BY <1>1, <1>4, <1>5
<1>7. Kept(n) <= n
  <2> DEFINE m == WbPgs * (n \div WbPgs)
             r == n % WbPgs
  <2>1. m \in Nat /\ r \in Nat /\ n = m + r /\ Kept(n) = r
    BY <1>1, <1>2, <1>3, <1>6 DEF Kept
  <2> HIDE DEF m, r
  <2> QED
    BY <2>1
<1> QED
  BY <1>2, <1>7

-----------------------------------------------------------------------------
(* Changes of the contents.                                                *)

\* The sizes are positive, and NONE is neither a zone nor a buffer.
LEMMA Ranges ==
  /\ PgsPerZone \in Nat \ {0} /\ WbPgs \in Nat \ {0}
  /\ Zones \subseteq Nat /\ Wbs \subseteq Nat /\ NONE \notin Zones /\ NONE \notin Wbs
  /\ Empty \in BufferType
BY SizesAssumption DEF Zones, Wbs, NONE, Empty, BufferType

\* The buffer of a zone is exchanged for what is left of the zone.
LEMMA ZoneSettled ==
  ASSUME NEW b, NEW f, NEW w, Contents(b, f, w),
         NEW z \in Zones, NEW i \in Wbs, b[i].zid = z,
         NEW r \in BufferType, NEW p \in 0 .. PgsPerZone, NEW q \in 0 .. PgsPerZone,
         \/ r = Empty /\ p = q
         \/ r.zid = z /\ r.start = p /\ r.pgs > 0 /\ r.pgs = q - p
  PROVE  Contents([b EXCEPT ![i] = r], [f EXCEPT ![z] = p], [w EXCEPT ![z] = q])
<1> DEFINE b2 == [b EXCEPT ![i] = r]
           f2 == [f EXCEPT ![z] = p]
           w2 == [w EXCEPT ![z] = q]
<1>1. /\ b \in [Wbs -> BufferType]
      /\ f \in [Zones -> 0 .. PgsPerZone] /\ w \in [Zones -> 0 .. PgsPerZone]
      /\ Unshared(b) /\ HoldsTail(b, f, w) /\ HasBuffer(b, f, w)
  BY DEF Contents
<1>2. /\ b2 \in [Wbs -> BufferType]
      /\ f2 \in [Zones -> 0 .. PgsPerZone] /\ w2 \in [Zones -> 0 .. PgsPerZone]
      /\ b2[i] = r /\ \A j \in Wbs : j # i => b2[j] = b[j]
      /\ f2[z] = p /\ \A y \in Zones : y # z => f2[y] = f[y]
      /\ w2[z] = q /\ \A y \in Zones : y # z => w2[y] = w[y]
  BY <1>1
<1>3. /\ z # NONE
      /\ \A j \in Wbs : j # i => b[j].zid # z
  BY <1>1, Ranges DEF Unshared
<1>4. \/ r.zid = NONE /\ r.pgs = 0 /\ p = q
      \/ r.zid = z /\ r.start = p /\ r.pgs > 0 /\ r.pgs = q - p
  BY DEF Empty
<1> HIDE DEF b2, f2, w2
<1>5. Unshared(b2)
  BY <1>1, <1>2, <1>3, <1>4 DEF Unshared
<1>6. HoldsTail(b2, f2, w2)
  BY <1>1, <1>2, <1>3, <1>4 DEF HoldsTail
<1>7. HasBuffer(b2, f2, w2)
  <2> SUFFICES ASSUME NEW y \in Zones
               PROVE  /\ f2[y] <= w2[y]
                      /\ f2[y] < w2[y] => \E j \in Wbs : b2[j].zid = y /\ b2[j].pgs > 0
    BY DEF HasBuffer
  <2>1. CASE y = z
    <3>1. p <= q /\ (p < q => b2[i].zid = z /\ b2[i].pgs > 0)
      BY <1>2, <1>4, Ranges
    <3> QED
      BY <2>1, <1>2, <3>1
  <2>2. CASE y # z
    <3>1. f[y] <= w[y] /\ (f[y] < w[y] => \E j \in Wbs : b[j].zid = y /\ b[j].pgs > 0)
      BY <1>1 DEF HasBuffer
    <3> QED
      BY <1>2, <2>2, <3>1
  <2> QED
    BY <2>1, <2>2
<1> QED
  BY <1>2, <1>5, <1>6, <1>7 DEF Contents, b2, f2, w2

\* A zone of which no buffer holds data goes back to its start.
LEMMA ZoneCleared ==
  ASSUME NEW b, NEW f, NEW w, Contents(b, f, w),
         NEW z \in Zones, \A i \in Wbs : b[i].zid = z => b[i].pgs = 0
  PROVE  Contents(b, [f EXCEPT ![z] = 0], [w EXCEPT ![z] = 0])
<1> DEFINE f2 == [f EXCEPT ![z] = 0]
           w2 == [w EXCEPT ![z] = 0]
<1>1. /\ f2 \in [Zones -> 0 .. PgsPerZone] /\ w2 \in [Zones -> 0 .. PgsPerZone]
      /\ f2[z] = 0 /\ \A y \in Zones : y # z => f2[y] = f[y]
      /\ w2[z] = 0 /\ \A y \in Zones : y # z => w2[y] = w[y]
  BY Ranges DEF Contents
<1> HIDE DEF f2, w2
<1>2. HoldsTail(b, f2, w2)
  BY <1>1 DEF Contents, HoldsTail
<1>3. HasBuffer(b, f2, w2)
  BY <1>1 DEF Contents, HasBuffer
<1> QED
  BY <1>1, <1>2, <1>3 DEF Contents, f2, w2

-----------------------------------------------------------------------------
(* The search for a buffer.                                                *)

\* Some buffer is the fullest.
LEMMA FullestExists ==
  ASSUME Contents(write_buffer, flushed, wp)
  PROVE  Fullest # {}
<1> DEFINE room(i) == WbPgs - write_buffer[i].pgs
           S == {room(i) : i \in Wbs}
<1>1. \A i \in Wbs : write_buffer[i].pgs \in 0 .. WbPgs - 1
  BY DEF Contents, BufferType
<1>2. S \in SUBSET Nat
  BY <1>1, SizesAssumption
<1>3. S # {}
  <2>1. 0 \in Wbs
    BY SizesAssumption DEF Wbs
  <2>2. room(0) \in S
    BY <2>1
  <2> QED
    BY <2>2
<1>4. PICK n \in S : \A m \in S : n <= m
  <2> HIDE DEF S
  <2> QED
    BY <1>2, <1>3, LeastNumber
<1>5. PICK i \in Wbs : n = room(i)
  BY <1>4
<1>6. \A j \in Wbs : write_buffer[j].pgs <= write_buffer[i].pgs
  <2> TAKE j \in Wbs
  <2>1. room(j) \in S /\ room(i) <= room(j)
    BY <1>4, <1>5
  <2> QED
    BY <1>1, <2>1, SizesAssumption
<1> QED
  BY <1>6 DEF Fullest

\* The search finds the zone's buffer, or none, or a full one of another zone
\* when the zone has none; a buffer it assigns to the zone holds no data.
LEMMA SearchFinds ==
  ASSUME Contents(write_buffer, flushed, wp), NEW z \in Zones, NEW seen \in Glances,
         NEW i, i = zms_wb_get(z, seen), NEW b, b = Assigned(z, seen)
  PROVE  /\ Contents(b, flushed, wp)
         /\ i # NONE => i \in Wbs
         /\ i # NONE /\ b[i].zid = z =>
              /\ b[i].pgs = write_buffer[i].pgs
              /\ \A j \in Wbs : j # i => b[j] = write_buffer[j]
         /\ i # NONE /\ b[i].zid # z =>
              /\ OwnedBy(z) = {} /\ b = write_buffer
              /\ write_buffer[i].zid \in Zones /\ write_buffer[i].pgs > 0
         /\ OwnedBy(z) # {} => b = write_buffer
         /\ OwnedBy(z) = {} => \A j \in Wbs : b[j].zid = z => b[j].pgs = 0
<1>1. /\ write_buffer \in [Wbs -> BufferType]
      /\ \A j \in Wbs : write_buffer[j].pgs \in Nat
      /\ HoldsTail(write_buffer, flushed, wp)
  BY SizesAssumption DEF Contents, BufferType
<1>2. CASE OwnedBy(z) # {}
  <2>1. i \in OwnedBy(z) /\ b = write_buffer
    <3>1. OwnedBy(z) \in SUBSET Wbs
      BY DEF OwnedBy
    <3> QED
      BY <1>2, <3>1, FirstIsMember DEF zms_wb_get, Assigned
  <2> QED
    BY <1>2, <2>1 DEF OwnedBy
<1>3. CASE OwnedBy(z) = {} /\ Idle(seen) # {}
  <2>1. i \in Idle(seen) /\ b = [write_buffer EXCEPT ![i].zid = z]
    <3>1. Idle(seen) \in SUBSET Wbs
      BY DEF Idle
    <3> QED
      BY <1>3, <3>1, FirstIsMember DEF zms_wb_get, Assigned
  <2>2. i \in Wbs /\ write_buffer[i].pgs = 0
    BY <2>1 DEF Idle
  <2>3. \A j \in Wbs : write_buffer[j].zid # z
    BY <1>3 DEF OwnedBy
  <2>4. /\ b \in [Wbs -> BufferType]
        /\ b[i].zid = z /\ b[i].pgs = 0
        /\ \A j \in Wbs : j # i => b[j] = write_buffer[j]
    BY <1>1, <2>1, <2>2 DEF BufferType
  <2>5. Unshared(b)
    BY <2>2, <2>3, <2>4, Ranges DEF Contents, Unshared
  <2>6. HoldsTail(b, flushed, wp)
    BY <1>1, <2>4 DEF HoldsTail
  <2>7. HasBuffer(b, flushed, wp)
    BY <2>2, <2>3, <2>4 DEF Contents, HasBuffer
  <2>8. Contents(b, flushed, wp)
    BY <2>4, <2>5, <2>6, <2>7 DEF Contents
  <2> QED
    BY <1>3, <2>2, <2>3, <2>4, <2>8
<1>4. CASE OwnedBy(z) = {} /\ Idle(seen) = {}
  <2>1. b = write_buffer /\ \A j \in Wbs : write_buffer[j].zid # z
    BY <1>4 DEF Assigned, OwnedBy
  <2>2. CASE seen # {}
    BY <1>4, <2>1, <2>2 DEF zms_wb_get
  <2>3. CASE seen = {}
    <3>1. Fullest \in SUBSET Wbs
      BY DEF Fullest
    <3>2. i \in Wbs
      BY <1>4, <2>3, <3>1, FullestExists, FirstIsMember DEF zms_wb_get
    <3>3. write_buffer[i].pgs > 0
      BY <1>1, <1>4, <2>3, <3>2 DEF Idle
    <3> QED
      BY <1>1, <1>4, <2>1, <3>2, <3>3 DEF HoldsTail
  <2> QED
    BY <2>2, <2>3
<1> QED
  BY <1>2, <1>3, <1>4

\* A flush adds to a zone what its buffer holds.
LEMMA FlushedFromBuffer ==
  ASSUME Contents(write_buffer, flushed, wp), NEW z \in Zones, NEW S \in SUBSET Wbs
  PROVE  \/ /\ FlushedFrom(S, z) = 0
            /\ \A i \in S : ~(write_buffer[i].zid = z /\ write_buffer[i].pgs > 0)
         \/ /\ FlushedFrom(S, z) = wp[z] - flushed[z]
            /\ \E i \in S : write_buffer[i].zid = z /\ write_buffer[i].pgs > 0
<1> DEFINE own == {i \in S : write_buffer[i].zid = z /\ write_buffer[i].pgs > 0}
<1>1. CASE own = {}
  BY <1>1 DEF FlushedFrom
<1>2. CASE own # {}
  <2>1. own \in SUBSET Wbs
    OBVIOUS
  <2>2. First(own) \in own
    <3> HIDE DEF own
    <3> QED
      BY <1>2, <2>1, FirstIsMember
  <2>3. FlushedFrom(S, z) = write_buffer[First(own)].pgs
    BY <1>2 DEF FlushedFrom
  <2> QED
    BY <2>2, <2>3 DEF Contents, HoldsTail
<1> QED
  BY <1>1, <1>2

-----------------------------------------------------------------------------
(* The dispatcher's turns and the worker's releases.                       *)

Bookkept == ControlOK /\ BusyUntilReleased

\* An idle buffer is taken with the one release that will end it.
LEMMA TakeBooks ==
  ASSUME Bookkept, NEW i \in Wbs, Available(i), Take(i)
  PROVE  /\ busy' \in [Wbs -> BOOLEAN] /\ releases' \in [Wbs -> Nat]
         /\ BusyUntilReleased'
<1>1. releases[i] = 0 /\ ~busy[i]
  BY DEF Bookkept, BusyUntilReleased, Available
<1> QED
  BY <1>1 DEF Bookkept, ControlOK, BusyUntilReleased, Take

\* The worker releases a buffer that is busy.
LEMMA ReleaseBooks ==
  ASSUME Bookkept, NEW i \in Wbs, Release(i)
  PROVE  Bookkept'
<1>1. releases[i] = 1 /\ busy[i]
  BY DEF Bookkept, ControlOK, BusyUntilReleased, Release
<1> QED
  BY <1>1 DEF Bookkept, ControlOK, WaitingOK, HandlerOK, BusyUntilReleased, Release

\* An answered command, and one that is put off, leave the dispatcher at a queue.
LEMMA TurnsKeepType ==
  ASSUME ControlOK
  PROVE  /\ NextQueue => HandlerOK'
         /\ Answer => WaitingOK' /\ HandlerOK'
         /\ \A z \in Zones : PutOff(z) => WaitingOK' /\ HandlerOK'
<1>1. handler.qid \in Queues /\ NrSq \in Nat \ {0}
  BY SizesAssumption DEF ControlOK, HandlerOK
<1>2. (handler.qid % NrSq) + 1 \in Queues
  BY <1>1 DEF Queues
<1>3. NextQueue => HandlerOK'
  BY <1>2 DEF NextQueue, HandlerOK
<1>4. Answer => WaitingOK' /\ HandlerOK'
  BY <1>1 DEF ControlOK, WaitingOK, HandlerOK, Answer
<1>5. ASSUME NEW z \in Zones, PutOff(z) PROVE WaitingOK' /\ HandlerOK'
  BY <1>1, <1>3, <1>5 DEF ControlOK, WaitingOK, PutOff
<1> QED
  BY <1>3, <1>4, <1>5

\* A write that is handled is to one of the zones.
LEMMA OfferedAreZones ==
  ASSUME ControlOK
  PROVE  OfferedZones \subseteq Zones
<1>1. Turn \in Zones \cup {NONE}
  BY DEF ControlOK, WaitingOK, HandlerOK, Turn
<1> QED
  BY <1>1 DEF OfferedZones

-----------------------------------------------------------------------------
(* Each action preserves the invariant.                                    *)

\* A write that waits changes no buffer.
LEMMA WaitsKeeps == WbInv /\ WriteWaits => WbInv'
<1> SUFFICES ASSUME WbInv, WriteWaits PROVE WbInv'
  OBVIOUS
<1>1. PICK z \in Zones : PutOff(z)
  BY OfferedAreZones DEF WbInv, WriteWaits
<1>2. WaitingOK' /\ HandlerOK'
  BY <1>1, TurnsKeepType DEF WbInv
<1> QED
  BY <1>2 DEF WbInv, ControlOK, BusyUntilReleased, WriteWaits, zones,
              Contents, Unshared, HoldsTail, HasBuffer

\* An evicted buffer gives what it held to the NAND.
LEMMA EvictsKeeps == WbInv /\ WriteEvicts => WbInv'
<1> SUFFICES ASSUME WbInv, WriteEvicts PROVE WbInv'
  OBVIOUS
<1>1. PICK z \in Zones, seen \in Glances :
        LET i == zms_wb_get(z, seen)
        IN  /\ i # NONE
            /\ Assigned(z, seen)[i].zid # z
            /\ Available(i)
            /\ Take(i)
            /\ flushed' = [y \in Zones |-> flushed[y] + FlushedFrom({i}, y)]
            /\ write_buffer' = [write_buffer EXCEPT ![i] = Empty]
            /\ PutOff(z)
  BY OfferedAreZones DEF WbInv, WriteEvicts
<1> DEFINE i == zms_wb_get(z, seen)
           y == write_buffer[i].zid
<1>2. i \in Wbs /\ y \in Zones /\ write_buffer[i].pgs > 0
  BY <1>1, SearchFinds DEF WbInv
<1>3. /\ Available(i) /\ Take(i) /\ PutOff(z)
      /\ flushed' = [x \in Zones |-> flushed[x] + FlushedFrom({i}, x)]
      /\ write_buffer' = [write_buffer EXCEPT ![i] = Empty]
  BY <1>1
<1> HIDE DEF i
<1>4. /\ flushed \in [Zones -> 0 .. PgsPerZone] /\ wp \in [Zones -> 0 .. PgsPerZone]
      /\ wp' = wp
  BY DEF WbInv, Contents, WriteEvicts
<1>5. ASSUME NEW x \in Zones
      PROVE  FlushedFrom({i}, x) = IF x = y THEN wp[y] - flushed[y] ELSE 0
  <2>1. {i} \in SUBSET Wbs
    BY <1>2
  <2> QED
    BY <1>2, <2>1, FlushedFromBuffer DEF WbInv
<1>6. flushed' = [flushed EXCEPT ![y] = wp[y]]
  <2>1. \A x \in Zones : flushed[x] + FlushedFrom({i}, x) =
                         IF x = y THEN wp[y] ELSE flushed[x]
    BY <1>2, <1>4, <1>5
  <2> QED
    BY <1>2, <1>3, <1>4, <2>1
<1>7. wp' = [wp EXCEPT ![y] = wp[y]]
  BY <1>2, <1>4
<1>8. Contents([write_buffer EXCEPT ![i] = Empty], [flushed EXCEPT ![y] = wp[y]],
               [wp EXCEPT ![y] = wp[y]])
  <2>1. wp[y] \in 0 .. PgsPerZone
    BY <1>2, <1>4
  <2> QED
    BY <1>2, <2>1, ZoneSettled, Ranges DEF WbInv
<1>9. Contents(write_buffer', flushed', wp')
  BY <1>3, <1>6, <1>7, <1>8
<1>10. /\ busy' \in [Wbs -> BOOLEAN] /\ releases' \in [Wbs -> Nat]
       /\ BusyUntilReleased'
  BY <1>2, <1>3, TakeBooks DEF WbInv, Bookkept
<1>11. WaitingOK' /\ HandlerOK'
  BY <1>3, TurnsKeepType DEF WbInv
<1> QED
  BY <1>9, <1>10, <1>11 DEF WbInv, ControlOK, Contents, Unshared, HoldsTail, HasBuffer

\* A refused write leaves its zone a buffer, at most.
LEMMA RefusedKeeps == WbInv /\ WriteRefused => WbInv'
<1> SUFFICES ASSUME WbInv, WriteRefused PROVE WbInv'
  OBVIOUS
<1>1. PICK z \in Zones, seen \in Glances :
        LET i == zms_wb_get(z, seen)
        IN  /\ i # NONE
            /\ Available(i)
            /\ Take(i)
            /\ write_buffer' = Assigned(z, seen)
  BY OfferedAreZones DEF WbInv, WriteRefused
<1> DEFINE i == zms_wb_get(z, seen)
<1>2. i \in Wbs /\ Contents(Assigned(z, seen), flushed, wp)
  BY <1>1, SearchFinds DEF WbInv
<1>3. Available(i) /\ Take(i) /\ write_buffer' = Assigned(z, seen)
  BY <1>1
<1> HIDE DEF i
<1>4. Contents(write_buffer', flushed', wp')
  BY <1>2, <1>3 DEF WriteRefused, zones
<1>5. /\ busy' \in [Wbs -> BOOLEAN] /\ releases' \in [Wbs -> Nat]
      /\ BusyUntilReleased'
  BY <1>2, <1>3, TakeBooks DEF WbInv, Bookkept
<1>6. WaitingOK' /\ HandlerOK'
  BY TurnsKeepType DEF WbInv, WriteRefused
<1> QED
  BY <1>4, <1>5, <1>6 DEF WbInv, ControlOK, Contents, Unshared, HoldsTail, HasBuffer

\* A read may leave its zone a buffer.
LEMMA WbReadKeeps == WbInv /\ Read => WbInv'
<1> SUFFICES ASSUME WbInv, Read PROVE WbInv'
  OBVIOUS
<1>1. PICK z \in Zones, seen \in Glances : write_buffer' = Assigned(z, seen)
  BY DEF Read
<1>2. Contents(Assigned(z, seen), flushed, wp)
  BY SearchFinds DEF WbInv
<1>3. Contents(write_buffer', flushed', wp')
  BY <1>1, <1>2 DEF Read, zones
<1>4. WaitingOK' /\ HandlerOK'
  BY TurnsKeepType DEF WbInv, Read
<1> QED
  BY <1>3, <1>4 DEF WbInv, ControlOK, BusyUntilReleased, Read,
                    Contents, Unshared, HoldsTail, HasBuffer

\* The buffer of a zone holds what the NAND lacks of it, be it nothing.
LEMMA OwnBufferHoldsTail ==
  ASSUME NEW b, NEW f, NEW w, Contents(b, f, w),
         NEW z \in Zones, NEW i \in Wbs, b[i].zid = z
  PROVE  b[i].pgs = w[z] - f[z]
<1>1. /\ b[i].pgs \in Nat /\ f[z] \in Nat /\ w[z] \in Nat /\ f[z] <= w[z]
      /\ b[i].pgs > 0 => b[i].pgs = w[z] - f[z]
  BY SizesAssumption DEF Contents, BufferType, HoldsTail, HasBuffer
<1>2. \A j \in Wbs : b[j].zid = z => j = i
  BY Ranges DEF Contents, Unshared
<1>3. f[z] < w[z] => b[i].pgs > 0
  BY <1>2 DEF Contents, HasBuffer
<1> QED
  BY <1>1, <1>3

\* An accepted write extends the tail of its zone; full loads go to the NAND.
LEMMA AcceptedKeeps == WbInv /\ WriteAccepted => WbInv'
<1> SUFFICES ASSUME WbInv, WriteAccepted PROVE WbInv'
  OBVIOUS
<1>1. PICK z \in Zones, c \in Writes, seen \in Glances :
        LET i     == zms_wb_get(z, seen)
            end   == wp[z] + c.pgs
            total == write_buffer[i].pgs + c.pgs
            kept  == Kept(total)
        IN  /\ WriteChecked(z, c)
            /\ i # NONE
            /\ Assigned(z, seen)[i].zid = z
            /\ Available(i)
            /\ Take(i)
            /\ flushed' = [flushed EXCEPT ![z] = @ + total - kept]
            /\ write_buffer' = [write_buffer EXCEPT ![i] =
                 IF kept = 0 THEN Empty ELSE [zid |-> z, start |-> end - kept, pgs |-> kept]]
            /\ wp' = [wp EXCEPT ![z] = end]
  BY OfferedAreZones DEF WbInv, WriteAccepted
<1> DEFINE i     == zms_wb_get(z, seen)
           b     == Assigned(z, seen)
           end   == wp[z] + c.pgs
           total == write_buffer[i].pgs + c.pgs
           kept  == Kept(total)
           r     == IF kept = 0 THEN Empty ELSE [zid |-> z, start |-> end - kept, pgs |-> kept]
<1>2. /\ Available(i) /\ Take(i)
      /\ flushed' = [flushed EXCEPT ![z] = flushed[z] + total - kept]
      /\ write_buffer' = [write_buffer EXCEPT ![i] = r]
      /\ wp' = [wp EXCEPT ![z] = end]
      /\ end <= PgsPerZone /\ b[i].zid = z
  BY <1>1 DEF WriteChecked
<1>3. /\ i \in Wbs /\ Contents(b, flushed, wp)
      /\ b[i].pgs = write_buffer[i].pgs
      /\ \A j \in Wbs : j # i => b[j] = write_buffer[j]
  BY <1>1, SearchFinds DEF WbInv
<1> HIDE DEF i, b
<1>4. write_buffer[i].pgs = wp[z] - flushed[z]
  BY <1>2, <1>3, OwnBufferHoldsTail
<1>5. /\ wp[z] \in Nat /\ flushed[z] \in Nat /\ flushed[z] <= wp[z]
      /\ c.pgs \in Nat /\ c.pgs > 0
  BY SizesAssumption DEF WbInv, Contents, HasBuffer, Writes
<1>6. total \in Nat /\ end \in Nat /\ total = end - flushed[z]
  BY <1>4, <1>5
<1>7. kept \in 0 .. WbPgs - 1 /\ kept <= total
  BY <1>6, KeptBounds
<1> HIDE DEF total, kept, end
<1>8. flushed[z] + total - kept = end - kept
  BY <1>5, <1>6, <1>7, SizesAssumption
<1>9. end - kept \in 0 .. PgsPerZone /\ end \in 0 .. PgsPerZone
  BY <1>2, <1>5, <1>6, <1>7, SizesAssumption
<1>10. r \in BufferType
  BY <1>7, <1>9, Ranges DEF BufferType
<1>11. \/ r = Empty /\ end - kept = end
       \/ r.zid = z /\ r.start = end - kept /\ r.pgs > 0 /\ r.pgs = end - (end - kept)
  BY <1>6, <1>7, SizesAssumption
<1> HIDE DEF r
<1>12. Contents([b EXCEPT ![i] = r], [flushed EXCEPT ![z] = end - kept],
                [wp EXCEPT ![z] = end])
  BY <1>2, <1>3, <1>9, <1>10, <1>11, ZoneSettled
<1>13. write_buffer' = [b EXCEPT ![i] = r]
  BY <1>2, <1>3 DEF WbInv, Contents
<1>14. Contents(write_buffer', flushed', wp')
  BY <1>2, <1>8, <1>12, <1>13
<1>15. /\ busy' \in [Wbs -> BOOLEAN] /\ releases' \in [Wbs -> Nat]
       /\ BusyUntilReleased'
  BY <1>2, <1>3, TakeBooks DEF WbInv, Bookkept
<1>16. WaitingOK' /\ HandlerOK'
  BY TurnsKeepType DEF WbInv, WriteAccepted
<1> QED
  BY <1>14, <1>15, <1>16 DEF WbInv, ControlOK, Contents, Unshared, HoldsTail, HasBuffer

\* A reset drops what is buffered of its zone, and of no other.
LEMMA ResetKeeps == WbInv /\ Reset => WbInv'
<1> SUFFICES ASSUME WbInv, Reset PROVE WbInv'
  OBVIOUS
<1>1. PICK z \in Zones, seen \in Glances :
        LET holds(i) == write_buffer[i].zid = z /\ wb_hit(i, flushed[z])
        IN  /\ write_buffer' = [i \in Wbs |-> IF holds(i) THEN Empty ELSE Assigned(z, seen)[i]]
            /\ wp' = [wp EXCEPT ![z] = 0]
            /\ flushed' = [flushed EXCEPT ![z] = 0]
  BY DEF Reset
<1> DEFINE holds(i) == write_buffer[i].zid = z /\ wb_hit(i, flushed[z])
           b        == Assigned(z, seen)
<1>2. /\ Contents(b, flushed, wp)
      /\ OwnedBy(z) # {} => b = write_buffer
      /\ OwnedBy(z) = {} => \A j \in Wbs : b[j].zid = z => b[j].pgs = 0
  BY SearchFinds DEF WbInv
<1>3. ASSUME NEW i \in Wbs
      PROVE  holds(i) <=> (write_buffer[i].zid = z /\ write_buffer[i].pgs > 0)
  <2>1. /\ write_buffer[i].pgs \in Nat /\ flushed[z] \in Nat /\ write_buffer[i].start \in Nat
        /\ write_buffer[i].pgs > 0 /\ write_buffer[i].zid = z => write_buffer[i].start = flushed[z]
    BY SizesAssumption DEF WbInv, Contents, BufferType, HoldsTail
  <2> QED
    BY <2>1 DEF wb_hit
<1>4. write_buffer' = [i \in Wbs |-> IF holds(i) THEN Empty ELSE b[i]]
  BY <1>1
<1> HIDE DEF holds, b
<1>5. b \in [Wbs -> BufferType] /\ 0 \in 0 .. PgsPerZone
  BY <1>2, Ranges DEF Contents
<1>6. Contents(write_buffer', flushed', wp')
  <2>1. CASE \E i \in Wbs : holds(i)
    <3>1. PICK i \in Wbs : holds(i)
      BY <2>1
    <3>2. write_buffer[i].zid = z /\ b = write_buffer
      BY <1>2, <1>3, <3>1 DEF OwnedBy
    <3>3. \A j \in Wbs : holds(j) => j = i
      BY <1>3, <3>2, Ranges DEF WbInv, Contents, Unshared
    <3>4. write_buffer' = [b EXCEPT ![i] = Empty]
      BY <1>4, <1>5, <3>1, <3>3
    <3>5. Contents([b EXCEPT ![i] = Empty], [flushed EXCEPT ![z] = 0], [wp EXCEPT ![z] = 0])
      BY <1>2, <1>5, <3>2, ZoneSettled, Ranges
    <3> QED
      BY <1>1, <3>4, <3>5
  <2>2. CASE ~\E i \in Wbs : holds(i)
    <3>1. write_buffer' = b
      BY <1>4, <1>5, <2>2
    <3>2. \A i \in Wbs : write_buffer[i].zid = z => write_buffer[i].pgs = 0
      BY <1>3, <2>2, SizesAssumption DEF WbInv, Contents, BufferType
    <3>3. \A i \in Wbs : b[i].zid = z => b[i].pgs = 0
      BY <1>2, <3>2
    <3>4. Contents(b, [flushed EXCEPT ![z] = 0], [wp EXCEPT ![z] = 0])
      BY <1>2, <3>3, ZoneCleared
    <3> QED
      BY <1>1, <3>1, <3>4
  <2> QED
    BY <2>1, <2>2
<1>7. WaitingOK' /\ HandlerOK'
  BY TurnsKeepType DEF WbInv, Reset
<1> QED
  BY <1>6, <1>7 DEF WbInv, ControlOK, BusyUntilReleased, Reset,
                    Contents, Unshared, HoldsTail, HasBuffer

\* A flush leaves nothing of any zone behind.
LEMMA FlushDrains == WbInv /\ Flush => flushed' = wp /\ wp' = wp
<1> SUFFICES ASSUME WbInv, Flush PROVE flushed' = wp
  BY DEF Flush
<1>1. /\ flushed' = [z \in Zones |-> flushed[z] + FlushedFrom(Dirty, z)]
      /\ wp \in [Zones -> 0 .. PgsPerZone] /\ flushed \in [Zones -> 0 .. PgsPerZone]
  BY DEF Flush, WbInv, Contents
<1>2. ASSUME NEW z \in Zones
      PROVE  flushed[z] + FlushedFrom(Dirty, z) = wp[z]
  <2>1. Dirty \in SUBSET Wbs
    BY DEF Dirty
  <2>2. wp[z] \in Nat /\ flushed[z] \in Nat
    BY <1>1
  <2>3. CASE FlushedFrom(Dirty, z) = wp[z] - flushed[z]
    BY <2>2, <2>3
  <2>4. CASE /\ FlushedFrom(Dirty, z) = 0
             /\ \A i \in Dirty : ~(write_buffer[i].zid = z /\ write_buffer[i].pgs > 0)
    <3>1. flushed[z] <= wp[z] /\ ~(flushed[z] < wp[z])
      BY <2>4 DEF WbInv, Contents, HasBuffer, Dirty
    <3> QED
      BY <2>2, <2>4, <3>1
  <2> QED
    BY <2>1, <2>3, <2>4, FlushedFromBuffer DEF WbInv
<1> QED
  BY <1>1, <1>2

\* After a flush there is neither data in the buffers nor a tail to hold.
LEMMA FlushKeeps == WbInv /\ Flush => WbInv'
<1> SUFFICES ASSUME WbInv, Flush PROVE WbInv'
  OBVIOUS
<1>1. /\ write_buffer \in [Wbs -> BufferType]
      /\ wp \in [Zones -> 0 .. PgsPerZone]
      /\ Unshared(write_buffer)
      /\ flushed' = wp /\ wp' = wp
  BY FlushDrains DEF WbInv, Contents
<1>2. write_buffer' = [i \in Wbs |-> IF i \in Dirty THEN Empty ELSE write_buffer[i]]
  BY DEF Flush
<1>3. /\ write_buffer' \in [Wbs -> BufferType]
      /\ \A i \in Wbs : /\ write_buffer'[i].pgs = 0
                         /\ write_buffer'[i].zid \in {NONE, write_buffer[i].zid}
  <2>1. ASSUME NEW i \in Wbs
        PROVE  /\ write_buffer'[i] \in BufferType /\ write_buffer'[i].pgs = 0
               /\ write_buffer'[i].zid \in {NONE, write_buffer[i].zid}
    <3>1. write_buffer[i] \in BufferType
      BY <1>1
    <3>2. CASE i \in Dirty
      BY <1>2, <3>2, Ranges DEF Empty
    <3>3. CASE i \notin Dirty
      BY <1>2, <3>1, <3>3, SizesAssumption DEF Dirty, BufferType
    <3> QED
      BY <3>2, <3>3
  <2> QED
    BY <1>2, <2>1
<1>4. Unshared(write_buffer')
  BY <1>1, <1>3 DEF Unshared
<1>5. HoldsTail(write_buffer', wp, wp)
  BY <1>3 DEF HoldsTail
<1>6. HasBuffer(write_buffer', wp, wp)
  BY <1>1, SizesAssumption DEF HasBuffer
<1>7. Contents(write_buffer', flushed', wp')
  BY <1>1, <1>3, <1>4, <1>5, <1>6 DEF Contents
<1>8. WaitingOK' /\ HandlerOK'
  BY TurnsKeepType DEF WbInv, Flush
<1> QED
  BY <1>7, <1>8 DEF WbInv, ControlOK, BusyUntilReleased, Flush,
                    Contents, Unshared, HoldsTail, HasBuffer

\* The turns without a command, and the releases, leave the contents alone.
LEMMA OthersKeep ==
  WbInv /\ (SkipQueue \/ TakeUp \/ (\E i \in Wbs : Release(i)) \/ UNCHANGED wbVars) => WbInv'
<1> SUFFICES ASSUME WbInv PROVE
      SkipQueue \/ TakeUp \/ (\E i \in Wbs : Release(i)) \/ UNCHANGED wbVars => WbInv'
  OBVIOUS
<1>1. ASSUME UNCHANGED <<wp, flushed, write_buffer>>
      PROVE  Contents(write_buffer, flushed, wp)'
  BY <1>1 DEF WbInv, Contents, Unshared, HoldsTail, HasBuffer
<1>2. ASSUME SkipQueue PROVE WbInv'
  BY <1>1, <1>2, TurnsKeepType
  DEF WbInv, ControlOK, WaitingOK, BusyUntilReleased, SkipQueue, zones
<1>3. ASSUME TakeUp PROVE WbInv'
  <2>1. HandlerOK'
    BY <1>3 DEF WbInv, ControlOK, HandlerOK, TakeUp
  <2> QED
    BY <1>1, <1>3, <2>1 DEF WbInv, ControlOK, WaitingOK, BusyUntilReleased, TakeUp, zones
<1>4. ASSUME NEW i \in Wbs, Release(i) PROVE WbInv'
  BY <1>1, <1>4, ReleaseBooks DEF WbInv, Bookkept, Release, zones
<1>5. ASSUME UNCHANGED wbVars PROVE WbInv'
  BY <1>1, <1>5
  DEF WbInv, ControlOK, WaitingOK, HandlerOK, BusyUntilReleased, wbVars, zones
<1> QED
  BY <1>2, <1>3, <1>4, <1>5

-----------------------------------------------------------------------------
(* The theorems.                                                           *)

\* WbInv is inductive.
THEOREM BufferInvariant == WbSpec => []WbInv
<1>1. WbInit => WbInv
  <2> SUFFICES ASSUME WbInit PROVE WbInv
    OBVIOUS
  <2>1. Contents(write_buffer, flushed, wp)
    BY Ranges DEF WbInit, Contents, Unshared, HoldsTail, HasBuffer, Empty, BufferType
  <2>2. ControlOK
    BY SizesAssumption DEF WbInit, ControlOK, WaitingOK, HandlerOK, Queues
  <2>3. BusyUntilReleased
    BY DEF WbInit, BusyUntilReleased
  <2> QED
    BY <2>1, <2>2, <2>3 DEF WbInv
<1>2. WbInv /\ [WbNext]_wbVars => WbInv'
  BY WaitsKeeps, EvictsKeeps, RefusedKeeps, AcceptedKeeps, WbReadKeeps, ResetKeeps,
     FlushKeeps, OthersKeep
  DEF WbNext, Dispatch
<1> QED
  BY <1>1, <1>2, PTL DEF WbSpec

\* Every variable keeps its type, and "different zones should not share a write
\* buffer", nor does a zone have two (__zms_wb_get).
THEOREM BuffersAreUnshared == WbSpec => []OneBufferPerZone
<1>1. WbInv => OneBufferPerZone
  BY DEF WbInv, Contents, ControlOK, WaitingOK, HandlerOK, Unshared, BufferType,
         OneBufferPerZone, WbTypeOK
<1> QED
  BY <1>1, BufferInvariant, PTL

\* Exactly one release of a busy buffer is to come, and none of another
\* (buffer_allocate, schedule_internal_operation, buffer_release).
THEOREM OneReleasePerUse == WbSpec => []BusyUntilReleased
<1>1. WbInv => BusyUntilReleased
  BY DEF WbInv
<1> QED
  BY <1>1, BufferInvariant, PTL

\* What was written to a zone and is not in the NAND is in one buffer, whole
\* and in order, and buffers hold nothing else (handle_write_request,
\* buffer_flush, zone_reset).
THEOREM TailIsBuffered == WbSpec => []BuffersHoldTheTail
<1>1. WbInv => BuffersHoldTheTail
  <2> SUFFICES ASSUME WbInv PROVE BuffersHoldTheTail
    OBVIOUS
  <2>1. ASSUME NEW z \in Zones, flushed[z] < wp[z]
        PROVE  \E i \in Wbs : write_buffer[i] =
                 [zid |-> z, start |-> flushed[z], pgs |-> wp[z] - flushed[z]]
    <3>1. PICK i \in Wbs : write_buffer[i].zid = z /\ write_buffer[i].pgs > 0
      BY <2>1 DEF WbInv, Contents, HasBuffer
    <3>2. /\ write_buffer[i] \in BufferType
          /\ write_buffer[i].start = flushed[z] /\ write_buffer[i].pgs = wp[z] - flushed[z]
      BY <3>1 DEF WbInv, Contents, HoldsTail
    <3> QED
      BY <3>1, <3>2 DEF BufferType
  <2>2. \A i \in Dirty : LET z == write_buffer[i].zid
                         IN  z \in Zones /\ write_buffer[i].pgs = wp[z] - flushed[z]
    BY DEF WbInv, Contents, HoldsTail, Dirty
  <2> QED
    BY <2>1, <2>2 DEF BuffersHoldTheTail
<1> QED
  BY <1>1, BufferInvariant, PTL

\* When a flush is answered, all that was written is in the NAND (zns_flush).
THEOREM FlushIsComplete == WbSpec => FlushLeavesNothing
<1>1. WbInv /\ [WbNext]_wbVars => [Flush => flushed' = wp']_wbVars
  BY FlushDrains
<1> QED
  BY <1>1, BufferInvariant, PTL DEF WbSpec, FlushLeavesNothing

==============================================================================
