-------------------------- MODULE NandTimingProofs --------------------------
(***************************************************************************)
(* Proofs about NandTiming, for any planes and blocks, latencies, lengths  *)
(* of the ring of credits and of its intervals, and for every order in     *)
(* which the planes are asked, at whatever times.                          *)
(*                                                                         *)
(* The inductive invariant, TimingInv, says of each plane that its queue   *)
(* is in order and that it knows of its migrations (PlaneOK), and of the   *)
(* channel that the intervals beyond the valid ones are untouched          *)
(* (ChannelOK).  The planes do not share anything but the channel, and the *)
(* channel does not depend on them, so each part is proved on its own: what*)
(* a plane needs to know of the channel is that no transfer ends before it *)
(* begins.                                                                 *)
(***************************************************************************)
EXTENDS NandTiming, FiniteSetTheorems, WellFoundedInduction, TLAPS

-----------------------------------------------------------------------------
(* The inductive invariant.                                                *)

Command == [type : IoTypes, blk : Blocks, stime : Nat, ctime : Nat]

PlaneType == [cmd_queue : Seq(Command), next_pln_avail_time : Nat,
              migrating : BOOLEAN, migrating_etime : Nat]

\* The commands of a plane follow one another, and it is available after the last.
InTurn(pl) ==
  /\ \A i \in DOMAIN pl.cmd_queue :
       /\ pl.cmd_queue[i].stime <= pl.cmd_queue[i].ctime
       /\ pl.cmd_queue[i].ctime <= pl.next_pln_avail_time
  /\ \A i, j \in DOMAIN pl.cmd_queue : i < j => pl.cmd_queue[i].ctime <= pl.cmd_queue[j].stime

\* The plane knows of its migrations.
Knows(pl) ==
  \A i \in DOMAIN pl.cmd_queue :
    pl.cmd_queue[i].type = "MIGRATE_IO" => pl.migrating /\ pl.cmd_queue[i].ctime <= pl.migrating_etime

PlaneOK(pl) == pl \in PlaneType /\ InTurn(pl) /\ Knows(pl)

ChannelType == [cur_time : 0 .. MaxTime, head : Entries, valid_len : 0 .. NrCreditEntries,
                avail_credits : [Entries -> 0 .. MaxCredits]]

\* Nobody took credits of the intervals beyond the valid ones.
ChannelOK(ch) ==
  /\ ch \in ChannelType
  /\ \A i \in Entries : i >= ch.valid_len => ch.avail_credits[EntryAt(ch, i)] = MaxCredits

TimingInv ==
  /\ ChannelOK(channel)
  /\ plane = [p \in Planes |-> plane[p]]
  /\ \A p \in Planes : PlaneOK(plane[p])

-----------------------------------------------------------------------------
(* Numbers.                                                                *)

\* A set of numbers that is not empty has a least one.
LEMMA LeastNumber ==
  ASSUME NEW S \in SUBSET Nat, S # {}
  PROVE  \E i \in S : \A j \in S : i <= j
<1>1. PICK i \in S : \A j \in S : <<j, i>> \notin OpToRel(<, Nat)
  BY NatLessThanWellFounded, WFMin
<1>2. \A j \in S : ~(j < i)
  BY <1>1 DEF OpToRel
<1> QED
  BY <1>2

\* That is Min.
LEMMA MinOfSet ==
  ASSUME NEW S \in SUBSET Nat, S # {}
  PROVE  Min(S) \in S /\ \A j \in S : Min(S) <= j
BY LeastNumber DEF Min

\* A set of numbers that is bounded has a greatest one.
LEMMA MaxOfSet ==
  ASSUME NEW S \in SUBSET Nat, S # {}, NEW b \in Nat, \A j \in S : j <= b
  PROVE  Max(S) \in S /\ \A j \in S : j <= Max(S)
<1> DEFINE above == {n \in Nat : \A j \in S : j <= n}
<1>1. PICK m \in above : \A n \in above : m <= n
  <2>1. b \in above /\ above \in SUBSET Nat
    OBVIOUS
  <2> HIDE DEF above
  <2> QED
    BY <2>1, LeastNumber
<1>2. m \in S
  <2> SUFFICES ASSUME m \notin S PROVE FALSE
    OBVIOUS
  <2>1. PICK j \in S : TRUE
    OBVIOUS
  <2>2. m \in Nat /\ \A x \in S : x < m
    BY <1>1
  <2>3. m - 1 \in above
    BY <2>1, <2>2
  <2> QED
    BY <1>1, <2>2, <2>3
<1>3. \E x \in S : \A y \in S : x >= y
  BY <1>1, <1>2
<1> QED
  BY <1>3 DEF Max

\* Of two numbers.
LEMMA MaxOfTwo ==
  ASSUME NEW a \in Int, NEW b \in Int
  PROVE  Max({a, b}) = IF a >= b THEN a ELSE b
<1>1. CASE a >= b
  <2>1. \A x \in {a, b} : (\A y \in {a, b} : x >= y) <=> x = a
    BY <1>1
  <2> QED
    BY <1>1, <2>1 DEF Max
<1>2. CASE b > a
  <2>1. \A x \in {a, b} : (\A y \in {a, b} : x >= y) <=> x = b
    BY <1>2
  <2> QED
    BY <1>2, <2>1 DEF Max
<1> QED
  BY <1>1, <1>2

LEMMA MinOfTwo ==
  ASSUME NEW a \in Int, NEW b \in Int
  PROVE  Min({a, b}) = IF a <= b THEN a ELSE b
<1>1. CASE a <= b
  <2>1. \A x \in {a, b} : (\A y \in {a, b} : x =< y) <=> x = a
    BY <1>1
  <2> QED
    BY <1>1, <2>1 DEF Min
<1>2. CASE b < a
  <2>1. \A x \in {a, b} : (\A y \in {a, b} : x =< y) <=> x = b
    BY <1>2
  <2> QED
    BY <1>2, <2>1 DEF Min
<1> QED
  BY <1>1, <1>2

\* On a ring of s entries a sum of two places is taken modulo s.
LEMMA Remainder ==
  ASSUME NEW s \in Nat \ {0}, NEW n \in 0 .. 2 * s - 1
  PROVE  n % s = IF n < s THEN n ELSE n - s
<1> DEFINE q == n \div s
           r == n % s
<1>1. q \in Nat /\ r \in 0 .. s - 1 /\ n = (s * q) + r
  OBVIOUS
<1> HIDE DEF q, r
<1>2. CASE q = 0
  BY <1>1, <1>2
<1>3. CASE q = 1
  BY <1>1, <1>3
<1>4. CASE q > 1
  <2>1. PICK m \in Nat : q = m + 2
    BY <1>1, <1>4
  <2>2. s * q = s * m + 2 * s
    BY <1>1, <2>1
  <2>3. s * m \in Nat
    BY \A a, b \in Nat : a * b \in Nat
  <2> QED
    BY <1>1, <2>2, <2>3
<1>5. n % s = r
  BY DEF r
<1> QED
  BY <1>1, <1>2, <1>3, <1>4, <1>5

\* What is not greater has not the greater quotient.
LEMMA QuotientsInOrder ==
  ASSUME NEW u \in Nat \ {0}, NEW a \in Nat, NEW b \in Nat, a <= b
  PROVE  a \div u \in Nat /\ b \div u \in Nat /\ a \div u <= b \div u
<1> DEFINE p == a \div u
           q == b \div u
           r == a % u
           s == b % u
<1>1. p \in Nat /\ q \in Nat /\ r \in 0 .. u - 1 /\ s \in 0 .. u - 1 /\ a = (u * p) + r /\ b = (u * q) + s
  OBVIOUS
<1> HIDE DEF p, q, r, s
<1>2. p <= q
  <2> SUFFICES ASSUME p > q PROVE FALSE
    BY <1>1
  <2>1. PICK m \in Nat : p = q + (m + 1)
    <3>1. p - q - 1 \in Nat /\ p = q + ((p - q - 1) + 1)
      BY <1>1
    <3> QED
      BY <3>1
  <2>2. u * (q + (m + 1)) = u * q + u * m + u
    BY <1>1, <2>1
  <2>3. u * m \in Nat /\ u * q \in Nat
    BY <1>1, <2>1, \A x, y \in Nat : x * y \in Nat
  <2>4. a = u * q + u * m + u + r
    BY <1>1, <2>1, <2>2
  <2> QED
    BY <1>1, <2>3, <2>4
<1> QED
  BY <1>1, <1>2 DEF p, q

\* Later times are in later intervals.
LEMMA IntervalsInOrder ==
  ASSUME NEW a \in Nat, NEW b \in Nat, a <= b
  PROVE  Interval(a) \in Nat /\ Interval(b) \in Nat /\ Interval(a) <= Interval(b)
BY QuotientsInOrder, ChannelAssumption DEF Interval

-----------------------------------------------------------------------------
(* The queue of a plane.                                                   *)

\* A finite set of positions can be put in order.
LEMMA PositionsInOrder ==
  ASSUME NEW n \in Nat, NEW S \in SUBSET (1 .. n)
  PROVE  /\ Cardinality(S) \in Nat
         /\ InOrder(S) \in [1 .. Cardinality(S) -> S]
         /\ \A i, j \in 1 .. Cardinality(S) : i < j => InOrder(S)[i] < InOrder(S)[j]
<1> DEFINE Ordered(T) == \E f \in [1 .. Cardinality(T) -> T] :
                           \A i, j \in 1 .. Cardinality(T) : i < j => f[i] < f[j]
           Bad        == {m \in Nat : \E T \in SUBSET (1 .. m) : ~Ordered(T)}
<1>1. \A m \in Nat : \A T \in SUBSET (1 .. m) : IsFiniteSet(T) /\ Cardinality(T) \in Nat
  <2> TAKE m \in Nat
  <2> TAKE T \in SUBSET (1 .. m)
  <2>1. IsFiniteSet(1 .. m)
    BY FS_Interval
  <2>2. IsFiniteSet(T)
    BY <2>1, FS_Subset
  <2> QED
    BY <2>2, FS_CardinalityType
<1>2. Bad = {}
  <2> SUFFICES ASSUME Bad # {} PROVE FALSE
    OBVIOUS
  <2>1. PICK m \in Bad : \A k \in Bad : m <= k
    BY LeastNumber
  <2>2. PICK T \in SUBSET (1 .. m) : ~Ordered(T)
    BY <2>1
  <2>3. m \in Nat /\ (m = 0 \/ m - 1 \in Nat)
    BY <2>1
  <2>4. T # {}
    <3> SUFFICES ASSUME T = {} PROVE FALSE
      OBVIOUS
    <3>1. Cardinality(T) = 0
      BY FS_EmptySet
    <3>2. [x \in 1 .. Cardinality(T) |-> x] \in [1 .. Cardinality(T) -> T]
      BY <3>1
    <3>3. \A i, j \in 1 .. Cardinality(T) : FALSE
      BY <3>1
    <3>4. Ordered(T)
      BY <3>2, <3>3
    <3> QED
      BY <2>2, <3>4
  <2>5. m # 0 /\ m - 1 \in Nat /\ m - 1 \notin Bad
    <3>1. m # 0
      <4>1. PICK x \in T : x \in 1 .. m
        BY <2>4
      <4> QED
        BY <2>3, <4>1
    <3>2. m - 1 \in Nat /\ m - 1 < m
      BY <2>3, <3>1
    <3> HIDE DEF Bad
    <3> QED
      BY <2>1, <2>3, <3>1, <3>2
  <2>6. \A U \in SUBSET (1 .. m - 1) : Ordered(U)
    BY <2>5
  <2>7. m \in T
    <3> SUFFICES ASSUME m \notin T PROVE FALSE
      OBVIOUS
    <3>1. T \in SUBSET (1 .. m - 1)
      BY <2>3
    <3> QED
      BY <2>2, <2>6, <3>1
  <2> DEFINE U == T \ {m}
             c == Cardinality(U)
  <2>8. U \in SUBSET (1 .. m - 1)
    BY <2>3
  <2>9. c \in Nat /\ Cardinality(T) = c + 1
    <3>1. IsFiniteSet(T)
      BY <1>1, <2>3
    <3>2. c = Cardinality(T) - 1
      BY <2>7, <3>1, FS_RemoveElement
    <3>3. Cardinality(T) \in Nat
      BY <3>1, FS_CardinalityType
    <3>4. c \in Nat
      BY <1>1, <2>5, <2>8
    <3> HIDE DEF c
    <3> QED
      BY <3>2, <3>3, <3>4
  <2>10. Ordered(U)
    BY <2>6, <2>8
  <2>11. PICK f \in [1 .. c -> U] : \A i, j \in 1 .. c : i < j => f[i] < f[j]
    BY <2>10
  <2> DEFINE g == [i \in 1 .. c + 1 |-> IF i = c + 1 THEN m ELSE f[i]]
  <2> HIDE DEF c
  <2>12. g \in [1 .. c + 1 -> T]
    BY <2>7, <2>9, <2>11
  <2>13. ASSUME NEW i \in 1 .. c + 1, NEW j \in 1 .. c + 1, i < j PROVE g[i] < g[j]
    <3>1. i \in 1 .. c
      BY <2>9, <2>13
    <3> HIDE DEF U
    <3>4. f[i] \in 1 .. m - 1
      BY <2>8, <2>11, <3>1
    <3>2. CASE j = c + 1
      BY <2>3, <2>13, <3>1, <3>2, <3>4
    <3>3. CASE j # c + 1
      BY <2>9, <2>11, <2>13, <3>1, <3>3
    <3> QED
      BY <3>2, <3>3
  <2>14. Ordered(T)
    BY <2>9, <2>12, <2>13
  <2> QED
    BY <2>2, <2>14
<1>3. Ordered(S)
  BY <1>2
<1> QED
  BY <1>1, <1>3 DEF InOrder

\* What has an order is a sequence.
LEMMA IsSequence ==
  ASSUME NEW n \in Nat, NEW T, NEW f \in [1 .. n -> T]
  PROVE  f \in Seq(T) /\ Len(f) = n /\ DOMAIN f = 1 .. n
OBVIOUS

\* Clearing keeps the order of what is left, and the plane migrates while a migration is left.
LEMMA ClearedOK ==
  ASSUME NEW pl, PlaneOK(pl), NEW stime \in Nat
  PROVE  PlaneOK(Cleared(pl, stime))
<1> DEFINE queue == pl.cmd_queue
           left  == InOrder(Unfinished(pl, stime))
           n     == Cardinality(Unfinished(pl, stime))
           new   == [i \in DOMAIN left |-> queue[left[i]]]
           cl    == Cleared(pl, stime)
<1>1. /\ queue \in Seq(Command) /\ DOMAIN queue = 1 .. Len(queue) /\ Len(queue) \in Nat
      /\ \A i \in DOMAIN queue : queue[i] \in Command
      /\ pl \in PlaneType
  BY DEF PlaneOK, PlaneType
<1>2. Unfinished(pl, stime) \in SUBSET (1 .. Len(queue))
  BY <1>1 DEF Unfinished
<1>3. /\ n \in Nat /\ left \in [1 .. n -> Unfinished(pl, stime)]
      /\ \A i, j \in 1 .. n : i < j => left[i] < left[j]
  BY <1>1, <1>2, PositionsInOrder
<1>4. \A i \in 1 .. n : left[i] \in DOMAIN queue /\ queue[left[i]] \in Command /\ queue[left[i]].ctime >= stime
  BY <1>1, <1>3 DEF Unfinished
<1>5. new \in [1 .. n -> Command] /\ \A i \in 1 .. n : new[i] = queue[left[i]]
  BY <1>3, <1>4
<1> DEFINE goes == pl.migrating /\ stime <= pl.migrating_etime
<1>6. /\ cl.cmd_queue = new /\ cl.migrating = goes
      /\ cl.next_pln_avail_time = pl.next_pln_avail_time /\ cl.migrating_etime = pl.migrating_etime
      /\ cl = [cmd_queue |-> cl.cmd_queue, next_pln_avail_time |-> cl.next_pln_avail_time,
               migrating |-> cl.migrating, migrating_etime |-> cl.migrating_etime]
  <2>1. cl = [pl EXCEPT !.cmd_queue = new, !.migrating = goes]
    BY DEF Cleared
  <2> HIDE DEF new, goes, cl
  <2> QED
    BY <1>1, <2>1 DEF PlaneType
<1> HIDE DEF left, n, new, cl
<1>7. new \in Seq(Command) /\ DOMAIN new = 1 .. n
  BY <1>3, <1>5, IsSequence
<1>8. cl \in PlaneType
  <2>1. cl.migrating \in BOOLEAN
    BY <1>6
  <2>2. cl.next_pln_avail_time \in Nat /\ cl.migrating_etime \in Nat
    BY <1>1, <1>6 DEF PlaneType
  <2> QED
    BY <1>6, <1>7, <2>1, <2>2 DEF PlaneType
<1>9. InTurn(cl)
  <2>1. \A i \in DOMAIN new : new[i].stime <= new[i].ctime /\ new[i].ctime <= pl.next_pln_avail_time
    BY <1>4, <1>5, <1>7 DEF PlaneOK, InTurn
  <2>2. \A i, j \in DOMAIN new : i < j => new[i].ctime <= new[j].stime
    BY <1>3, <1>4, <1>5, <1>7 DEF PlaneOK, InTurn
  <2> QED
    BY <1>6, <2>1, <2>2 DEF InTurn
<1>10. Knows(cl)
  <2> SUFFICES ASSUME NEW i \in DOMAIN new, new[i].type = "MIGRATE_IO"
               PROVE  cl.migrating /\ new[i].ctime <= pl.migrating_etime
    BY <1>6 DEF Knows
  <2>1. pl.migrating /\ new[i].ctime <= pl.migrating_etime /\ new[i].ctime >= stime
    BY <1>4, <1>5, <1>7 DEF PlaneOK, Knows
  <2>2. new[i].ctime \in Nat /\ pl.migrating_etime \in Nat
    BY <1>1, <1>4, <1>5, <1>7 DEF Command, PlaneType
  <2>3. stime <= pl.migrating_etime
    BY <2>1, <2>2
  <2> QED
    BY <1>6, <2>1, <2>3
<1> QED
  BY <1>8, <1>9, <1>10 DEF PlaneOK, cl

\* What the invariant of a plane says of its commands.
LEMMA CommandFacts ==
  ASSUME NEW c \in Command
  PROVE  c.stime \in Nat /\ c.ctime \in Nat /\ c.type \in IoTypes /\ c.blk \in Blocks
BY DEF Command

LEMMA DelayedFacts ==
  ASSUME NEW c \in Command, NEW d \in Nat
  PROVE  LET x == Delayed(c, d)
         IN  x \in Command /\ x.type = c.type /\ x.stime = c.stime + d /\ x.ctime = c.ctime + d
<1> DEFINE s == c.stime + d
           e == c.ctime + d
<1>1. s \in Nat /\ e \in Nat
  BY CommandFacts
<1>2. Delayed(c, d) = [c EXCEPT !.stime = s, !.ctime = e]
  BY DEF Delayed
<1> HIDE DEF s, e
<1>3. Delayed(c, d) = [type |-> c.type, blk |-> c.blk, stime |-> s, ctime |-> e]
  BY <1>2 DEF Command
<1> QED
  BY <1>1, <1>3, CommandFacts DEF Command, s, e

LEMMA PlaneFacts ==
  ASSUME NEW pl, PlaneOK(pl), NEW q, q = pl.cmd_queue, NEW n, n = Len(q)
  PROVE  /\ q \in Seq(Command) /\ DOMAIN q = 1 .. n /\ n \in Nat
         /\ \A i \in 1 .. n : q[i] \in Command
         /\ \A i \in 1 .. n : q[i].stime \in Nat /\ q[i].ctime \in Nat
         /\ \A i \in 1 .. n : q[i].stime <= q[i].ctime /\ q[i].ctime <= pl.next_pln_avail_time
         /\ \A i, j \in 1 .. n : i < j => q[i].ctime <= q[j].stime
         /\ pl.next_pln_avail_time \in Nat /\ pl.migrating_etime \in Nat /\ pl.migrating \in BOOLEAN
<1>1. /\ q \in Seq(Command) /\ pl.next_pln_avail_time \in Nat
      /\ pl.migrating_etime \in Nat /\ pl.migrating \in BOOLEAN
  BY DEF PlaneOK, PlaneType
<1>2. DOMAIN q = 1 .. n /\ n \in Nat /\ \A i \in 1 .. n : q[i] \in Command
  BY <1>1
<1>3. \A i \in 1 .. n : q[i].stime \in Nat /\ q[i].ctime \in Nat
  BY <1>2, CommandFacts
<1>4. /\ \A i \in 1 .. n : q[i].stime <= q[i].ctime /\ q[i].ctime <= pl.next_pln_avail_time
      /\ \A i, j \in 1 .. n : i < j => q[i].ctime <= q[j].stime
  BY <1>2 DEF PlaneOK, InTurn
<1> QED
  BY <1>1, <1>2, <1>3, <1>4

\* What is in a sequence with an element inserted.
LEMMA InsertedAt ==
  ASSUME NEW T, NEW s \in Seq(T), NEW at \in 1 .. Len(s) + 1, NEW e \in T
  PROVE  LET t == InsertAt(s, at, e)
         IN  /\ t \in Seq(T) /\ Len(t) = Len(s) + 1 /\ DOMAIN t = 1 .. Len(s) + 1
             /\ \A k \in 1 .. Len(s) + 1 : t[k] = IF k < at THEN s[k] ELSE IF k = at THEN e ELSE s[k - 1]
<1> DEFINE a == SubSeq(s, 1, at - 1)
           b == SubSeq(s, at, Len(s))
           t == InsertAt(s, at, e)
<1>1. Len(s) \in Nat /\ at \in Nat /\ at - 1 \in 0 .. Len(s)
  OBVIOUS
<1>2. a \in Seq(T) /\ Len(a) = at - 1 /\ \A k \in 1 .. at - 1 : a[k] = s[k]
  BY <1>1
<1>3. b \in Seq(T) /\ Len(b) = Len(s) - at + 1 /\ \A k \in 1 .. Len(s) - at + 1 : b[k] = s[at + k - 1]
  BY <1>1
<1>4. t = (a \o <<e>>) \o b
  BY DEF InsertAt
<1> HIDE DEF a, b, t
<1>5. /\ a \o <<e>> \in Seq(T) /\ Len(a \o <<e>>) = at
      /\ \A k \in 1 .. at : (a \o <<e>>)[k] = IF k < at THEN s[k] ELSE e
  BY <1>1, <1>2
<1>6. t \in Seq(T) /\ Len(t) = Len(s) + 1 /\ DOMAIN t = 1 .. Len(s) + 1
  BY <1>1, <1>3, <1>4, <1>5
<1>7. ASSUME NEW k \in 1 .. Len(s) + 1
      PROVE  t[k] = IF k < at THEN s[k] ELSE IF k = at THEN e ELSE s[k - 1]
  <2>1. CASE k <= at
    BY <1>1, <1>3, <1>4, <1>5, <2>1
  <2>2. CASE k > at
    <3>1. t[k] = b[k - at]
      BY <1>1, <1>3, <1>4, <1>5, <2>2
    <3>2. b[k - at] = s[k - 1]
      BY <1>1, <1>3, <2>2
    <3> QED
      BY <1>1, <2>2, <3>1, <3>2
  <2> QED
    BY <1>1, <2>1, <2>2
<1> QED
  BY <1>6, <1>7 DEF t

\* A command begins when what is before it in the queue has ended; what it preempts begins then, or later.
LEMMA StartFacts ==
  ASSUME NEW pl, PlaneOK(pl), NEW ncmd, NEW stime \in Nat, NEW start, start = plane_getstime(pl, ncmd, stime)
  PROVE  /\ start.preemp \in BOOLEAN /\ start.at \in 1 .. Len(pl.cmd_queue) + 1 /\ start.stime \in Nat
         /\ \A i \in DOMAIN pl.cmd_queue : i < start.at => pl.cmd_queue[i].ctime <= start.stime
         /\ start.preemp => /\ start.at \in DOMAIN pl.cmd_queue
                            /\ start.stime = pl.cmd_queue[start.at].stime
         /\ ~start.preemp => /\ start.at = Len(pl.cmd_queue) + 1
                             /\ start.stime >= pl.next_pln_avail_time
<1> DEFINE queue  == pl.cmd_queue
           before == Preemptable(pl, ncmd, stime)
           preemp == ncmd.type # "MIGRATE_IO" /\ pl.migrating /\ before # {}
<1>1. /\ queue \in Seq(Command) /\ DOMAIN queue = 1 .. Len(queue) /\ Len(queue) \in Nat
      /\ \A i \in DOMAIN queue : queue[i].stime \in Nat /\ queue[i].ctime \in Nat
      /\ pl.next_pln_avail_time \in Nat
  BY PlaneFacts
<1>2. /\ start.preemp = preemp
      /\ start.at = IF preemp THEN Min(before) ELSE Len(queue) + 1
      /\ start.stime = IF preemp THEN queue[Min(before)].stime ELSE Max({pl.next_pln_avail_time, stime})
  BY DEF plane_getstime
<1>3. CASE preemp
  <2>1. before # {} /\ before \subseteq DOMAIN queue /\ before \subseteq Nat
    BY <1>1, <1>3 DEF Preemptable
  <2>2. Min(before) \in before
    BY <2>1, MinOfSet
  <2>3. start.at \in DOMAIN queue /\ start.stime = queue[start.at].stime
    BY <1>2, <1>3, <2>1, <2>2
  <2>4. \A i \in DOMAIN queue : i < start.at => queue[i].ctime <= start.stime
    BY <2>3 DEF PlaneOK, InTurn
  <2>5. start.at \in 1 .. Len(queue) + 1 /\ start.stime \in Nat
    BY <1>1, <2>3
  <2>6. start.preemp = TRUE
    <3> HIDE DEF before
    <3> QED
      BY <1>2, <1>3
  <2> QED
    BY <2>3, <2>4, <2>5, <2>6
<1>4. CASE ~preemp
  <2>1. start.at = Len(queue) + 1 /\ start.stime = Max({pl.next_pln_avail_time, stime})
    BY <1>2, <1>4
  <2>2. start.stime \in Nat /\ start.stime >= pl.next_pln_avail_time
    BY <1>1, <2>1, MaxOfTwo
  <2>3. \A i \in DOMAIN queue : queue[i].ctime <= start.stime
    <3> TAKE i \in DOMAIN queue
    <3>1. queue[i].ctime <= pl.next_pln_avail_time /\ queue[i].ctime \in Nat
      BY <1>1 DEF PlaneOK, InTurn
    <3> QED
      BY <1>1, <2>2, <3>1
  <2>4. start.at \in 1 .. Len(queue) + 1
    BY <1>1, <2>1
  <2>5. start.preemp = FALSE
    <3> HIDE DEF before
    <3> QED
      BY <1>2, <1>4
  <2> QED
    BY <2>1, <2>2, <2>3, <2>4, <2>5
<1> QED
  BY <1>3, <1>4

\* The end of the migrations is no earlier than before, and not before that of
\* a command that is looked at.
LEMMA MigrationEndFacts ==
  ASSUME NEW pl, pl.migrating_etime \in Nat, NEW queue \in Seq(Command), NEW b \in Nat,
         \A i \in DOMAIN queue : queue[i].ctime <= b, NEW at \in Nat \ {0}
  PROVE  /\ MigrationEnd(pl, queue, at) \in Nat
         /\ pl.migrating_etime <= MigrationEnd(pl, queue, at)
         /\ \A i \in at .. Len(queue) :
              queue[i].type = "MIGRATE_IO" => queue[i].ctime <= MigrationEnd(pl, queue, at)
<1> DEFINE ends == {pl.migrating_etime} \cup
                   {queue[i].ctime : i \in {j \in at .. Len(queue) : queue[j].type = "MIGRATE_IO"}}
<1>1. \A i \in at .. Len(queue) : i \in DOMAIN queue /\ queue[i].ctime \in Nat
  <2> TAKE i \in at .. Len(queue)
  <2>1. i \in DOMAIN queue
    OBVIOUS
  <2>2. queue[i] \in Command
    BY <2>1
  <2> QED
    BY <2>1, <2>2, CommandFacts
<1>2. ends \in SUBSET Nat /\ ends # {}
  BY <1>1
<1>3. \A x \in ends : x <= b + pl.migrating_etime
  BY <1>1
<1>4. /\ pl.migrating_etime \in ends
      /\ \A i \in at .. Len(queue) : queue[i].type = "MIGRATE_IO" => queue[i].ctime \in ends
  OBVIOUS
<1>5. MigrationEnd(pl, queue, at) = Max(ends)
  BY DEF MigrationEnd
<1> HIDE DEF ends
<1>6. Max(ends) \in ends /\ \A x \in ends : x <= Max(ends)
  <2>1. b + pl.migrating_etime \in Nat
    OBVIOUS
  <2> QED
    BY <1>2, <1>3, <2>1, MaxOfSet
<1> QED
  BY <1>2, <1>4, <1>5, <1>6

\* The first n of the commands q are in order and end by over.
OrderedBy(q, n, over) ==
  /\ \A i \in 1 .. n : q[i] \in Command
  /\ \A i \in 1 .. n : q[i].stime <= q[i].ctime /\ q[i].ctime <= over
  /\ \A i, j \in 1 .. n : i < j => q[i].ctime <= q[j].stime

\* queue is old, which has n commands, with cmd in a place and what is behind it delayed.
PlacedAt(queue, old, n, at, cmd, delay) ==
  \A k \in 1 .. n + 1 : queue[k] = IF k < at THEN old[k] ELSE IF k = at THEN cmd ELSE Delayed(old[k - 1], delay)

\* Between what ends before it begins and what begins no earlier, or after all.
Fits(old, n, at, begin, over) ==
  /\ \A i \in 1 .. n : i < at => old[i].ctime <= begin
  /\ at <= n => begin = old[at].stime
  /\ at > n => begin >= over

\* What is in order stays so when a command is put in its place and what is behind it is delayed by as
\* long as it takes.
LEMMA InPlace ==
  ASSUME NEW n \in Nat, NEW old, NEW over \in Nat, OrderedBy(old, n, over),
         NEW at \in 1 .. n + 1, NEW begin \in Nat, Fits(old, n, at, begin, over),
         NEW delay \in Nat, NEW cmd \in Command, cmd.stime = begin, cmd.ctime = begin + delay,
         NEW queue, PlacedAt(queue, old, n, at, cmd, delay),
         NEW avail, avail = IF at <= n THEN over + delay ELSE begin + delay
  PROVE  /\ avail \in Nat /\ OrderedBy(queue, n + 1, avail)
         /\ \A k \in 1 .. n + 1 : k > at => k - 1 \in 1 .. n /\ queue[k].type = old[k - 1].type
\* The times before, and after.
<1>1. PICK S : S = [i \in 1 .. n |-> old[i].stime]
  OBVIOUS
<1>2. PICK E : E = [i \in 1 .. n |-> old[i].ctime]
  OBVIOUS
<1>3. \A i \in 1 .. n : S[i] = old[i].stime /\ E[i] = old[i].ctime /\ S[i] \in Nat /\ E[i] \in Nat
  BY <1>1, <1>2, CommandFacts DEF OrderedBy
<1>4. /\ \A i \in 1 .. n : S[i] <= E[i] /\ E[i] <= over
      /\ \A i, j \in 1 .. n : i < j => E[i] <= S[j]
      /\ \A i \in 1 .. n : i < at => E[i] <= begin
      /\ at <= n => begin = S[at]
      /\ at > n => begin >= over
  BY <1>3 DEF OrderedBy, Fits
<1>5. ASSUME NEW k \in 1 .. n + 1
      PROVE  /\ queue[k] \in Command
             /\ k < at => k \in 1 .. n /\ queue[k].stime = S[k] /\ queue[k].ctime = E[k]
             /\ k = at => queue[k].stime = begin /\ queue[k].ctime = begin + delay
             /\ k > at => /\ k - 1 \in 1 .. n /\ queue[k].type = old[k - 1].type
                          /\ queue[k].stime = S[k - 1] + delay /\ queue[k].ctime = E[k - 1] + delay
  <2>1. CASE k < at
    <3>1. k \in 1 .. n /\ queue[k] = old[k] /\ old[k] \in Command
      BY <2>1 DEF PlacedAt, OrderedBy
    <3> QED
      BY <1>3, <2>1, <3>1
  <2>2. CASE k = at
    <3>1. queue[k] = cmd
      BY <2>2 DEF PlacedAt
    <3> QED
      BY <2>2, <3>1
  <2>3. CASE k > at
    <3>1. k - 1 \in 1 .. n /\ queue[k] = Delayed(old[k - 1], delay)
      BY <2>3 DEF PlacedAt
    <3>2. PICK c \in Command : c = old[k - 1]
      BY <3>1 DEF OrderedBy
    <3>3. /\ Delayed(c, delay) \in Command /\ Delayed(c, delay).type = c.type
          /\ Delayed(c, delay).stime = c.stime + delay /\ Delayed(c, delay).ctime = c.ctime + delay
      BY DelayedFacts
    <3>4. S[k - 1] = c.stime /\ E[k - 1] = c.ctime
      BY <1>3, <3>1, <3>2
    <3> QED
      BY <2>3, <3>1, <3>2, <3>3, <3>4
  <2> QED
    BY <2>1, <2>2, <2>3
<1>6. avail \in Nat /\ begin + delay <= avail
  <2>1. CASE at <= n
    <3>1. S[at] <= E[at] /\ E[at] <= over /\ begin = S[at] /\ S[at] \in Nat /\ E[at] \in Nat
      BY <1>3, <1>4, <2>1
    <3>2. avail = over + delay
      BY <2>1
    <3> QED
      BY <3>1, <3>2
  <2>2. CASE at > n
    BY <2>2
  <2> QED
    BY <2>1, <2>2
<1>7. ASSUME NEW k \in 1 .. n + 1
      PROVE  queue[k].stime <= queue[k].ctime /\ queue[k].ctime <= avail
  <2>1. CASE k < at
    <3>1. k \in 1 .. n /\ queue[k].stime = S[k] /\ queue[k].ctime = E[k]
      BY <1>5, <2>1
    <3>2. S[k] <= E[k] /\ E[k] <= begin /\ E[k] \in Nat
      BY <1>3, <1>4, <2>1, <3>1
    <3> QED
      BY <1>6, <3>1, <3>2
  <2>2. CASE k = at
    BY <1>5, <1>6, <2>2
  <2>3. CASE k > at
    <3>1. k - 1 \in 1 .. n /\ queue[k].stime = S[k - 1] + delay /\ queue[k].ctime = E[k - 1] + delay
      BY <1>5, <2>3
    <3>2. S[k - 1] <= E[k - 1] /\ E[k - 1] <= over /\ S[k - 1] \in Nat /\ E[k - 1] \in Nat
      BY <1>3, <1>4, <3>1
    <3>3. avail = over + delay
      BY <2>3
    <3> QED
      BY <3>1, <3>2, <3>3
  <2>4. k < at \/ k = at \/ k > at
    OBVIOUS
  <2> QED
    BY <2>1, <2>2, <2>3, <2>4, Zenon
<1>8. ASSUME NEW i \in 1 .. n + 1, NEW j \in 1 .. n + 1, i < j
      PROVE  queue[i].ctime <= queue[j].stime
  <2>1. CASE j < at
    <3>1. i \in 1 .. n /\ j \in 1 .. n /\ queue[i].ctime = E[i] /\ queue[j].stime = S[j]
      BY <1>5, <1>8, <2>1
    <3> QED
      BY <1>4, <1>8, <3>1
  <2>2. CASE j = at
    <3>1. i \in 1 .. n /\ queue[i].ctime = E[i] /\ queue[j].stime = begin /\ i < at
      BY <1>5, <1>8, <2>2
    <3> QED
      BY <1>4, <3>1
  <2>3. CASE i > at
    <3>1. /\ i - 1 \in 1 .. n /\ queue[i].ctime = E[i - 1] + delay
          /\ j - 1 \in 1 .. n /\ queue[j].stime = S[j - 1] + delay
      BY <1>5, <1>8, <2>3
    <3>2. i - 1 < j - 1
      BY <1>8
    <3>3. E[i - 1] <= S[j - 1] /\ E[i - 1] \in Nat /\ S[j - 1] \in Nat
      BY <1>3, <1>4, <3>1, <3>2
    <3> QED
      BY <3>1, <3>3
  <2>4. CASE j > at /\ i <= at
    <3>1. at <= n /\ at <= j - 1 /\ j - 1 \in 1 .. n /\ queue[j].stime = S[j - 1] + delay
      BY <1>5, <2>4
    <3>2. begin = S[at] /\ S[at] <= E[at] /\ S[at] \in Nat /\ E[at] \in Nat /\ S[j - 1] \in Nat
      BY <1>3, <1>4, <3>1
    <3>3. S[at] <= S[j - 1]
      <4>1. CASE at = j - 1
        BY <3>2, <4>1
      <4>2. CASE at < j - 1
        <5>1. E[at] <= S[j - 1]
          BY <1>4, <3>1, <4>2
        <5> QED
          BY <3>2, <5>1
      <4> QED
        BY <3>1, <4>1, <4>2
    <3>4. queue[i].ctime \in Nat /\ queue[i].ctime <= begin + delay
      <4>1. CASE i = at
        BY <1>5, <4>1
      <4>2. CASE i < at
        <5>1. i \in 1 .. n /\ queue[i].ctime = E[i]
          BY <1>5, <4>2
        <5>2. E[i] <= begin /\ E[i] \in Nat
          BY <1>3, <1>4, <4>2, <5>1
        <5> QED
          BY <5>1, <5>2
      <4> QED
        BY <2>4, <4>1, <4>2
    <3> QED
      BY <3>1, <3>2, <3>3, <3>4
  <2> QED
    BY <1>8, <2>1, <2>2, <2>3, <2>4
<1> QED
  BY <1>5, <1>6, <1>7, <1>8 DEF OrderedBy

\* A command put in its place keeps the plane in order, whatever it delays.
LEMMA UpdateOK ==
  ASSUME NEW pl, PlaneOK(pl), NEW ncmd \in [type : IoTypes, blk : Blocks], NEW stime \in Nat,
         NEW start, start = plane_getstime(pl, ncmd, stime),
         NEW etime \in Nat, etime >= start.stime
  PROVE  PlaneOK(plane_update(pl, ncmd, start, etime))
<1> DEFINE old    == pl.cmd_queue
           delay  == etime - start.stime
           cmd    == [type |-> ncmd.type, blk |-> ncmd.blk, stime |-> start.stime, ctime |-> etime]
           queued == InsertAt(old, start.at, cmd)
           queue  == [i \in DOMAIN queued |-> IF i > start.at THEN Delayed(queued[i], delay) ELSE queued[i]]
           avail  == IF start.preemp THEN pl.next_pln_avail_time + delay ELSE etime
           n      == Len(old)
           up     == plane_update(pl, ncmd, start, etime)
<1>1. /\ old \in Seq(Command) /\ DOMAIN old = 1 .. n /\ n \in Nat
      /\ \A i \in 1 .. n : old[i] \in Command
      /\ \A i \in 1 .. n : old[i].stime \in Nat /\ old[i].ctime \in Nat
      /\ \A i \in 1 .. n : old[i].stime <= old[i].ctime /\ old[i].ctime <= pl.next_pln_avail_time
      /\ \A i, j \in 1 .. n : i < j => old[i].ctime <= old[j].stime
      /\ pl.next_pln_avail_time \in Nat /\ pl.migrating_etime \in Nat /\ pl.migrating \in BOOLEAN
  BY PlaneFacts
<1>2. /\ start.preemp \in BOOLEAN /\ start.at \in 1 .. n + 1 /\ start.stime \in Nat
      /\ \A i \in 1 .. n : i < start.at => old[i].ctime <= start.stime
      /\ start.preemp => start.at \in 1 .. n /\ start.stime = old[start.at].stime
      /\ ~start.preemp => start.at = n + 1 /\ start.stime >= pl.next_pln_avail_time
  BY <1>1, StartFacts
<1>3. delay \in Nat /\ etime = start.stime + delay
  BY <1>2
<1>4. cmd \in Command /\ cmd.stime = start.stime /\ cmd.ctime = etime /\ cmd.type = ncmd.type
  BY <1>2 DEF Command
<1> HIDE DEF cmd
<1>5. /\ queued \in Seq(Command) /\ DOMAIN queued = 1 .. n + 1
      /\ \A k \in 1 .. n + 1 : queued[k] = IF k < start.at THEN old[k] ELSE IF k = start.at THEN cmd ELSE old[k - 1]
  <2> DEFINE at == start.at
  <2>1. at \in 1 .. n + 1
    BY <1>2
  <2>3. old \in Seq(Command) /\ cmd \in Command
    BY <1>1, <1>4
  <2> HIDE DEF at, old
  <2>2. LET t == InsertAt(old, at, cmd)
        IN  /\ t \in Seq(Command) /\ Len(t) = n + 1 /\ DOMAIN t = 1 .. n + 1
            /\ \A k \in 1 .. n + 1 : t[k] = IF k < at THEN old[k] ELSE IF k = at THEN cmd ELSE old[k - 1]
    BY <2>1, <2>3, InsertedAt
  <2> QED
    BY <2>2 DEF at, queued
<1> HIDE DEF queued, delay
\* The place and the beginning of the new command.
<1>6. PICK at \in 1 .. n + 1 : at = start.at
  BY <1>2
<1>7. PICK begin \in Nat : begin = start.stime
  BY <1>2
<1>8. PICK over \in Nat : over = pl.next_pln_avail_time
  BY <1>1
<1>9. PlacedAt(queue, old, n, at, cmd, delay)
  <2>1. ASSUME NEW k \in 1 .. n + 1
        PROVE  queue[k] = IF k < at THEN old[k] ELSE IF k = at THEN cmd ELSE Delayed(old[k - 1], delay)
    <3>1. queue[k] = IF k > at THEN Delayed(queued[k], delay) ELSE queued[k]
      BY <1>5, <1>6
    <3>2. queued[k] = IF k < at THEN old[k] ELSE IF k = at THEN cmd ELSE old[k - 1]
      BY <1>5, <1>6
    <3>3. k \in Int /\ at \in Int
      OBVIOUS
    <3> QED
      BY ONLY <3>1, <3>2, <3>3
  <2> HIDE DEF queue, old, n
  <2> QED
    BY <2>1 DEF PlacedAt
<1>10. queue = [k \in 1 .. n + 1 |-> queue[k]]
  BY <1>5
<1> HIDE DEF queue
<1>11. avail = IF at <= n THEN over + delay ELSE begin + delay
  <2>1. CASE start.preemp
    BY <1>2, <1>6, <1>8, <2>1
  <2>2. CASE ~start.preemp
    <3>1. at = n + 1 /\ ~(at <= n)
      BY <1>1, <1>2, <1>6, <2>2
    <3> QED
      BY <1>3, <1>7, <2>2, <3>1
  <2> QED
    BY <2>1, <2>2
<1>12. Fits(old, n, at, begin, over)
  <2>1. \A i \in 1 .. n : i < at => old[i].ctime <= begin
    BY <1>2, <1>6, <1>7
  <2>2. at <= n => start.preemp
    BY <1>1, <1>2, <1>6
  <2>3. at > n => ~start.preemp
    BY <1>1, <1>2, <1>6
  <2> QED
    BY <1>2, <1>6, <1>7, <1>8, <2>1, <2>2, <2>3 DEF Fits
<1>13. OrderedBy(old, n, over)
  BY <1>1, <1>8 DEF OrderedBy
<1>14. PICK m \in Nat : m = n + 1
  BY <1>1
<1> HIDE DEF avail, old, n
<1>15. /\ avail \in Nat /\ OrderedBy(queue, m, avail)
       /\ \A k \in 1 .. m : k > at => k - 1 \in 1 .. n /\ queue[k].type = old[k - 1].type
  <2>1. n \in Nat /\ delay \in Nat /\ cmd \in Command /\ cmd.stime = begin /\ cmd.ctime = begin + delay
    BY <1>1, <1>3, <1>4, <1>7
  <2>2. /\ avail \in Nat /\ OrderedBy(queue, n + 1, avail)
        /\ \A k \in 1 .. n + 1 : k > at => k - 1 \in 1 .. n /\ queue[k].type = old[k - 1].type
    BY <1>9, <1>11, <1>12, <1>13, <2>1, InPlace
  <2> QED
    BY <1>14, <2>2
<1>16. queue \in Seq(Command) /\ DOMAIN queue = 1 .. m
  <2>1. \A k \in 1 .. m : queue[k] \in Command
    BY <1>15 DEF OrderedBy
  <2>2. queue \in [1 .. m -> Command]
    BY <1>10, <1>14, <2>1
  <2> QED
    BY <2>2, IsSequence
<1>17. /\ \A k \in 1 .. m : queue[k].stime <= queue[k].ctime /\ queue[k].ctime <= avail
       /\ \A i, j \in 1 .. m : i < j => queue[i].ctime <= queue[j].stime
  BY <1>15 DEF OrderedBy
<1>18. /\ MigrationEnd(pl, queue, at) \in Nat
       /\ \A k \in 1 .. m : queue[k].type = "MIGRATE_IO" => queue[k].ctime <= MigrationEnd(pl, queue, at)
  <2>1. Len(queue) = m
    BY <1>10, <1>14
  <2>2. /\ MigrationEnd(pl, queue, at) \in Nat
        /\ pl.migrating_etime <= MigrationEnd(pl, queue, at)
        /\ \A k \in at .. m : queue[k].type = "MIGRATE_IO" => queue[k].ctime <= MigrationEnd(pl, queue, at)
    <3>1. at \in Nat \ {0} /\ pl.migrating_etime \in Nat
      BY <1>1
    <3>2. avail \in Nat /\ \A i \in DOMAIN queue : queue[i].ctime <= avail
      BY <1>15, <1>16, <1>17
    <3> QED
      BY <1>16, <2>1, <3>1, <3>2, MigrationEndFacts
  <2>3. ASSUME NEW k \in 1 .. m, k < at, queue[k].type = "MIGRATE_IO"
        PROVE  queue[k].ctime <= MigrationEnd(pl, queue, at)
    \* A command before the place of the new one is as it was.
    <3>1. k \in 1 .. n /\ queue[k] = old[k]
      BY <1>1, <1>9, <1>14, <2>3 DEF PlacedAt
    <3>2. old[k].ctime <= pl.migrating_etime /\ old[k].ctime \in Nat
      BY <1>1, <2>3, <3>1 DEF PlaneOK, Knows, old
    <3> QED
      BY <1>1, <2>2, <3>1, <3>2
  <2> QED
    BY <2>2, <2>3
<1> DEFINE goes == pl.migrating \/ ncmd.type = "MIGRATE_IO"
<1>19. up = [cmd_queue |-> queue, next_pln_avail_time |-> avail, migrating |-> goes,
             migrating_etime |-> MigrationEnd(pl, queue, at)]
  BY <1>6 DEF plane_update, queue, queued, cmd, delay, avail, old
<1>20. /\ up.cmd_queue = queue /\ up.next_pln_avail_time = avail /\ up.migrating = goes
       /\ up.migrating_etime = MigrationEnd(pl, queue, at)
  BY <1>19
<1> HIDE DEF up
<1>21. up \in PlaneType
  <2>1. goes \in BOOLEAN
    OBVIOUS
  <2> HIDE DEF goes
  <2> QED
    BY <1>15, <1>16, <1>18, <1>19, <2>1 DEF PlaneType
<1>22. InTurn(up)
  BY <1>16, <1>17, <1>20 DEF InTurn
<1>23. Knows(up)
  <2> SUFFICES ASSUME NEW k \in 1 .. m, queue[k].type = "MIGRATE_IO" PROVE goes
    BY <1>16, <1>18, <1>20 DEF Knows
  <2>1. CASE k < at
    <3>1. k \in 1 .. n /\ queue[k] = old[k]
      BY <1>1, <1>9, <1>14, <2>1 DEF PlacedAt
    <3> QED
      BY <1>1, <3>1 DEF PlaneOK, Knows, old
  <2>2. CASE k = at
    BY <1>4, <1>9, <1>14, <2>2 DEF PlacedAt
  <2>3. CASE k > at
    <3>1. k - 1 \in 1 .. n /\ old[k - 1].type = "MIGRATE_IO"
      BY <1>15, <2>3
    <3> QED
      BY <1>1, <3>1 DEF PlaneOK, Knows, old
  <2> QED
    BY <1>1, <1>14, <2>1, <2>2, <2>3
<1> QED
  BY <1>21, <1>22, <1>23 DEF PlaneOK, up
-----------------------------------------------------------------------------
(* Places on a ring of n entries that begins at h.                         *)

\* The place that is p after h, and how far e is from h.
Turn(n, h, p) == (h + p) % n
Back(n, h, e) == (e - h + n) % n

LEMMA Turned ==
  ASSUME NEW n \in Nat \ {0}, NEW h \in 0 .. n - 1, NEW p \in 0 .. n
  PROVE  Turn(n, h, p) = (IF h + p < n THEN h + p ELSE h + p - n) /\ Turn(n, h, p) \in 0 .. n - 1
<1>1. PICK m : m = h + p
  OBVIOUS
<1>2. m \in 0 .. 2 * n - 1
  BY <1>1
<1>3. m % n = IF m < n THEN m ELSE m - n
  BY <1>2, Remainder
<1>4. Turn(n, h, p) = m % n
  BY <1>1 DEF Turn
<1>5. (IF m < n THEN m ELSE m - n) \in 0 .. n - 1
  BY <1>2
<1> QED
  BY <1>1, <1>3, <1>4, <1>5

LEMMA TurnedBack ==
  ASSUME NEW n \in Nat \ {0}, NEW h \in 0 .. n - 1, NEW e \in 0 .. n - 1
  PROVE  Back(n, h, e) = (IF e < h THEN e - h + n ELSE e - h) /\ Back(n, h, e) \in 0 .. n - 1
<1>1. PICK m : m = e - h + n
  OBVIOUS
<1>2. m \in 0 .. 2 * n - 1
  BY <1>1
<1>3. m % n = IF m < n THEN m ELSE m - n
  BY <1>2, Remainder
<1>4. Back(n, h, e) = m % n
  BY <1>1 DEF Back
<1>5. (IF m < n THEN m ELSE m - n) = (IF e < h THEN e - h + n ELSE e - h)
  BY <1>1
<1>6. (IF m < n THEN m ELSE m - n) \in 0 .. n - 1
  BY <1>2
<1> QED
  BY <1>3, <1>4, <1>5, <1>6

\* There and back, and back and there.
LEMMA ThereAndBack ==
  ASSUME NEW n \in Nat \ {0}, NEW h \in 0 .. n - 1, NEW i \in 0 .. n - 1
  PROVE  Back(n, h, Turn(n, h, i)) = i /\ Turn(n, h, Back(n, h, i)) = i
<1>1. Back(n, h, Turn(n, h, i)) = i
  <2>1. PICK e : e = Turn(n, h, i)
    OBVIOUS
  <2>2. i \in 0 .. n
    OBVIOUS
  <2>3. e \in 0 .. n - 1 /\ e = IF h + i < n THEN h + i ELSE h + i - n
    BY <2>1, <2>2, Turned
  <2>4. Back(n, h, e) = IF e < h THEN e - h + n ELSE e - h
    BY <2>3, TurnedBack
  <2>5. (IF e < h THEN e - h + n ELSE e - h) = i
    BY <2>3
  <2> QED
    BY <2>1, <2>4, <2>5
<1>2. Turn(n, h, Back(n, h, i)) = i
  <2>1. PICK e : e = Back(n, h, i)
    OBVIOUS
  <2>2. e \in 0 .. n - 1 /\ e = IF i < h THEN i - h + n ELSE i - h
    BY <2>1, TurnedBack
  <2>3. Turn(n, h, e) = IF h + e < n THEN h + e ELSE h + e - n
    BY <2>2, Turned
  <2>4. (IF h + e < n THEN h + e ELSE h + e - n) = i
    BY <2>2
  <2> QED
    BY <2>1, <2>3, <2>4
<1> QED
  BY <1>1, <1>2

\* The ring may begin p entries later.
LEMMA TurnedTwice ==
  ASSUME NEW n \in Nat \ {0}, NEW h \in 0 .. n - 1, NEW p \in 0 .. n, NEW i \in 0 .. n - 1
  PROVE  /\ i + p < n => i + p \in 0 .. n - 1 /\ Turn(n, Turn(n, h, p), i) = Turn(n, h, i + p)
         /\ i + p >= n => i + p - n \in 0 .. n - 1 /\ Turn(n, Turn(n, h, p), i) = Turn(n, h, i + p - n)
<1>1. PICK b : b = Turn(n, h, p)
  OBVIOUS
<1>2. b \in 0 .. n - 1 /\ b = IF h + p < n THEN h + p ELSE h + p - n
  BY <1>1, Turned
<1>3. i \in 0 .. n
  OBVIOUS
<1>4. Turn(n, b, i) = IF b + i < n THEN b + i ELSE b + i - n
  BY <1>2, <1>3, Turned
<1>5. CASE i + p < n
  <2>1. PICK j \in 0 .. n : j = i + p
    BY <1>5
  <2>2. Turn(n, h, j) = IF h + j < n THEN h + j ELSE h + j - n
    BY Turned
  <2>3. (IF b + i < n THEN b + i ELSE b + i - n) = (IF h + j < n THEN h + j ELSE h + j - n)
    BY <1>2, <2>1
  <2> QED
    BY <1>1, <1>4, <1>5, <2>1, <2>2, <2>3
<1>6. CASE i + p >= n
  <2>1. PICK j \in 0 .. n : j = i + p - n
    BY <1>6
  <2>2. Turn(n, h, j) = IF h + j < n THEN h + j ELSE h + j - n
    BY Turned
  <2>3. (IF b + i < n THEN b + i ELSE b + i - n) = (IF h + j < n THEN h + j ELSE h + j - n)
    BY <1>2, <2>1
  <2> QED
    BY <1>1, <1>4, <1>6, <2>1, <2>2, <2>3
<1> QED
  BY <1>5, <1>6

-----------------------------------------------------------------------------
(* The credits of the channel.                                             *)

\* The ring from the head on goes through every entry once.
LEMMA RingFacts ==
  ASSUME NEW ch, ch.head \in Entries, NEW n, n = NrCreditEntries
  PROVE  /\ n \in Nat \ {0} /\ Entries = 0 .. n - 1
         /\ \A i : EntryAt(ch, i) = Turn(n, ch.head, i)
         /\ \A i \in Entries : EntryAt(ch, i) \in Entries /\ OffsetOf(ch, EntryAt(ch, i)) = i
         /\ \A e \in Entries : OffsetOf(ch, e) \in Entries /\ EntryAt(ch, OffsetOf(ch, e)) = e
<1>1. n \in Nat \ {0} /\ Entries = 0 .. n - 1
  BY ChannelAssumption DEF Entries
<1>2. PICK h \in 0 .. n - 1 : h = ch.head
  BY <1>1
<1>3. (\A i : EntryAt(ch, i) = Turn(n, h, i)) /\ (\A e : OffsetOf(ch, e) = Back(n, h, e))
  BY <1>2 DEF EntryAt, OffsetOf, Turn, Back
<1>4. ASSUME NEW i \in Entries
      PROVE  EntryAt(ch, i) \in Entries /\ OffsetOf(ch, EntryAt(ch, i)) = i
  <2>1. i \in 0 .. n - 1 /\ i \in 0 .. n
    BY <1>1
  <2> QED
    BY <1>1, <1>3, <2>1, Turned, ThereAndBack
<1>5. ASSUME NEW e \in Entries
      PROVE  OffsetOf(ch, e) \in Entries /\ EntryAt(ch, OffsetOf(ch, e)) = e
  BY <1>1, <1>3, TurnedBack, ThereAndBack
<1> QED
  BY <1>1, <1>2, <1>3, <1>4, <1>5

\* The credits left, interval by interval.
Credits(ch) == [i \in Entries |-> ch.avail_credits[EntryAt(ch, i)]]

\* When time passes, intervals go by at the head and untouched ones come into view at the end.
LEMMA AtTimeFacts ==
  ASSUME NEW ch, ChannelOK(ch), NEW now \in 0 .. MaxTime, now >= ch.cur_time,
         NEW k, k = Interval(now) - Interval(ch.cur_time)
  PROVE  LET new == AtTime(ch, now)
         IN  /\ ChannelOK(new) /\ new.cur_time = now /\ k \in Nat
             /\ Credits(new) = [i \in Entries |-> IF i + k \in Entries THEN Credits(ch)[i + k] ELSE MaxCredits]
<1>1. PICK n \in Nat \ {0} : n = NrCreditEntries /\ Entries = 0 .. n - 1
  BY ChannelAssumption DEF Entries
<1>2. PICK h \in 0 .. n - 1, v \in 0 .. n : h = ch.head /\ v = ch.valid_len
  BY <1>1 DEF ChannelOK, ChannelType
<1>3. /\ ch.cur_time \in 0 .. MaxTime /\ MaxTime \in Nat /\ MaxCredits \in Nat
      /\ ch.avail_credits \in [Entries -> 0 .. MaxCredits]
  BY ChannelAssumption, NandAssumption DEF ChannelOK, ChannelType
<1>4. k \in Nat
  <2>1. ch.cur_time \in Nat /\ now \in Nat
    BY <1>3
  <2> QED
    BY <2>1, IntervalsInOrder
<1>5. PICK p \in 0 .. v : p = Min({k, v}) /\ p = IF k <= v THEN k ELSE v
  <2>1. Min({k, v}) = IF k <= v THEN k ELSE v
    BY <1>4, MinOfTwo
  <2> QED
    BY <1>4, <2>1
<1> DEFINE avail == [e \in Entries |-> IF OffsetOf(ch, e) < p THEN MaxCredits ELSE ch.avail_credits[e]]
<1>6. PICK new : new = AtTime(ch, now)
  OBVIOUS
<1>7. new = [avail_credits |-> avail, head |-> Turn(n, h, p), cur_time |-> now, valid_len |-> v - p]
  BY <1>1, <1>2, <1>5, <1>6 DEF AtTime, Turn
<1> HIDE DEF avail
<1>8. /\ new.avail_credits = avail /\ new.head = Turn(n, h, p)
      /\ new.cur_time = now /\ new.valid_len = v - p
  BY <1>7
<1>9. new.head \in Entries /\ v - p \in 0 .. n /\ p \in 0 .. n
  <2>1. p \in 0 .. n /\ v - p \in 0 .. n
    BY <1>1
  <2>2. Turn(n, h, p) \in 0 .. n - 1
    BY <2>1, Turned
  <2> QED
    BY <1>1, <1>8, <2>1, <2>2
<1>10. /\ \A i \in Entries : EntryAt(ch, i) \in Entries /\ OffsetOf(ch, EntryAt(ch, i)) = i
       /\ \A i : EntryAt(ch, i) = Turn(n, h, i)
       /\ \A i : EntryAt(new, i) = Turn(n, Turn(n, h, p), i)
  <2>1. ch.head \in Entries
    BY <1>1, <1>2
  <2>2. /\ \A i \in Entries : EntryAt(ch, i) \in Entries /\ OffsetOf(ch, EntryAt(ch, i)) = i
        /\ \A i : EntryAt(ch, i) = Turn(n, ch.head, i)
    BY <1>1, <2>1, RingFacts
  <2>3. \A i : EntryAt(new, i) = Turn(n, new.head, i)
    BY <1>1, <1>9, RingFacts
  <2> QED
    BY <1>2, <1>8, <2>2, <2>3
<1>11. \A e \in Entries : avail[e] = IF OffsetOf(ch, e) < p THEN MaxCredits ELSE ch.avail_credits[e]
  BY DEF avail
\* Where entry i of the new ring was.
<1>12. ASSUME NEW i \in Entries
       PROVE  /\ i + p < n => i + p \in Entries /\ avail[EntryAt(new, i)] = ch.avail_credits[EntryAt(ch, i + p)]
              /\ i + p >= n => avail[EntryAt(new, i)] = MaxCredits
  <2>1. CASE i + p < n
    <3>1. i + p \in Entries /\ EntryAt(new, i) = EntryAt(ch, i + p)
      BY <1>1, <1>9, <1>10, <2>1, TurnedTwice
    <3>2. OffsetOf(ch, EntryAt(new, i)) = i + p /\ EntryAt(new, i) \in Entries
      BY <1>10, <3>1
    <3>3. ~(i + p < p)
      BY <1>1
    <3> QED
      BY <1>1, <1>11, <2>1, <3>1, <3>2, <3>3
  <2>2. CASE i + p >= n
    <3>1. i + p - n \in Entries /\ EntryAt(new, i) = EntryAt(ch, i + p - n)
      <4>1. i + p - n \in 0 .. n - 1 /\ Turn(n, Turn(n, h, p), i) = Turn(n, h, i + p - n)
        BY <1>1, <1>9, <2>2, TurnedTwice
      <4> QED
        BY <1>1, <1>10, <4>1
    <3>2. OffsetOf(ch, EntryAt(new, i)) = i + p - n /\ EntryAt(new, i) \in Entries
      BY <1>10, <3>1
    <3>3. i + p - n < p
      BY <1>1
    <3> QED
      BY <1>1, <1>11, <2>2, <3>2, <3>3
  <2> QED
    BY <1>1, <2>1, <2>2
<1>13. \A i \in Entries : i >= v => ch.avail_credits[EntryAt(ch, i)] = MaxCredits
  BY <1>2 DEF ChannelOK
<1>14. ChannelOK(new)
  <2>1. avail \in [Entries -> 0 .. MaxCredits]
    BY <1>3 DEF avail
  <2>2. new \in ChannelType
    BY <1>1, <1>7, <1>8, <1>9, <2>1 DEF ChannelType
  <2>3. ASSUME NEW i \in Entries, i >= v - p
        PROVE  avail[EntryAt(new, i)] = MaxCredits
    <3>1. CASE i + p < n
      <4>1. i + p >= v
        BY <1>1, <2>3
      <4> QED
        BY <1>12, <1>13, <3>1, <4>1
    <3>2. CASE i + p >= n
      BY <1>12, <3>2
    <3> QED
      BY <1>1, <3>1, <3>2
  <2> QED
    BY <1>8, <2>2, <2>3 DEF ChannelOK
<1>15. ASSUME NEW i \in Entries
       PROVE  avail[EntryAt(new, i)]
                = IF i + k \in Entries THEN ch.avail_credits[EntryAt(ch, i + k)] ELSE MaxCredits
  <2>1. CASE k <= v
    <3>1. p = k
      BY <1>5, <2>1
    <3>2. i + p < n <=> i + k \in Entries
      BY <1>1, <1>4, <3>1
    <3>3. i + p < n \/ i + p >= n
      BY <1>1
    <3> QED
      BY <1>12, <3>1, <3>2, <3>3
  <2>2. CASE k > v
    <3>1. p = v
      BY <1>5, <2>2
    <3>2. i + p >= v /\ i + k >= v /\ (i + p < n \/ i + p >= n)
      BY <1>1, <1>4, <2>2, <3>1
    <3>3. avail[EntryAt(new, i)] = MaxCredits
      BY <1>12, <1>13, <3>2
    <3>4. i + k \in Entries => ch.avail_credits[EntryAt(ch, i + k)] = MaxCredits
      BY <1>13, <3>2
    <3> QED
      BY <3>3, <3>4
  <2> QED
    BY <1>4, <2>1, <2>2
<1>16. Credits(new) = [i \in Entries |-> IF i + k \in Entries THEN Credits(ch)[i + k] ELSE MaxCredits]
  BY <1>8, <1>15 DEF Credits
<1> QED
  BY <1>4, <1>6, <1>8, <1>14, <1>16

\* The credits still missing, interval by interval.
Missing(ch, r, n, need) ==
  CHOOSE f : f = [i \in r .. n |-> IF i = r THEN need
                                   ELSE Max({0, f[i - 1] - ch.avail_credits[EntryAt(ch, i - 1)]})]

HasCredits(ch, r, n) == \A j \in r .. n - 1 : ch.avail_credits[EntryAt(ch, j)] \in Nat

IsMissing(left, ch, r, n, need) ==
  /\ \A i \in r .. n : left[i] = IF i = r THEN need
                                  ELSE Max({0, left[i - 1] - ch.avail_credits[EntryAt(ch, i - 1)]})
  /\ \A i \in r .. n : left[i] \in Nat

\* There is such a function, and its values are numbers.
LEMMA MissingCredits ==
  ASSUME NEW ch, NEW n \in Nat, NEW r \in 0 .. n, NEW need \in Nat,
         HasCredits(ch, r, n), NEW left, left = Missing(ch, r, n, need)
  PROVE  IsMissing(left, ch, r, n, need)
<1> DEFINE w(j) == ch.avail_credits[EntryAt(ch, j)]
           Misses(f, m) == f = [i \in r .. m |-> IF i = r THEN need ELSE Max({0, f[i - 1] - w(i - 1)})]
           Counts(f, m)  == \A i \in r .. m : f[i] \in Nat
<1> HIDE DEF w
<1>1. ASSUME NEW m \in r .. n, NEW f, Misses(f, m) PROVE Counts(f, m)
  <2> DEFINE Wrong == {i \in r .. m : f[i] \notin Nat}
  <2> SUFFICES ASSUME Wrong # {} PROVE FALSE
    OBVIOUS
  <2>1. Wrong \in SUBSET Nat
    OBVIOUS
  <2>2. PICK i \in Wrong : \A j \in Wrong : i <= j
    BY <2>1, LeastNumber
  <2>3. i \in r .. m /\ f[i] = IF i = r THEN need ELSE Max({0, f[i - 1] - w(i - 1)})
    BY <1>1, <2>2
  <2>4. i # r /\ i - 1 \in r .. m /\ i - 1 \in r .. n - 1
    BY <2>2, <2>3
  <2>5. f[i - 1] \in Nat /\ w(i - 1) \in Nat
    BY <2>2, <2>4 DEF w, HasCredits
  <2>6. PICK d \in Int : d = f[i - 1] - w(i - 1)
    BY <2>5
  <2>7. Max({0, d}) \in Nat
    BY MaxOfTwo
  <2> QED
    BY <2>2, <2>3, <2>4, <2>6, <2>7
<1> DEFINE Bad == {m \in r .. n : ~ \E f : Misses(f, m)}
<1>2. Bad = {}
  <2> SUFFICES ASSUME Bad # {} PROVE FALSE
    OBVIOUS
  <2>1. Bad \in SUBSET Nat
    OBVIOUS
  <2>2. PICK m \in Bad : \A k \in Bad : m <= k
    BY <2>1, LeastNumber
  <2>3. m \in r .. n /\ ~ \E f : Misses(f, m)
    BY <2>2
  <2>4. CASE m = r
    <3> DEFINE f == [i \in r .. m |-> need]
    <3>1. Misses(f, m)
      BY <2>4
    <3> QED
      BY <2>3, <3>1
  <2>5. CASE m # r
    <3>1. m - 1 \in r .. n /\ ~(m <= m - 1)
      BY <2>3, <2>5
    <3>2. m - 1 \notin Bad
      BY <2>2, <3>1
    <3>3. PICK f : Misses(f, m - 1)
      BY <3>1, <3>2
    <3> DEFINE g == [i \in r .. m |-> IF i = r THEN need ELSE Max({0, f[i - 1] - w(i - 1)})]
    <3>4. \A i \in r .. m - 1 : f[i] = IF i = r THEN need ELSE Max({0, f[i - 1] - w(i - 1)})
      BY <3>3
    <3>5. \A i \in r .. m - 1 : g[i] = f[i]
      <4> TAKE i \in r .. m - 1
      <4>1. i \in r .. m
        BY <2>3
      <4>2. g[i] = IF i = r THEN need ELSE Max({0, f[i - 1] - w(i - 1)})
        BY <4>1
      <4>3. f[i] = IF i = r THEN need ELSE Max({0, f[i - 1] - w(i - 1)})
        BY <3>4
      <4> QED
        BY <4>2, <4>3
    <3>6. \A i \in r .. m : i # r => i - 1 \in r .. m - 1
      BY <2>3
    <3>7. \A i \in r .. m : g[i] = IF i = r THEN need ELSE Max({0, g[i - 1] - w(i - 1)})
      BY <3>5, <3>6
    <3>8. Misses(g, m)
      <4>1. g = [i \in r .. m |-> g[i]]
        OBVIOUS
      <4> HIDE DEF g
      <4> QED
        BY <3>7, <4>1
    <3> QED
      BY <2>3, <3>8
  <2> QED
    BY <2>4, <2>5
<1>3. \E f : Misses(f, n)
  <2>1. n \in r .. n
    OBVIOUS
  <2> QED
    BY <1>2, <2>1
<1>4. Misses(left, n)
  BY <1>3 DEF w, Missing
<1>5. Counts(left, n)
  <2>1. n \in r .. n
    OBVIOUS
  <2> HIDE DEF Misses, Counts
  <2> QED
    BY <1>1, <1>4, <2>1
<1> QED
  BY <1>4, <1>5 DEF w, IsMissing

\* Of w, v is what a transfer leaves that begins in interval first and ends in interval last.
Leaves(v, w, first, last) ==
  /\ \A i \in Entries : (i < first \/ i > last) => v[i] = w[i]
  /\ \A i \in Entries : first <= i /\ i < last => v[i] = 0
  /\ v[last] \in 0 .. w[last]

\* A transfer takes what there is from its interval on, all of each but the last it comes to.
LEMMA ConsumeFacts ==
  ASSUME NEW ch, ChannelOK(ch), NEW r \in Entries, NEW need \in Nat, NEW x, x = Consume(ch, r, need)
  PROVE  /\ x.last \in r .. NrCreditEntries - 1
         /\ ChannelOK(x.ch) /\ x.ch.cur_time = ch.cur_time
         /\ Leaves(Credits(x.ch), Credits(ch), r, x.last)
<1>1. PICK n \in Nat \ {0} : n = NrCreditEntries /\ Entries = 0 .. n - 1
  BY ChannelAssumption DEF Entries
<1>2. /\ ch \in ChannelType /\ ch.head \in Entries /\ ch.valid_len \in 0 .. n
      /\ ch.avail_credits \in [Entries -> 0 .. MaxCredits] /\ MaxCredits \in Nat
      /\ \A i \in Entries : i >= ch.valid_len => ch.avail_credits[EntryAt(ch, i)] = MaxCredits
  BY <1>1, ChannelAssumption DEF ChannelOK, ChannelType
<1>3. /\ \A i \in Entries : EntryAt(ch, i) \in Entries /\ OffsetOf(ch, EntryAt(ch, i)) = i
      /\ \A e \in Entries : OffsetOf(ch, e) \in Entries /\ EntryAt(ch, OffsetOf(ch, e)) = e
  BY <1>2, RingFacts
<1> DEFINE w    == [i \in Entries |-> ch.avail_credits[EntryAt(ch, i)]]
           left == CHOOSE f : f = [i \in r .. n |-> IF i = r THEN need
                                     ELSE Max({0, f[i - 1] - ch.avail_credits[EntryAt(ch, i - 1)]})]
           enough == {i \in r .. n - 1 : left[i + 1] = 0}
           last   == IF enough = {} THEN n - 1 ELSE Min(enough)
           used   == {EntryAt(ch, i) : i \in r .. last}
           avail  == [e \in Entries |-> IF e \in used THEN Max({0, ch.avail_credits[e] - left[OffsetOf(ch, e)]})
                                        ELSE ch.avail_credits[e]]
<1>4. PICK taken : taken = x
  OBVIOUS
<1>5. taken.last = last /\ taken.ch = [ch EXCEPT !.avail_credits = avail, !.valid_len = ValidTo(ch, last)]
  <2>1. taken = [last |-> last, ch |-> [ch EXCEPT !.avail_credits = avail, !.valid_len = ValidTo(ch, last)]]
    <3>1. NrCreditEntries = n
      BY <1>1
    <3> QED
      BY ONLY <1>4, <3>1, x = Consume(ch, r, need) DEF Consume, avail, used, last, enough, left
  <2> HIDE DEF last, avail
  <2> QED
    BY <2>1
<1>6. IsMissing(left, ch, r, n, need)
  <2>1. r \in 0 .. n /\ n \in Nat
    BY <1>1
  <2>2. HasCredits(ch, r, n)
    <3>1. ASSUME NEW j \in r .. n - 1 PROVE ch.avail_credits[EntryAt(ch, j)] \in Nat
      <4>1. EntryAt(ch, j) \in Entries
        <5>1. j \in Entries
          BY <1>1
        <5> QED
          BY ONLY <1>3, <5>1
      <4>2. ch.avail_credits[EntryAt(ch, j)] \in 0 .. MaxCredits
        BY <1>2, <4>1
      <4> QED
        BY <1>2, <4>2
    <3> HIDE DEF w, left, enough, last, used, avail
    <3> QED
      BY <3>1 DEF HasCredits
  <2>3. left = Missing(ch, r, n, need)
    BY DEF Missing
  <2> HIDE DEF left
  <2> QED
    BY <2>1, <2>2, <2>3, MissingCredits
<1>7. \A i \in Entries : w[i] = ch.avail_credits[EntryAt(ch, i)] /\ w[i] \in 0 .. MaxCredits /\ w[i] \in Nat
  BY <1>2, <1>3
<1> HIDE DEF w, left
<1>8. /\ last \in r .. n - 1
      /\ \A i \in r .. n - 1 : i < last => left[i + 1] # 0
  <2>1. CASE enough = {}
    <3>1. last = n - 1
      BY <2>1
    <3>2. \A i \in r .. n - 1 : left[i + 1] # 0
      BY <2>1
    <3>3. n - 1 \in r .. n - 1
      BY <1>1
    <3> HIDE DEF last, enough
    <3> QED
      BY <3>1, <3>2, <3>3
  <2>2. CASE enough # {}
    <3>1. enough \in SUBSET Nat
      BY <1>1
    <3>2. last \in enough /\ \A j \in enough : last <= j
      <4> HIDE DEF enough
      <4> QED
        BY <2>2, <3>1, MinOfSet
    <3>3. ASSUME NEW i \in r .. n - 1, i < last, left[i + 1] = 0 PROVE FALSE
      <4>1. i \in enough
        BY <3>3
      <4>2. last <= i /\ last \in Nat /\ i \in Nat
        BY <1>1, <3>1, <3>2, <4>1
      <4> HIDE DEF last
      <4> QED
        BY <3>3, <4>2
    <3> QED
      BY <3>2, <3>3
  <2> QED
    BY <2>1, <2>2
<1> HIDE DEF last, enough
\* What is used are the intervals from r to last.
<1>9. \A i \in Entries : EntryAt(ch, i) \in used <=> r <= i /\ i <= last
  <2> TAKE i \in Entries
  <2>1. r <= i /\ i <= last => EntryAt(ch, i) \in used
    BY <1>1, <1>8
  <2>2. ASSUME EntryAt(ch, i) \in used PROVE r <= i /\ i <= last
    <3>1. PICK j \in r .. last : EntryAt(ch, i) = EntryAt(ch, j)
      BY <2>2
    <3>2. j \in Entries
      BY <1>1, <1>8
    <3>3. i = j
      BY <1>3, <3>1, <3>2
    <3> QED
      BY <1>1, <1>8, <3>3
  <2> QED
    BY <2>1, <2>2
<1>10. ASSUME NEW i \in Entries
       PROVE  avail[EntryAt(ch, i)] = IF r <= i /\ i <= last THEN Max({0, w[i] - left[i]}) ELSE w[i]
  <2>1. EntryAt(ch, i) \in Entries /\ OffsetOf(ch, EntryAt(ch, i)) = i /\ w[i] = ch.avail_credits[EntryAt(ch, i)]
    BY <1>3, <1>7
  <2> QED
    BY <1>9, <2>1
<1>11. \A i \in Entries : r <= i => i \in r .. n /\ left[i] \in Nat
  BY <1>1, <1>6 DEF IsMissing
<1>12. ASSUME NEW i \in Entries, r <= i
       PROVE  Max({0, w[i] - left[i]}) = IF left[i] >= w[i] THEN 0 ELSE w[i] - left[i]
  <2>1. w[i] \in Nat /\ left[i] \in Nat
    BY <1>7, <1>11, <1>12
  <2>2. PICK d \in Int : d = w[i] - left[i]
    BY <2>1
  <2>3. Max({0, d}) = IF 0 >= d THEN 0 ELSE d
    BY MaxOfTwo
  <2> QED
    BY <2>1, <2>2, <2>3
<1>13. ASSUME NEW i \in Entries, r <= i, i < last
       PROVE  left[i] >= w[i]
  <2>1. i \in r .. n - 1 /\ i + 1 \in r .. n /\ i + 1 # r /\ (i + 1) - 1 = i
    BY <1>1, <1>8, <1>13
  <2>2. left[i + 1] # 0
    BY <1>8, <1>13, <2>1
  <2>3. left[i + 1] = Max({0, left[i] - w[i]})
    BY <1>6, <1>7, <2>1 DEF IsMissing
  <2>4. w[i] \in Nat /\ left[i] \in Nat
    BY <1>7, <1>11, <1>13
  <2>5. PICK d \in Int : d = left[i] - w[i]
    BY <2>4
  <2>6. Max({0, d}) = IF 0 >= d THEN 0 ELSE d
    BY MaxOfTwo
  <2> QED
    BY <2>2, <2>3, <2>4, <2>5, <2>6
<1>14. \A i \in Entries : avail[EntryAt(ch, i)] \in 0 .. w[i]
  <2> HIDE DEF avail
  <2> TAKE i \in Entries
  <2>1. CASE r <= i /\ i <= last
    <3>1. w[i] \in Nat /\ left[i] \in Nat
      BY <1>7, <1>11, <2>1
    <3>2. avail[EntryAt(ch, i)] = IF left[i] >= w[i] THEN 0 ELSE w[i] - left[i]
      BY <1>10, <1>12, <2>1
    <3> QED
      BY <3>1, <3>2
  <2>2. CASE ~(r <= i /\ i <= last)
    <3>1. avail[EntryAt(ch, i)] = w[i] /\ w[i] \in Nat
      BY <1>7, <1>10, <2>2
    <3> QED
      BY <3>1
  <2> QED
    BY <2>1, <2>2
<1>15. avail \in [Entries -> 0 .. MaxCredits]
  <2> SUFFICES ASSUME NEW e \in Entries PROVE avail[e] \in 0 .. MaxCredits
    OBVIOUS
  <2>1. PICK i \in Entries : e = EntryAt(ch, i)
    BY <1>3
  <2>2. avail[e] \in 0 .. w[i] /\ w[i] \in 0 .. MaxCredits
    BY <1>7, <1>14, <2>1
  <2> HIDE DEF avail
  <2> QED
    BY <1>2, <2>2
<1> HIDE DEF avail
<1>16. PICK v \in 0 .. n : v = ValidTo(ch, last) /\ v >= ch.valid_len /\ v >= last + 1
  <2>1. PICK a \in 0 .. n, b \in 0 .. n : a = ch.valid_len /\ b = last + 1
    <3>1. PICK a \in 0 .. n : a = ch.valid_len
      BY <1>2
    <3>2. last + 1 \in 0 .. n
      BY <1>1, <1>8
    <3> QED
      BY <3>1, <3>2
  <2>2. Max({a, b}) = IF a >= b THEN a ELSE b
    BY MaxOfTwo
  <2>3. ValidTo(ch, last) = Max({a, b})
    BY <2>1 DEF ValidTo
  <2> QED
    BY <2>1, <2>2, <2>3
<1>17. PICK new : new = taken.ch
  OBVIOUS
<1>18. /\ new.avail_credits = avail /\ new.valid_len = v /\ new.head = ch.head /\ new.cur_time = ch.cur_time
       /\ new \in ChannelType
  BY <1>1, <1>2, <1>5, <1>15, <1>16, <1>17 DEF ChannelType
<1>19. \A i : EntryAt(new, i) = EntryAt(ch, i)
  BY <1>18 DEF EntryAt
<1>20. ChannelOK(new)
  <2> SUFFICES ASSUME NEW i \in Entries, i >= v PROVE avail[EntryAt(ch, i)] = MaxCredits
    BY <1>18, <1>19 DEF ChannelOK
  <2>1. i >= ch.valid_len /\ ~(i <= last)
    BY <1>1, <1>2, <1>8, <1>16
  <2> QED
    BY <1>2, <1>7, <1>10, <2>1
<1>21. \A i \in Entries : Credits(new)[i] = avail[EntryAt(ch, i)] /\ Credits(ch)[i] = w[i]
  BY <1>18, <1>19 DEF Credits, w
<1>22. last \in Entries /\ r \in Int /\ last \in Int /\ Entries \subseteq Int
  BY <1>1, <1>8
<1>23. \A i \in Entries : (i < r \/ i > last) => Credits(new)[i] = Credits(ch)[i]
  <2> TAKE i \in Entries
  <2>1. (i < r \/ i > last) => ~(r <= i /\ i <= last)
    BY <1>22
  <2> QED
    BY <1>10, <1>21, <2>1
<1>24. \A i \in Entries : r <= i /\ i < last => Credits(new)[i] = 0
  <2> TAKE i \in Entries
  <2> SUFFICES ASSUME r <= i, i < last PROVE Credits(new)[i] = 0
    OBVIOUS
  <2>1. left[i] >= w[i] /\ i <= last
    BY <1>13, <1>22
  <2>2. avail[EntryAt(ch, i)] = 0
    BY <1>10, <1>12, <2>1
  <2> QED
    BY <1>21, <2>2
<1>25. Credits(new)[last] \in 0 .. Credits(ch)[last]
  BY <1>14, <1>21, <1>22
<1> QED
  <2>1. Leaves(Credits(new), Credits(ch), r, last)
    BY <1>23, <1>24, <1>25 DEF Leaves
  <2> QED
    BY <1>1, <1>4, <1>5, <1>8, <1>17, <1>18, <1>20, <2>1

\* The credits of the ring k intervals later, and what of w a transfer leaves, or none does.
Later(ch, k) == [i \in Entries |-> IF i + k \in Entries THEN Credits(ch)[i + k] ELSE MaxCredits]

LeftOf(v, w) ==
  \E first, last \in Entries :
    /\ first <= last
    /\ \E rest \in 0 .. w[last] :
         v = [i \in Entries |-> IF first <= i /\ i < last THEN 0 ELSE IF i = last THEN rest ELSE w[i]]

\* A request lets time pass and takes credits, or none; no transfer ends before it begins.
LEMMA RequestFacts ==
  ASSUME NEW ch, ChannelOK(ch), NEW now \in 0 .. MaxTime, now >= ch.cur_time,
         NEW request_time \in Nat, NEW units \in 1 .. MaxUnits,
         NEW k, k = Interval(now) - Interval(ch.cur_time),
         NEW w, w = Later(ch, k),
         NEW x, x = chmodel_request(ch, now, request_time, units)
  PROVE  /\ ChannelOK(x.ch) /\ x.ch.cur_time = now /\ k \in Nat
         /\ x.etime \in Nat /\ x.etime >= request_time
         /\ LeftOf(Credits(x.ch), w)
<1>1. PICK n \in Nat \ {0} : n = NrCreditEntries /\ Entries = 0 .. n - 1
  BY ChannelAssumption DEF Entries
<1>2. PICK new : new = AtTime(ch, now)
  OBVIOUS
<1>3. ChannelOK(new) /\ new.cur_time = now /\ k \in Nat /\ Credits(new) = w
  BY <1>2, AtTimeFacts DEF Later
<1>4. \A i \in Entries : w[i] \in Nat
  <2> TAKE i \in Entries
  <2>1. new.head \in Entries /\ new.avail_credits \in [Entries -> 0 .. MaxCredits] /\ MaxCredits \in Nat
    BY <1>3, ChannelAssumption DEF ChannelOK, ChannelType
  <2>2. EntryAt(new, i) \in Entries
    BY <2>1, RingFacts
  <2>3. new.avail_credits[EntryAt(new, i)] \in 0 .. MaxCredits
    BY <2>1, <2>2
  <2>4. w[i] = new.avail_credits[EntryAt(new, i)]
    BY <1>3 DEF Credits
  <2> QED
    BY <2>1, <2>3, <2>4
<1>5. PICK r : r = Interval(request_time) - Interval(now)
  OBVIOUS
<1>6. PICK taken : taken = Consume(new, r, units)
  OBVIOUS
<1>7. PICK delay : delay = Max({0, (taken.last - r) - units \div MaxCredits})
  OBVIOUS
<1>8. x = IF request_time < now \/ r >= n THEN [ch |-> new, etime |-> request_time]
          ELSE [ch |-> taken.ch, etime |-> request_time + XferLat * units + delay * UnitTimeInterval]
  BY <1>1, <1>2, <1>5, <1>6, <1>7 DEF chmodel_request
<1>9. CASE request_time < now \/ r >= n
  <2>1. x.ch = new /\ x.etime = request_time
    BY <1>8, <1>9
  <2>2. 0 \in Entries /\ w[0] \in 0 .. w[0]
    <3>1. 0 \in Entries
      BY <1>1
    <3>2. w[0] \in Nat
      BY <1>4, <3>1
    <3> QED
      BY <3>1, <3>2
  <2>3. Credits(x.ch) = [i \in Entries |-> IF 0 <= i /\ i < 0 THEN 0 ELSE IF i = 0 THEN w[0] ELSE w[i]]
    <3>1. \A i \in Entries : ~(0 <= i /\ i < 0)
      BY <1>1
    <3>2. \A i \in Entries : (IF 0 <= i /\ i < 0 THEN 0 ELSE IF i = 0 THEN w[0] ELSE w[i]) = w[i]
      BY <3>1
    <3> QED
      BY <1>3, <2>1, <3>2 DEF Credits
  <2> QED
    <3>1. 0 <= 0 /\ LeftOf(Credits(x.ch), w)
      BY <2>2, <2>3 DEF LeftOf
    <3> QED
      BY <1>3, <2>1, <3>1
<1>10. CASE ~(request_time < now \/ r >= n)
  <2>1. x.ch = taken.ch /\ x.etime = request_time + XferLat * units + delay * UnitTimeInterval
    BY <1>8, <1>10
  <2>2. now \in Nat /\ MaxUnits \in Nat /\ units \in Nat
    BY NandAssumption
  <2>3. r \in Entries
    <3>1. Interval(now) \in Nat /\ Interval(request_time) \in Nat /\ Interval(now) <= Interval(request_time)
      BY <1>10, <2>2, IntervalsInOrder
    <3> QED
      BY <1>1, <1>5, <1>10, <3>1
  <2>4. /\ taken.last \in r .. n - 1
        /\ ChannelOK(taken.ch) /\ taken.ch.cur_time = new.cur_time
        /\ Leaves(Credits(taken.ch), w, r, taken.last)
    <3>1. ChannelOK(new) /\ units \in Nat
      BY <1>3, <2>2
    <3>2. /\ taken.last \in r .. NrCreditEntries - 1
          /\ ChannelOK(taken.ch) /\ taken.ch.cur_time = new.cur_time
          /\ Leaves(Credits(taken.ch), Credits(new), r, taken.last)
      BY ONLY <1>6, <2>3, <3>1, ConsumeFacts
    <3>3. Leaves(Credits(taken.ch), w, r, taken.last)
      BY <1>3, <3>2
    <3> QED
      BY <1>1, <3>2, <3>3
  <2>5. x.etime \in Nat /\ x.etime >= request_time
    <3>1. units \div MaxCredits \in Nat
      BY <2>2, ChannelAssumption
    <3>2. PICK d \in Int : d = (taken.last - r) - units \div MaxCredits
      BY <1>1, <2>3, <2>4, <3>1
    <3>3. delay \in Nat
      BY <1>7, <3>2, MaxOfTwo
    <3>4. XferLat * units \in Nat /\ delay * UnitTimeInterval \in Nat
      BY <2>2, <3>3, ChannelAssumption, \A a, b \in Nat : a * b \in Nat
    <3> QED
      BY <2>1, <3>4
  <2>6. PICK last : last = taken.last
    OBVIOUS
  <2>7. PICK rest : rest = Credits(taken.ch)[last]
    OBVIOUS
  <2>8. last \in Entries /\ r <= last /\ rest \in 0 .. w[last]
    BY <1>1, <2>3, <2>4, <2>6, <2>7 DEF Leaves
  <2>9. ASSUME NEW i \in Entries
        PROVE  Credits(taken.ch)[i] = IF r <= i /\ i < last THEN 0 ELSE IF i = last THEN rest ELSE w[i]
    <3>1. r \in Int /\ last \in Int /\ i \in Int
      BY <1>1, <2>3, <2>8
    <3>2. CASE r <= i /\ i < last
      BY <2>4, <2>6, <3>2 DEF Leaves
    <3>3. CASE i = last
      BY <2>7, <3>1, <3>3
    <3>4. CASE i < r \/ i > last
      <4>1. Credits(taken.ch)[i] = w[i]
        BY <2>4, <2>6, <3>4 DEF Leaves
      <4>2. ~(r <= i /\ i < last) /\ i # last
        BY <2>8, <3>1, <3>4
      <4> QED
        BY <4>1, <4>2
    <3> QED
      BY <3>1, <3>2, <3>3, <3>4
  <2>10. Credits(taken.ch) = [i \in Entries |-> IF r <= i /\ i < last THEN 0 ELSE IF i = last THEN rest ELSE w[i]]
    BY <2>9 DEF Credits
  <2>11. LeftOf(Credits(x.ch), w)
    BY <2>1, <2>3, <2>8, <2>10 DEF LeftOf
  <2> QED
    BY <1>3, <2>1, <2>4, <2>5, <2>11
<1> QED
  BY <1>9, <1>10


-----------------------------------------------------------------------------
(* The steps.                                                              *)

\* A transfer keeps the channel in order and is a step of the window.
LEMMA ChannelStep ==
  ASSUME ChannelOK(channel), NEW now \in Clock, NEW request_time \in Nat, NEW units \in 1 .. MaxUnits,
         NEW x, x = chmodel_request(channel, now, request_time, units), channel' = x.ch
  PROVE  ChannelOK(channel') /\ x.etime \in Nat /\ x.etime >= request_time /\ Window!Next
<1>1. PICK k : k = Interval(now) - Interval(channel.cur_time)
  OBVIOUS
<1>2. PICK w : w = Later(channel, k)
  OBVIOUS
<1>3. now \in 0 .. MaxTime /\ now >= channel.cur_time
  BY DEF Clock
<1>4. /\ ChannelOK(x.ch) /\ x.ch.cur_time = now /\ k \in Nat
      /\ x.etime \in Nat /\ x.etime >= request_time
      /\ LeftOf(Credits(x.ch), w)
  BY <1>1, <1>2, <1>3, RequestFacts
<1>5. Interval(channel'.cur_time) - Interval(channel.cur_time) = k
  BY <1>1, <1>4
<1>6. Interval(channel'.cur_time) >= Interval(channel.cur_time)
  <2>1. channel.cur_time \in 0 .. MaxTime /\ channel'.cur_time = now /\ MaxTime \in Nat
    BY <1>4, NandAssumption DEF ChannelOK, ChannelType
  <2>2. Interval(channel.cur_time) \in Nat /\ Interval(now) \in Nat /\ Interval(channel.cur_time) <= Interval(now)
    BY <1>3, <2>1, IntervalsInOrder
  <2> QED
    BY <2>1, <2>2
<1>7. w = [i \in Entries |-> IF i + k \in Entries
                              THEN [j \in Entries |-> channel.avail_credits[EntryAt(channel, j)]][i + k]
                              ELSE MaxCredits]
  BY <1>2 DEF Later, Credits
<1>8. PICK first \in Entries, last \in Entries :
        /\ first <= last
        /\ \E rest \in 0 .. w[last] :
             Credits(x.ch) = [i \in Entries |-> IF first <= i /\ i < last THEN 0 ELSE IF i = last THEN rest ELSE w[i]]
  BY <1>4 DEF LeftOf
<1>9. PICK rest \in 0 .. w[last] :
        Credits(x.ch) = [i \in Entries |-> IF first <= i /\ i < last THEN 0 ELSE IF i = last THEN rest ELSE w[i]]
  BY <1>8
<1>10. Window!Next
  <2>1. Window!Moved(k) = w
    BY <1>7 DEF Window!Moved, Window!Offsets, Entries
  <2>2. [i \in Entries |-> channel.avail_credits[EntryAt(channel, i)]]' = Window!Taken(w, first, last, rest)
    BY <1>9 DEF Window!Taken, Window!Offsets, Entries, Credits, EntryAt
  <2>3. first \in Window!Offsets /\ last \in Window!Offsets
    BY DEF Window!Offsets, Entries
  <2> QED
    BY <1>5, <1>6, <1>8, <2>1, <2>2, <2>3 DEF Window!Next
<1> QED
  BY <1>4, <1>10

\* A step that does not touch the channel is none of the window.
LEMMA NoChannelStep ==
  ASSUME channel' = channel
  PROVE  UNCHANGED <<Interval(channel.cur_time), [i \in Entries |-> channel.avail_credits[EntryAt(channel, i)]]>>
OBVIOUS

\* One plane is updated, the others stay as they are.
LEMMA PlaneStep ==
  ASSUME TimingInv, NEW p \in Planes, NEW pl, PlaneOK(pl), plane' = [plane EXCEPT ![p] = pl]
  PROVE  plane' = [q \in Planes |-> plane'[q]] /\ \A q \in Planes : PlaneOK(plane'[q])
<1>1. plane' = [q \in Planes |-> IF q = p THEN pl ELSE plane[q]]
  BY DEF TimingInv
<1>2. \A q \in Planes : PlaneOK(plane'[q])
  BY <1>1 DEF TimingInv
<1> QED
  BY <1>1, <1>2

\* A command of a plane that was asked at some time, however long it takes.
LEMMA CommandStep ==
  ASSUME TimingInv, NEW p \in Planes, NEW ncmd \in [type : IoTypes, blk : Blocks], NEW stime \in 0 .. MaxTime,
         NEW pl, pl = Cleared(plane[p], stime), NEW start, start = plane_getstime(pl, ncmd, stime)
  PROVE  /\ start.stime \in Nat
         /\ \A etime \in Nat : etime >= start.stime =>
              /\ plane' = [plane EXCEPT ![p] = plane_update(pl, ncmd, start, etime)] =>
                   plane' = [q \in Planes |-> plane'[q]] /\ \A q \in Planes : PlaneOK(plane'[q])
<1>1. stime \in Nat
  BY NandAssumption
<1>2. PlaneOK(pl)
  BY <1>1, ClearedOK DEF TimingInv
<1>3. start.stime \in Nat
  BY <1>1, <1>2, StartFacts
<1>4. ASSUME NEW etime \in Nat, etime >= start.stime,
             plane' = [plane EXCEPT ![p] = plane_update(pl, ncmd, start, etime)]
      PROVE  plane' = [q \in Planes |-> plane'[q]] /\ \A q \in Planes : PlaneOK(plane'[q])
  <2>1. PICK up : up = plane_update(pl, ncmd, start, etime)
    OBVIOUS
  <2>2. PlaneOK(up)
    BY <1>1, <1>2, <1>4, <2>1, UpdateOK
  <2> QED
    BY <1>4, <2>1, <2>2, PlaneStep
<1> QED
  BY <1>3, <1>4

\* The plane is asked when it is available, and nothing else changes.
LEMMA NopOK ==
  ASSUME NEW pl, PlaneOK(pl), NEW stime \in Nat,
         NEW up, up = [pl EXCEPT !.next_pln_avail_time = Max({@, stime})]
  PROVE  PlaneOK(up)
<1>1. pl \in PlaneType /\ InTurn(pl) /\ Knows(pl)
  BY DEF PlaneOK
<1>2. PICK t \in Nat : t = pl.next_pln_avail_time
  BY <1>1 DEF PlaneType
<1>3. PICK m : m = Max({t, stime})
  OBVIOUS
<1>4. m \in Nat /\ m >= t
  BY <1>3, MaxOfTwo
<1>5. up = [cmd_queue |-> pl.cmd_queue, next_pln_avail_time |-> m,
            migrating |-> pl.migrating, migrating_etime |-> pl.migrating_etime]
  BY <1>1, <1>2, <1>3 DEF PlaneType
<1>6. up \in PlaneType
  BY <1>1, <1>4, <1>5 DEF PlaneType
<1>7. /\ up.cmd_queue = pl.cmd_queue /\ up.next_pln_avail_time = m /\ up.migrating = pl.migrating
      /\ up.migrating_etime = pl.migrating_etime
  BY <1>5
<1>8. InTurn(up)
  <2>1. ASSUME NEW i \in DOMAIN pl.cmd_queue PROVE pl.cmd_queue[i].ctime <= m
    <3>1. pl.cmd_queue[i].ctime \in Nat /\ pl.cmd_queue[i].ctime <= t
      BY <1>2, PlaneFacts
    <3> QED
      BY <1>4, <3>1
  <2> QED
    BY <1>1, <1>7, <2>1 DEF InTurn
<1>9. Knows(up)
  BY <1>1, <1>7 DEF Knows
<1> QED
  BY <1>6, <1>8, <1>9 DEF PlaneOK

LEMMA InitTiming == Init => TimingInv /\ Window!Init
<1> SUFFICES ASSUME Init PROVE TimingInv /\ Window!Init
  OBVIOUS
<1>1. PICK n \in Nat \ {0} : n = NrCreditEntries /\ Entries = 0 .. n - 1
  BY ChannelAssumption DEF Entries
<1>2. channel = [cur_time |-> 0, head |-> 0, valid_len |-> 0, avail_credits |-> [i \in Entries |-> MaxCredits]]
  BY DEF Init, chmodel_init
<1>3. channel \in ChannelType /\ channel.head \in Entries
  BY <1>1, <1>2, ChannelAssumption, NandAssumption DEF ChannelType
<1>4. ASSUME NEW i \in Entries PROVE channel.avail_credits[EntryAt(channel, i)] = MaxCredits
  <2>1. EntryAt(channel, i) \in Entries
    BY <1>3, RingFacts
  <2> QED
    BY <1>2, <2>1
<1>5. ChannelOK(channel)
  BY <1>3, <1>4 DEF ChannelOK
<1>6. plane = [p \in Planes |-> plane[p]]
  BY DEF Init
<1>7. ASSUME NEW p \in Planes PROVE PlaneOK(plane[p])
  <2>1. plane[p] = [cmd_queue |-> <<>>, next_pln_avail_time |-> 0, migrating |-> FALSE, migrating_etime |-> 0]
    BY DEF Init
  <2>2. plane[p] \in PlaneType
    BY <2>1 DEF PlaneType
  <2>3. plane[p].cmd_queue = <<>>
    BY <2>1
  <2>4. InTurn(plane[p]) /\ Knows(plane[p])
    BY <2>3 DEF InTurn, Knows
  <2> QED
    BY <2>2, <2>4 DEF PlaneOK
<1>8. Window!Init
  <2>1. Interval(channel.cur_time) = 0
    BY <1>2, ChannelAssumption DEF Interval
  <2>2. [i \in Entries |-> channel.avail_credits[EntryAt(channel, i)]] = [i \in Window!Offsets |-> MaxCredits]
    BY <1>4 DEF Window!Offsets, Entries
  <2> QED
    BY <2>1, <2>2 DEF Window!Init
<1> QED
  BY <1>5, <1>6, <1>7, <1>8 DEF TimingInv

\* What the abstract window sees of a step.
WindowStep ==
  [Window!Next]_<<Interval(channel.cur_time), [i \in Entries |-> channel.avail_credits[EntryAt(channel, i)]]>>

LEMMA StepTiming == TimingInv /\ [Next]_vars => TimingInv' /\ WindowStep
<1> SUFFICES ASSUME TimingInv, [Next]_vars PROVE TimingInv' /\ WindowStep
  OBVIOUS
<1> USE DEF WindowStep
<1>1. ASSUME NEW p \in Planes, NEW stime \in 0 .. MaxTime, NEW ncmd \in [type : IoTypes, blk : Blocks],
             NEW units \in 1 .. MaxUnits, NEW now \in Clock, NandRead(p, ncmd, stime, units, now)
      PROVE  TimingInv' /\ WindowStep
  <2>1. PICK pl : pl = Cleared(plane[p], stime)
    OBVIOUS
  <2>2. PICK start : start = plane_getstime(pl, ncmd, stime)
    OBVIOUS
  <2>3. PICK xfer : xfer = chmodel_request(channel, now, start.stime + PgRdLat, units)
    OBVIOUS
  <2>4. channel' = xfer.ch /\ plane' = [plane EXCEPT ![p] = plane_update(pl, ncmd, start, xfer.etime)]
    BY <1>1, <2>1, <2>2, <2>3 DEF NandRead
  <2>5. start.stime \in Nat
    BY <2>1, <2>2, CommandStep
  <2>6. start.stime + PgRdLat \in Nat /\ start.stime + PgRdLat >= start.stime
    BY <2>5, NandAssumption
  <2>7. ChannelOK(channel') /\ xfer.etime \in Nat /\ xfer.etime >= start.stime + PgRdLat /\ Window!Next
    BY <2>3, <2>4, <2>6, ChannelStep DEF TimingInv
  <2>8. xfer.etime >= start.stime
    BY <2>5, <2>6, <2>7
  <2>9. plane' = [q \in Planes |-> plane'[q]] /\ \A q \in Planes : PlaneOK(plane'[q])
    BY <2>1, <2>2, <2>4, <2>7, <2>8, CommandStep
  <2> QED
    BY <2>7, <2>9 DEF TimingInv
<1>2. ASSUME NEW p \in Planes, NEW stime \in 0 .. MaxTime, NEW ncmd \in [type : IoTypes, blk : Blocks],
             NEW units \in 1 .. MaxUnits, NEW now \in Clock, NandWrite(p, ncmd, stime, units, now)
      PROVE  TimingInv' /\ WindowStep
  <2>1. PICK pl : pl = Cleared(plane[p], stime)
    OBVIOUS
  <2>2. PICK start : start = plane_getstime(pl, ncmd, stime)
    OBVIOUS
  <2>3. PICK xfer : xfer = chmodel_request(channel, now, start.stime, units)
    OBVIOUS
  <2>4. PICK etime : etime = xfer.etime + PgWrLat
    OBVIOUS
  <2>5. channel' = xfer.ch /\ plane' = [plane EXCEPT ![p] = plane_update(pl, ncmd, start, etime)]
    BY <1>2, <2>1, <2>2, <2>3, <2>4 DEF NandWrite
  <2>6. start.stime \in Nat
    BY <2>1, <2>2, CommandStep
  <2>7. ChannelOK(channel') /\ xfer.etime \in Nat /\ xfer.etime >= start.stime /\ Window!Next
    BY <2>3, <2>5, <2>6, ChannelStep DEF TimingInv
  <2>8. etime \in Nat /\ etime >= start.stime
    BY <2>4, <2>6, <2>7, NandAssumption
  <2>9. plane' = [q \in Planes |-> plane'[q]] /\ \A q \in Planes : PlaneOK(plane'[q])
    BY <2>1, <2>2, <2>5, <2>8, CommandStep
  <2> QED
    BY <2>7, <2>9 DEF TimingInv
<1>3. ASSUME NEW p \in Planes, NEW stime \in 0 .. MaxTime, NEW ncmd \in [type : IoTypes, blk : Blocks],
             NandErase(p, ncmd, stime)
      PROVE  TimingInv' /\ WindowStep
  <2>1. PICK pl : pl = Cleared(plane[p], stime)
    OBVIOUS
  <2>2. PICK start : start = plane_getstime(pl, ncmd, stime)
    OBVIOUS
  <2>3. PICK etime : etime = start.stime + BlkErLat
    OBVIOUS
  <2>4. channel' = channel /\ plane' = [plane EXCEPT ![p] = plane_update(pl, ncmd, start, etime)]
    BY <1>3, <2>1, <2>2, <2>3 DEF NandErase
  <2>5. start.stime \in Nat
    BY <2>1, <2>2, CommandStep
  <2>6. etime \in Nat /\ etime >= start.stime
    BY <2>3, <2>5, NandAssumption
  <2>7. plane' = [q \in Planes |-> plane'[q]] /\ \A q \in Planes : PlaneOK(plane'[q])
    BY <2>1, <2>2, <2>4, <2>6, CommandStep
  <2>8. ChannelOK(channel') /\ WindowStep
    BY <2>4, NoChannelStep DEF TimingInv
  <2> QED
    BY <2>7, <2>8 DEF TimingInv
<1>4. ASSUME NEW p \in Planes, NEW stime \in 0 .. MaxTime, NandNop(p, stime)
      PROVE  TimingInv' /\ WindowStep
  <2>1. stime \in Nat /\ PlaneOK(plane[p])
    BY NandAssumption DEF TimingInv
  <2>2. PICK up : up = [plane[p] EXCEPT !.next_pln_avail_time = Max({@, stime})]
    OBVIOUS
  <2>3. PlaneOK(up)
    BY <2>1, <2>2, NopOK
  <2>4. channel' = channel /\ plane' = [plane EXCEPT ![p] = up]
    BY <1>4, <2>2 DEF NandNop
  <2>5. plane' = [q \in Planes |-> plane'[q]] /\ \A q \in Planes : PlaneOK(plane'[q])
    BY <2>3, <2>4, PlaneStep
  <2>6. ChannelOK(channel') /\ WindowStep
    BY <2>4, NoChannelStep DEF TimingInv
  <2> QED
    BY <2>5, <2>6 DEF TimingInv
<1>5. CASE UNCHANGED vars
  <2>1. channel' = channel /\ plane' = plane
    BY <1>5 DEF vars
  <2>2. WindowStep
    BY <2>1, NoChannelStep
  <2> QED
    BY <2>1, <2>2 DEF TimingInv
<1> QED
  BY <1>1, <1>2, <1>3, <1>4, <1>5 DEF Next

LEMMA InvariantTiming == Spec => []TimingInv
<1>1. Init => TimingInv
  BY InitTiming
<1>2. TimingInv /\ [Next]_vars => TimingInv'
  BY StepTiming
<1> QED
  BY <1>1, <1>2, PTL DEF Spec

-----------------------------------------------------------------------------
(* The theorems.                                                           *)

\* ssd_advance_nand, plane_update: whatever preempts and delays whatever else, and whenever
\* it is asked for, the commands of a plane follow one another.
THEOREM OneAtATime == Spec => []OneCommandAtATime
<1>1. TimingInv => OneCommandAtATime
  <2> SUFFICES ASSUME TimingInv PROVE OneCommandAtATime
    OBVIOUS
  <2>1. \A p \in Planes : PlaneOK(plane[p])
    BY DEF TimingInv
  <2>2. ASSUME NEW p \in Planes
        PROVE  /\ plane[p].next_pln_avail_time \in Nat /\ plane[p].migrating \in BOOLEAN
               /\ plane[p].migrating_etime \in Nat
               /\ \A i \in DOMAIN Commands(p) :
                    Commands(p)[i] \in [type : IoTypes, blk : Blocks, stime : Nat, ctime : Nat]
    <3>1. PlaneOK(plane[p])
      BY <2>1
    <3>2. plane[p].cmd_queue \in Seq(Command)
      BY <3>1 DEF PlaneOK, PlaneType
    <3>3. \A i \in DOMAIN plane[p].cmd_queue : plane[p].cmd_queue[i] \in Command
      BY <3>2
    <3> QED
      BY <3>1, <3>3 DEF PlaneOK, PlaneType, Commands, Command
  <2>3. TypeOK
    BY <2>2 DEF TimingInv, ChannelOK, ChannelType, TypeOK
  <2> QED
    BY <2>1, <2>3 DEF OneCommandAtATime, PlaneOK, InTurn, Commands
<1> QED
  BY <1>1, InvariantTiming, PTL

\* plane_getstime, plane_update: while a migration command is queued the plane knows it.
THEOREM MigrationKnown == Spec => []MigrationIsKnown
<1>1. TimingInv => MigrationIsKnown
  BY DEF TimingInv, PlaneOK, Knows, MigrationIsKnown, Commands
<1> QED
  BY <1>1, InvariantTiming, PTL

\* chmodel_request: the ring of credits, of which only the valid part is refilled, is the
\* window on time of BandwidthWindow, for any length of the ring and of its intervals.
THEOREM WindowImplemented == Spec => ImplementsWindow
<1>1. Init => Window!Init
  BY InitTiming
<1>2. TimingInv /\ [Next]_vars => WindowStep
  BY StepTiming
<1> QED
  BY <1>1, <1>2, InvariantTiming, PTL DEF Spec, ImplementsWindow, Window!Spec, WindowStep
=============================================================================
