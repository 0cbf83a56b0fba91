---------------------------- MODULE L2PCacheProofs ----------------------------
(***************************************************************************)
(* Proofs about the mapping cache of L2PCache, for any number of slots,    *)
(* entries per slot, zones and pages, and units of any size.               *)
(*                                                                         *)
(* The inductive invariant is CacheInv.  For each slot there is a chain c, *)
(* a list of its entries from head to tail that the indices next and last  *)
(* follow (Chain); the walks of the source are recursive functions, and    *)
(* what they find is said in terms of c (ChainedIs, EvicteeIs).            *)
(***************************************************************************)
EXTENDS L2PCache, WellFoundedInduction, SequenceTheorems, TLAPS

Entries == [key : Keys \cup {NoKey}, granularity : Grans, resident : BOOLEAN,
            next : Indices \cup {NIL}, last : Indices \cup {NIL}]

Types(C) == C \in [mapping  : [Slots -> [Indices -> Entries]],
                   slot_len : [Slots -> 0 .. SlotSize],
                   head     : [Slots -> Indices],
                   tail     : [Slots -> Indices]]

\* c lists the first len indices, each once.
Lists(c, len) ==
  /\ c \in [1 .. len -> 0 .. len - 1]
  /\ \A i \in 0 .. len - 1 : \E n \in 1 .. len : c[n] = i
  /\ \A n, o \in 1 .. len : c[n] = c[o] => n = o

\* c lists the len entries of the slot m from head h to tail t, along next and
\* back along last.
Chain(m, len, h, t, c) ==
  /\ len \in 0 .. SlotSize
  /\ Lists(c, len)
  /\ IF len = 0 THEN h = 0 /\ t = 0 ELSE h = c[1] /\ t = c[len]
  /\ \A n \in 1 .. len : m[c[n]].next = IF n = len THEN NIL ELSE c[n + 1]
  /\ \A n \in 2 .. len : m[c[n]].last = c[n - 1]

SlotChain(C, s, c) == Chain(C.mapping[s], C.slot_len[s], C.head[s], C.tail[s], c)

-----------------------------------------------------------------------------
(* Numbers and keys.                                                       *)

\* A set of numbers that is not empty has a least one.
LEMMA LeastNumber ==
  ASSUME NEW S \in SUBSET Nat, S # {}
  PROVE  \E i \in S : \A j \in S : i <= j
<1>1. PICK i \in S : \A j \in S : <<j, i>> \notin OpToRel(<, Nat)
  BY NatLessThanWellFounded, WFMin
<1>2. \A j \in S : ~(j < i)
  BY <1>1 DEF OpToRel
<1> QED
  BY <1>2

\* A remainder is no more than the number.
LEMMA Remainder ==
  ASSUME NEW a \in Nat, NEW b \in Nat \ {0}
  PROVE  a % b \in 0 .. b - 1 /\ a % b <= a
<1> DEFINE q == a \div b
           r == a % b
<1>1. q \in Int /\ r \in 0 .. b - 1 /\ a = (b * q) + r
  OBVIOUS
<1> HIDE DEF q, r
<1>2. q >= 0
  <2> SUFFICES ASSUME q < 0 PROVE FALSE
    BY <1>1
  <2>1. PICK c \in Nat : q = -c - 1
    <3>1. -q - 1 \in Nat /\ q = -(-q - 1) - 1
      BY <1>1
    <3> QED
      BY <3>1
  <2>2. b * c \in Nat /\ b * q = -(b * c) - b
    BY <2>1, \A x, y \in Nat : x * y \in Nat
  <2> QED
    BY <1>1, <2>2
<1>3. b * q \in Nat
  BY <1>1, <1>2, \A x, y \in Nat : x * y \in Nat
<1>4. r \in 0 .. b - 1 /\ r <= a
  BY <1>1, <1>3
<1> QED
  BY <1>4 DEF r

\* Keys are pairs of a namespace and one of its pages.
LEMMA KeyFacts ==
  /\ \A key \in Keys : key[1] \in Namespaces /\ key[2] \in Lpns(key[1]) /\ key = <<key[1], key[2]>>
  /\ \A ns \in Namespaces : Lpns(ns) \in SUBSET Nat /\ \A lpn \in Lpns(ns) : <<ns, lpn>> \in Keys
  /\ NoKey \notin Keys
<1>1. \A ns \in Namespaces : NrZones[ns] * PgsPerZone[ns] \in Nat
  BY ZoneAssumption, \A x, y \in Nat : x * y \in Nat
<1>2. \A ns \in Namespaces : Lpns(ns) \in SUBSET Nat
  BY <1>1 DEF Lpns
<1>3. \A key \in Keys : \E ns \in Namespaces : \E lpn \in Lpns(ns) : key = <<ns, lpn>>
  BY DEF Keys
<1>4. \A ns \in Namespaces : \A lpn \in Lpns(ns) : <<ns, lpn>> \in Keys
  BY DEF Keys
<1>5. NoKey \notin Keys
  BY <1>2, <1>3 DEF NoKey, NIL
<1> QED
  BY <1>2, <1>3, <1>4, <1>5

\* Every key has a slot.
LEMMA SlotOfKey == \A key \in Keys : SlotOf(key) \in Slots
<1> SUFFICES ASSUME NEW key \in Keys PROVE SlotOf(key) \in Slots
  OBVIOUS
<1>1. PICK a \in Nat, b \in Nat \ {0} : a = key[2] /\ b = NumSlots
  BY KeyFacts, CacheAssumption
<1>2. a % b \in 0 .. b - 1
  BY Remainder
<1> QED
  BY <1>1, <1>2 DEF SlotOf, Slots

\* The granularities, from the coarsest to the finest.
LEMMA GranFacts ==
  /\ DOMAIN MAP_GRAN = 1 .. 4 /\ \A i \in 1 .. 4 : MAP_GRAN[i] \in Grans
  /\ "PAGE_MAP" \in Grans /\ "CHUNK_MAP" \in Grans /\ "SUB_ZONE_MAP" \in Grans /\ "ZONE_MAP" \in Grans
  /\ Grans = {"ZONE_MAP", "SUB_ZONE_MAP", "CHUNK_MAP", "PAGE_MAP"}
  /\ UNMAPPED \notin Grans
<1>1. DOMAIN MAP_GRAN = 1 .. 4
  BY DEF MAP_GRAN
<1>2. /\ MAP_GRAN[1] = "ZONE_MAP" /\ MAP_GRAN[2] = "SUB_ZONE_MAP"
      /\ MAP_GRAN[3] = "CHUNK_MAP" /\ MAP_GRAN[4] = "PAGE_MAP"
  BY DEF MAP_GRAN
<1>3. Grans = {"ZONE_MAP", "SUB_ZONE_MAP", "CHUNK_MAP", "PAGE_MAP"}
  <2>1. Grans = {MAP_GRAN[i] : i \in 1 .. 4}
    BY <1>1 DEF Grans
  <2> QED
    BY <1>2, <2>1
<1> QED
  BY <1>1, <1>2, <1>3 DEF UNMAPPED

\* A unit begins with a page of its namespace.
LEMMA StartIsKey ==
  ASSUME NEW key \in Keys, NEW gran \in Grans
  PROVE  Start(key, gran) \in Keys /\ Start(key, gran)[1] = key[1]
<1>1. PICK ns \in Namespaces, a \in Nat : key = <<ns, a>> /\ a \in Lpns(ns)
  BY KeyFacts
<1>2. PICK b \in Nat \ {0} : b = PgsPerZone[ns]
  BY ZoneAssumption
<1>3. PICK d \in Nat \ {0} : d = pages_per_granularity(ns, gran)
  <2>1. gran \in {"ZONE_MAP", "SUB_ZONE_MAP", "CHUNK_MAP", "PAGE_MAP"}
    BY GranFacts
  <2>2. pages_per_granularity(ns, gran) \in {1, PgsPerChunk, PgsPerSubZone, b}
    BY <1>2, <2>1 DEF pages_per_granularity
  <2>3. /\ b \in Nat \ {0} /\ PgsPerSubZone \in Nat \ {0} /\ PgsPerChunk \in Nat \ {0} /\ 1 \in Nat \ {0}
    BY UnitAssumption
  <2>4. pages_per_granularity(ns, gran) \in Nat \ {0}
    BY ONLY <2>2, <2>3, Zenon
  <2> QED
    BY <2>4
<1>4. PICK o \in Nat : o = a % b /\ o <= a
  <2>1. a % b \in 0 .. b - 1 /\ a % b <= a
    BY Remainder
  <2>2. a % b \in Nat
    BY <2>1
  <2> QED
    BY <2>1, <2>2
<1>5. PICK u \in Nat : u = o % d /\ u <= o
  <2>1. o % d \in 0 .. d - 1 /\ o % d <= o
    BY Remainder
  <2>2. o % d \in Nat
    BY <2>1
  <2> QED
    BY <2>1, <2>2
<1>6. Start(key, gran) = <<ns, a - u>>
  BY <1>1, <1>2, <1>3, <1>4, <1>5 DEF Start
<1>7. a - u \in Lpns(ns)
  <2>1. PICK n \in Nat : n = NrZones[ns] * PgsPerZone[ns]
    BY ZoneAssumption, \A x, y \in Nat : x * y \in Nat
  <2>2. a \in 0 .. n - 1 /\ a - u \in 0 .. n - 1
    BY <1>1, <1>4, <1>5, <2>1 DEF Lpns
  <2> QED
    BY <2>1, <2>2 DEF Lpns
<1> QED
  BY <1>1, <1>6, <1>7, KeyFacts

-----------------------------------------------------------------------------
(* The chain of a slot.                                                    *)

\* c with its p-th entry taken to the end.
ToEnd(c, len, p) ==
  [n \in 1 .. len |-> IF n < p THEN c[n] ELSE IF n < len THEN c[n + 1] ELSE c[p]]

\* What MoveToTail does to the indices of a slot.
Moves(m, mm, h, t, i) ==
  \A j \in Indices :
    /\ mm[j].next = IF j = i THEN NIL
                    ELSE IF j = t THEN i
                    ELSE IF j = m[i].last /\ i # h THEN m[i].next ELSE m[j].next
    /\ mm[j].last = IF j = i THEN t
                    ELSE IF j = m[i].next THEN (IF i = h THEN NIL ELSE m[i].last)
                    ELSE m[j].last

\* The list with its p-th taken to the end is a list of the same entries.
LEMMA ToEndFacts ==
  ASSUME NEW len \in Nat, NEW c, Lists(c, len), NEW p \in 1 .. len
  PROVE  /\ Lists(ToEnd(c, len, p), len)
         /\ \A n \in 1 .. p - 1 : ToEnd(c, len, p)[n] = c[n]
         /\ \A n \in p .. len - 1 : ToEnd(c, len, p)[n] = c[n + 1]
         /\ ToEnd(c, len, p)[len] = c[p]
<1>0. PICK d : d = ToEnd(c, len, p)
  OBVIOUS
<1>a. /\ c \in [1 .. len -> 0 .. len - 1]
      /\ \A i \in 0 .. len - 1 : \E n \in 1 .. len : c[n] = i
      /\ \A n, o \in 1 .. len : c[n] = c[o] => n = o
  BY DEF Lists
<1>1. \A n \in 1 .. len : d[n] = IF n < p THEN c[n] ELSE IF n < len THEN c[n + 1] ELSE c[p]
  BY <1>0 DEF ToEnd
<1>2. DOMAIN d = 1 .. len /\ d = [n \in 1 .. len |-> d[n]]
  BY <1>0 DEF ToEnd
<1>3. /\ \A n \in 1 .. p - 1 : d[n] = c[n]
      /\ \A n \in p .. len - 1 : d[n] = c[n + 1]
      /\ d[len] = c[p]
  <2>1. ASSUME NEW n \in 1 .. p - 1 PROVE d[n] = c[n]
    <3>1. n \in 1 .. len /\ n < p
      OBVIOUS
    <3> QED
      BY <1>1, <3>1
  <2>2. ASSUME NEW n \in p .. len - 1 PROVE d[n] = c[n + 1]
    <3>1. n \in 1 .. len /\ ~(n < p) /\ n < len
      OBVIOUS
    <3> QED
      BY <1>1, <3>1
  <2>3. len \in 1 .. len /\ ~(len < p) /\ ~(len < len)
    OBVIOUS
  <2> QED
    BY <1>1, <2>1, <2>2, <2>3
<1>4. \A n \in 1 .. len : d[n] \in 0 .. len - 1
  <2> SUFFICES ASSUME NEW n \in 1 .. len PROVE d[n] \in 0 .. len - 1
    OBVIOUS
  <2>1. \E o \in 1 .. len : d[n] = c[o]
    <3>1. CASE n < p
      BY <1>1, <3>1
    <3>2. CASE ~(n < p) /\ n < len
      <4>1. n + 1 \in 1 .. len
        BY <3>2
      <4> QED
        BY <1>1, <3>2, <4>1
    <3>3. CASE ~(n < p) /\ ~(n < len)
      BY <1>1, <3>3
    <3> QED
      BY <3>1, <3>2, <3>3
  <2> QED
    BY <1>a, <2>1
<1>5. ASSUME NEW i \in 0 .. len - 1 PROVE \E n \in 1 .. len : d[n] = i
  <2>1. PICK n \in 1 .. len : c[n] = i
    BY <1>a
  <2>2. CASE n < p
    <3>1. n \in 1 .. p - 1
      BY <2>2
    <3>2. d[n] = c[n]
      BY <1>3, <3>1
    <3> QED
      BY <2>1, <3>2
  <2>3. CASE n = p
    <3>1. len \in 1 .. len /\ d[len] = c[n]
      BY <1>3, <2>3
    <3> QED
      BY <2>1, <3>1
  <2>4. CASE n > p
    <3>1. n - 1 \in p .. len - 1 /\ n - 1 \in 1 .. len /\ (n - 1) + 1 = n
      BY <2>4
    <3>2. d[n - 1] = c[n]
      BY <1>3, <3>1
    <3> QED
      BY <2>1, <3>1, <3>2
  <2> QED
    BY <2>2, <2>3, <2>4
<1>6. ASSUME NEW n \in 1 .. len, NEW o \in 1 .. len, d[n] = d[o] PROVE n = o
  <2> DEFINE Old(x) == IF x < p THEN x ELSE IF x < len THEN x + 1 ELSE p
  <2>1. Old(n) \in 1 .. len /\ Old(o) \in 1 .. len /\ d[n] = c[Old(n)] /\ d[o] = c[Old(o)]
    BY <1>1
  <2>2. Old(n) = Old(o)
    BY <1>a, <1>6, <2>1
  <2> QED
    BY <2>2
<1>7. Lists(d, len)
  BY <1>2, <1>4, <1>5, <1>6 DEF Lists
<1> QED
  BY <1>0, <1>3, <1>7

\* After the p-th entry was taken to the end, the chain is whole.
LEMMA MovesChain ==
  ASSUME NEW m, NEW mm, NEW len, NEW h, NEW t, NEW c, Chain(m, len, h, t, c),
         NEW p \in 1 .. len - 1, Moves(m, mm, h, t, c[p])
  PROVE  Chain(mm, len, IF c[p] = h THEN m[c[p]].next ELSE h, c[p], ToEnd(c, len, p))
<1>1. /\ len \in Nat /\ len <= SlotSize /\ len \in 0 .. SlotSize /\ SlotSize \in Nat
      /\ Lists(c, len)
      /\ c \in [1 .. len -> 0 .. len - 1]
      /\ \A n, o \in 1 .. len : c[n] = c[o] => n = o
  <2>1. SlotSize \in Nat
    BY CacheAssumption
  <2>2. /\ len \in 0 .. SlotSize
        /\ Lists(c, len)
        /\ c \in [1 .. len -> 0 .. len - 1]
        /\ \A n, o \in 1 .. len : c[n] = c[o] => n = o
    BY Zenon DEF Chain, Lists
  <2>3. len \in Nat /\ len <= SlotSize
    BY <2>1, <2>2
  <2> QED
    BY <2>1, <2>2, <2>3, Zenon
<1>2. len > 1 /\ p \in 1 .. len /\ p + 1 \in 1 .. len /\ p < len /\ 1 \in 1 .. len /\ len \in 1 .. len
  BY <1>1
<1>3. h = c[1] /\ t = c[len]
  BY <1>2 DEF Chain
<1>4. /\ \A n \in 1 .. len : m[c[n]].next = IF n = len THEN NIL ELSE c[n + 1]
      /\ \A n \in 2 .. len : m[c[n]].last = c[n - 1]
  BY DEF Chain
<1>5. \A n \in 1 .. len : c[n] \in Indices
  BY <1>1 DEF Indices
<1>6. PICK d : d = ToEnd(c, len, p)
  OBVIOUS
<1>7. /\ Lists(d, len)
      /\ \A n \in 1 .. p - 1 : d[n] = c[n]
      /\ \A n \in p .. len - 1 : d[n] = c[n + 1]
      /\ d[len] = c[p]
  <2>1. len \in Nat /\ Lists(c, len) /\ p \in 1 .. len
    BY <1>1, <1>2
  <2>2. /\ Lists(ToEnd(c, len, p), len)
        /\ \A n \in 1 .. p - 1 : ToEnd(c, len, p)[n] = c[n]
        /\ \A n \in p .. len - 1 : ToEnd(c, len, p)[n] = c[n + 1]
        /\ ToEnd(c, len, p)[len] = c[p]
    BY ONLY <2>1, ToEndFacts
  <2> QED
    BY ONLY <1>6, <2>2, Zenon
<1>8. m[c[p]].next = c[p + 1]
  BY <1>2, <1>4
<1>9. p > 1 => p \in 2 .. len /\ p - 1 \in 1 .. len /\ m[c[p]].last = c[p - 1]
  BY <1>2, <1>4
<1>10. c[p] = h <=> p = 1
  BY <1>1, <1>2, <1>3
<1>11. ASSUME NEW n \in 1 .. len
       PROVE  /\ mm[c[n]].next = IF n = p THEN NIL
                                 ELSE IF n = len THEN c[p]
                                 ELSE IF n = p - 1 THEN c[p + 1] ELSE c[n + 1]
              /\ n > 1 => mm[c[n]].last = IF n = p THEN c[len]
                                          ELSE IF n = p + 1 THEN (IF p = 1 THEN NIL ELSE c[p - 1])
                                          ELSE c[n - 1]
  <2>1. /\ mm[c[n]].next = IF c[n] = c[p] THEN NIL
                           ELSE IF c[n] = t THEN c[p]
                           ELSE IF c[n] = m[c[p]].last /\ c[p] # h THEN m[c[p]].next ELSE m[c[n]].next
        /\ mm[c[n]].last = IF c[n] = c[p] THEN t
                           ELSE IF c[n] = m[c[p]].next THEN (IF c[p] = h THEN NIL ELSE m[c[p]].last)
                           ELSE m[c[n]].last
    BY <1>5 DEF Moves
  <2>2. (c[n] = c[p] <=> n = p) /\ (c[n] = t <=> n = len) /\ (c[n] = m[c[p]].next <=> n = p + 1)
    BY <1>1, <1>2, <1>3, <1>8
  <2>3. (c[n] = m[c[p]].last /\ c[p] # h) <=> n = p - 1
    <3>1. CASE p = 1
      BY <1>10, <3>1
    <3>2. CASE p > 1
      BY <1>1, <1>9, <1>10, <3>2
    <3> QED
      BY <1>2, <3>1, <3>2
  <2>4. m[c[n]].next = IF n = len THEN NIL ELSE c[n + 1]
    BY <1>4
  <2>5. mm[c[n]].next = IF n = p THEN NIL
                        ELSE IF n = len THEN c[p]
                        ELSE IF n = p - 1 THEN c[p + 1] ELSE c[n + 1]
    BY <1>8, <2>1, <2>2, <2>3, <2>4
  <2>6. ASSUME n > 1
        PROVE  mm[c[n]].last = IF n = p THEN c[len]
                               ELSE IF n = p + 1 THEN (IF p = 1 THEN NIL ELSE c[p - 1])
                               ELSE c[n - 1]
    <3>1. m[c[n]].last = c[n - 1]
      <4>1. n \in 2 .. len
        BY <1>1, <2>6
      <4> QED
        BY <1>4, <4>1
    <3>2. mm[c[n]].last = IF n = p THEN c[len]
                          ELSE IF n = p + 1 THEN (IF p = 1 THEN NIL ELSE m[c[p]].last)
                          ELSE m[c[n]].last
      BY <1>3, <1>10, <2>1, <2>2
    <3>3. p # 1 => m[c[p]].last = c[p - 1]
      BY <1>2, <1>9
    <3> QED
      BY <3>1, <3>2, <3>3
  <2> QED
    BY <2>5, <2>6
<1>12. ASSUME NEW n \in 1 .. len PROVE mm[d[n]].next = IF n = len THEN NIL ELSE d[n + 1]
  <2>1. CASE n = len
    BY <1>2, <1>7, <1>11, <2>1
  <2>2. CASE n < p - 1
    <3>1. n \in 1 .. p - 1 /\ n + 1 \in 1 .. p - 1 /\ n # p /\ n # len /\ n # p - 1
      BY <1>1, <2>2
    <3>2. d[n] = c[n] /\ d[n + 1] = c[n + 1] /\ mm[c[n]].next = c[n + 1]
      BY <1>7, <1>11, <3>1
    <3> QED
      BY <3>1, <3>2
  <2>3. CASE n = p - 1
    <3>1. n \in 1 .. p - 1 /\ n + 1 = p /\ p \in p .. len - 1 /\ n # p /\ n # len
      BY <1>1, <2>3
    <3>2. d[n] = c[n] /\ d[p] = c[p + 1] /\ mm[c[n]].next = c[p + 1]
      BY <1>7, <1>11, <2>3, <3>1
    <3> QED
      BY <3>1, <3>2
  <2>4. CASE n >= p /\ n < len - 1
    <3>1. PICK o \in 1 .. len : o = n + 1
      BY <1>1, <2>4
    <3>2. n \in p .. len - 1 /\ o \in p .. len - 1 /\ o # p /\ o # len /\ o # p - 1 /\ n # len
      BY <1>1, <2>4, <3>1
    <3>3. d[n] = c[o] /\ d[o] = c[o + 1] /\ mm[c[o]].next = c[o + 1]
      BY <1>7, <1>11, <3>1, <3>2
    <3> QED
      BY <3>1, <3>2, <3>3
  <2>5. CASE n >= p /\ n = len - 1
    <3>1. n \in p .. len - 1 /\ n + 1 = len /\ n # len /\ len # p
      BY <1>1, <1>2, <2>5
    <3>2. d[n] = c[len] /\ d[len] = c[p] /\ mm[c[len]].next = c[p]
      BY <1>2, <1>7, <1>11, <3>1
    <3> QED
      BY <3>1, <3>2
  <2>6. n = len \/ n < p - 1 \/ n = p - 1 \/ (n >= p /\ n < len - 1) \/ (n >= p /\ n = len - 1)
    BY <1>1, <1>2
  <2> QED
    BY <2>1, <2>2, <2>3, <2>4, <2>5, <2>6, Zenon
<1>13. ASSUME NEW n \in 2 .. len PROVE mm[d[n]].last = d[n - 1]
  <2>1. n \in 1 .. len /\ n > 1 /\ n - 1 \in 1 .. len
    BY <1>1
  <2>2. CASE n < p
    <3>1. n \in 1 .. p - 1 /\ n - 1 \in 1 .. p - 1 /\ n # p /\ n # p + 1
      BY <1>1, <2>2
    <3>2. d[n] = c[n] /\ d[n - 1] = c[n - 1] /\ mm[c[n]].last = c[n - 1]
      BY <1>7, <1>11, <2>1, <3>1
    <3> QED
      BY <3>2
  <2>3. CASE n = p
    <3>1. n \in p .. len - 1 /\ n - 1 \in 1 .. p - 1 /\ p # 1 /\ p + 1 > 1
      BY <1>1, <1>2, <2>3
    <3>2. d[n] = c[p + 1] /\ d[n - 1] = c[p - 1] /\ mm[c[p + 1]].last = c[p - 1]
      <4>1. PICK o \in 1 .. len : o = p + 1 /\ o # p /\ o > 1
        BY <1>1, <1>2, <3>1
      <4>2. mm[c[o]].last = c[p - 1]
        BY <1>11, <3>1, <4>1
      <4>3. d[n] = c[n + 1] /\ d[n - 1] = c[n - 1]
        BY <1>7, <3>1
      <4> QED
        BY <2>3, <4>1, <4>2, <4>3
    <3> QED
      BY <3>2
  <2>4. CASE n > p /\ n < len
    <3>1. PICK o \in 1 .. len : o = n + 1 /\ o # p /\ o # p + 1 /\ o > 1
      BY <1>1, <2>4
    <3>2. n \in p .. len - 1 /\ n - 1 \in p .. len - 1 /\ (n - 1) + 1 = n /\ o - 1 = n
      BY <1>1, <2>4, <3>1
    <3>3. d[n] = c[o] /\ d[n - 1] = c[n] /\ mm[c[o]].last = c[n]
      BY <1>7, <1>11, <3>1, <3>2
    <3> QED
      BY <3>3
  <2>5. CASE n = len
    <3>1. n - 1 \in p .. len - 1 /\ (n - 1) + 1 = len
      BY <1>1, <1>2, <2>5
    <3>2. d[n] = c[p] /\ d[n - 1] = c[len]
      BY <1>7, <2>5, <3>1
    <3>3. mm[c[p]].last = c[len]
      <4>1. CASE p > 1
        BY <1>2, <1>11, <4>1
      <4>2. CASE p = 1
        BY <1>2, <1>3, <1>5, <4>2 DEF Moves
      <4> QED
        BY <1>2, <4>1, <4>2
    <3> QED
      BY <3>2, <3>3
  <2>6. n < p \/ n = p \/ (n > p /\ n < len) \/ n = len
    BY <1>1, <1>2
  <2> QED
    BY <2>2, <2>3, <2>4, <2>5, <2>6, Zenon
<1>14. (IF c[p] = h THEN m[c[p]].next ELSE h) = d[1] /\ c[p] = d[len]
  <2>1. CASE p = 1
    <3>1. d[1] = c[2]
      BY <1>2, <1>7, <2>1
    <3> QED
      BY <1>7, <1>8, <1>10, <2>1, <3>1
  <2>2. CASE p > 1
    <3>1. 1 \in 1 .. p - 1
      BY <1>2, <2>2
    <3>2. d[1] = c[1]
      BY <1>7, <3>1
    <3> QED
      BY <1>3, <1>7, <1>10, <2>2, <3>2
  <2> QED
    BY <1>2, <2>1, <2>2
<1>15. PICK H : H = IF c[p] = h THEN m[c[p]].next ELSE h
  OBVIOUS
<1>16. H = d[1] /\ c[p] = d[len] /\ len # 0
  BY <1>2, <1>14, <1>15
<1>17. Chain(mm, len, H, c[p], d)
  BY <1>1, <1>7, <1>12, <1>13, <1>16 DEF Chain
<1> QED
  BY <1>6, <1>15, <1>17

\* The chain is one of indices and of the fields next and last.
LEMMA SameLinks ==
  ASSUME NEW m, NEW mm, NEW len, NEW h, NEW t, NEW c, Chain(m, len, h, t, c),
         \A j \in Indices : mm[j].next = m[j].next /\ mm[j].last = m[j].last
  PROVE  Chain(mm, len, h, t, c)
<1>1. SlotSize \in Nat /\ len \in 0 .. SlotSize /\ c \in [1 .. len -> 0 .. len - 1]
  BY CacheAssumption DEF Chain, Lists
<1>2. \A n \in 1 .. len : c[n] \in Indices
  BY <1>1 DEF Indices
<1>3. \A n \in 2 .. len : n \in 1 .. len
  BY <1>1
<1>4. \A n \in 1 .. len : mm[c[n]].next = m[c[n]].next /\ mm[c[n]].last = m[c[n]].last
  BY <1>2
<1> QED
  BY <1>3, <1>4 DEF Chain

\* What an entry says, whatever its place in the chain.
SameContent(C, D, r, j) ==
  /\ D.mapping[r][j].key = C.mapping[r][j].key
  /\ D.mapping[r][j].granularity = C.mapping[r][j].granularity
  /\ D.mapping[r][j].resident = C.mapping[r][j].resident

\* Nothing changed but the order of slot s.
Relinked(C, D, s) ==
  /\ D.slot_len = C.slot_len
  /\ \A r \in Slots : r # s => D.mapping[r] = C.mapping[r] /\ D.head[r] = C.head[r] /\ D.tail[r] = C.tail[r]
  /\ \A r \in Slots : \A j \in Indices : SameContent(C, D, r, j)

\* What MoveToTail changes: the links of slot s, its tail and perhaps its head.
LEMMA MoveFacts ==
  ASSUME NEW C, Types(C), NEW s \in Slots, NEW i \in Indices, C.mapping[s][i].next \in Indices,
         NEW D, D = MoveToTail(C, s, i)
  PROVE  /\ Types(D) /\ Relinked(C, D, s)
         /\ Moves(C.mapping[s], D.mapping[s], C.head[s], C.tail[s], i)
         /\ D.tail[s] = i
         /\ D.head[s] = IF i = C.head[s] THEN C.mapping[s][i].next ELSE C.head[s]
<1> DEFINE m == C.mapping[s]
           t == C.tail[s]
           isHead == i = C.head[s]
           moved == [j \in Indices |->
                  [m[j] EXCEPT !.next = IF j = i THEN NIL
                                        ELSE IF j = t THEN i
                                        ELSE IF j = m[i].last /\ ~isHead THEN m[i].next ELSE @,
                               !.last = IF j = i THEN t
                                        ELSE IF j = m[i].next
                                               THEN (IF isHead THEN NIL ELSE m[i].last) ELSE @]]
<1>1. D = [C EXCEPT !.mapping[s] = moved, !.tail[s] = i, !.head[s] = IF isHead THEN m[i].next ELSE @]
  BY DEF MoveToTail
<1>2. /\ C \in [mapping  : [Slots -> [Indices -> Entries]], slot_len : [Slots -> 0 .. SlotSize],
                head     : [Slots -> Indices], tail : [Slots -> Indices]]
  BY DEF Types
<1>3. m \in [Indices -> Entries] /\ t \in Indices /\ C.head[s] \in Indices
  BY <1>2
<1>4. ASSUME NEW j \in Indices
      PROVE  /\ moved[j] \in Entries
             /\ moved[j].next = IF j = i THEN NIL
                                ELSE IF j = t THEN i
                                ELSE IF j = m[i].last /\ i # C.head[s] THEN m[i].next ELSE m[j].next
             /\ moved[j].last = IF j = i THEN t
                                ELSE IF j = m[i].next THEN (IF i = C.head[s] THEN NIL ELSE m[i].last)
                                ELSE m[j].last
             /\ moved[j].key = m[j].key
             /\ moved[j].granularity = m[j].granularity
             /\ moved[j].resident = m[j].resident
  <2>1. m[j] \in Entries /\ m[i] \in Entries /\ m[i].next \in Indices
    BY <1>3
  <2> DEFINE x == IF j = i THEN NIL ELSE IF j = t THEN i
                  ELSE IF j = m[i].last /\ ~isHead THEN m[i].next ELSE m[j].next
             y == IF j = i THEN t ELSE IF j = m[i].next THEN (IF isHead THEN NIL ELSE m[i].last) ELSE m[j].last
  <2>2. moved[j] = [m[j] EXCEPT !.next = x, !.last = y]
    OBVIOUS
  <2>3. x \in Indices \cup {NIL} /\ y \in Indices \cup {NIL}
    BY <1>3, <2>1 DEF Entries
  <2>4. x = IF j = i THEN NIL
            ELSE IF j = t THEN i
            ELSE IF j = m[i].last /\ i # C.head[s] THEN m[i].next ELSE m[j].next
    OBVIOUS
  <2>5. y = IF j = i THEN t
            ELSE IF j = m[i].next THEN (IF i = C.head[s] THEN NIL ELSE m[i].last)
            ELSE m[j].last
    OBVIOUS
  <2> HIDE DEF x, y, moved, m
  <2>6. /\ moved[j] \in Entries /\ moved[j].next = x /\ moved[j].last = y
        /\ moved[j].key = m[j].key /\ moved[j].granularity = m[j].granularity
        /\ moved[j].resident = m[j].resident
    BY <2>1, <2>2, <2>3 DEF Entries
  <2> QED
    BY <2>4, <2>5, <2>6
<1>5. moved \in [Indices -> Entries]
  BY <1>4
<1> HIDE DEF moved
<1>6. PICK H \in Indices : H = IF i = C.head[s] THEN m[i].next ELSE C.head[s]
  BY <1>3
<1>7. /\ D.mapping = [C.mapping EXCEPT ![s] = moved] /\ D.slot_len = C.slot_len
      /\ D.tail = [C.tail EXCEPT ![s] = i] /\ D.head = [C.head EXCEPT ![s] = H]
      /\ D \in [mapping  : [Slots -> [Indices -> Entries]], slot_len : [Slots -> 0 .. SlotSize],
                head     : [Slots -> Indices], tail : [Slots -> Indices]]
  <2>1. D = [C EXCEPT !.mapping = [C.mapping EXCEPT ![s] = moved], !.tail = [C.tail EXCEPT ![s] = i],
                      !.head = [C.head EXCEPT ![s] = H]]
    BY <1>1, <1>2, <1>6
  <2>2. /\ [C.mapping EXCEPT ![s] = moved] \in [Slots -> [Indices -> Entries]]
        /\ [C.tail EXCEPT ![s] = i] \in [Slots -> Indices] /\ [C.head EXCEPT ![s] = H] \in [Slots -> Indices]
    BY <1>2, <1>5
  <2> QED
    BY <1>2, <2>1, <2>2
<1>8. D.mapping[s] = moved /\ D.tail[s] = i /\ D.head[s] = H
  BY <1>2, <1>7
<1>9. \A r \in Slots : r # s => D.mapping[r] = C.mapping[r] /\ D.head[r] = C.head[r] /\ D.tail[r] = C.tail[r]
  BY <1>2, <1>7
<1>10. \A r \in Slots : \A j \in Indices : SameContent(C, D, r, j)
  BY <1>4, <1>8, <1>9 DEF SameContent
<1>11. Relinked(C, D, s)
  BY <1>7, <1>9, <1>10 DEF Relinked
<1>12. Moves(C.mapping[s], D.mapping[s], C.head[s], C.tail[s], i)
  BY <1>4, <1>8 DEF Moves
<1> QED
  BY <1>6, <1>7, <1>8, <1>11, <1>12 DEF Types

\* Using the p-th entry of a slot makes it the last.
LEMMA AccessFacts ==
  ASSUME NEW C, Types(C), NEW s \in Slots, NEW c, SlotChain(C, s, c), NEW p \in 1 .. C.slot_len[s],
         NEW D, D = l2p_access(C, s, c[p])
  PROVE  Types(D) /\ Relinked(C, D, s) /\ SlotChain(D, s, ToEnd(c, C.slot_len[s], p))
<1>1. PICK m, len, h, t : m = C.mapping[s] /\ len = C.slot_len[s] /\ h = C.head[s] /\ t = C.tail[s]
  OBVIOUS
<1>2. Chain(m, len, h, t, c) /\ p \in 1 .. len
  BY <1>1 DEF SlotChain
<1>3. /\ SlotSize \in Nat /\ len \in 0 .. SlotSize /\ Lists(c, len)
      /\ \A n \in 1 .. len : m[c[n]].next = IF n = len THEN NIL ELSE c[n + 1]
      /\ len # 0 => t = c[len]
  BY <1>2, CacheAssumption DEF Chain
<1>4. len \in Nat /\ len # 0 /\ len <= SlotSize /\ len \in 1 .. len
  BY <1>2, <1>3
<1>5. c \in [1 .. len -> 0 .. len - 1] /\ \A n, o \in 1 .. len : c[n] = c[o] => n = o
  BY <1>3 DEF Lists
<1>6. \A n \in 1 .. len : c[n] \in Indices
  BY <1>3, <1>4, <1>5 DEF Indices
<1>7. CASE p = len
  <2>1. D = C
    BY <1>1, <1>3, <1>4, <1>7 DEF l2p_access
  <2>2. ToEnd(c, len, p) = c
    <3>1. PICK d : d = ToEnd(c, len, p)
      OBVIOUS
    <3>2. d \in [1 .. len -> 0 .. len - 1]
      BY <1>2, <1>3, <1>4, <3>1, ToEndFacts DEF Lists
    <3>3. \A n \in 1 .. len : d[n] = c[n]
      BY <1>4, <1>7, <3>1 DEF ToEnd
    <3>4. c \in [1 .. len -> 0 .. len - 1]
      BY <1>5
    <3>5. d = [n \in 1 .. len |-> d[n]] /\ c = [n \in 1 .. len |-> c[n]]
      BY <3>2, <3>4
    <3>6. [n \in 1 .. len |-> d[n]] = [n \in 1 .. len |-> c[n]]
      BY <3>3, Zenon
    <3> QED
      BY <3>1, <3>5, <3>6
  <2>3. Relinked(C, C, s)
    BY DEF Relinked, SameContent
  <2> QED
    BY <1>1, <2>1, <2>2, <2>3
<1>8. CASE p # len
  <2>1. c[p] # t /\ p \in 1 .. len - 1
    BY <1>2, <1>3, <1>4, <1>5, <1>8
  <2>2. D = MoveToTail(C, s, c[p])
    BY <1>1, <2>1 DEF l2p_access
  <2>3. p + 1 \in 1 .. len /\ m[c[p]].next = c[p + 1]
    BY <1>2, <1>3, <1>8, <1>4
  <2>4. c[p] \in Indices /\ m[c[p]].next \in Indices
    BY <1>2, <1>6, <2>3
  <2>5. /\ Types(D) /\ Relinked(C, D, s)
        /\ Moves(m, D.mapping[s], h, t, c[p])
        /\ D.tail[s] = c[p]
        /\ D.head[s] = IF c[p] = h THEN m[c[p]].next ELSE h
    BY <1>1, <2>2, <2>4, MoveFacts
  <2>6. Chain(D.mapping[s], len, IF c[p] = h THEN m[c[p]].next ELSE h, c[p], ToEnd(c, len, p))
    BY <1>2, <2>1, <2>5, MovesChain
  <2>7. D.slot_len[s] = len
    BY <1>1, <2>5 DEF Relinked
  <2>8. SlotChain(D, s, ToEnd(c, len, p))
    BY <2>5, <2>6, <2>7 DEF SlotChain
  <2> QED
    BY <1>1, <2>5, <2>8
<1> QED
  BY <1>7, <1>8

-----------------------------------------------------------------------------
(* Entries are filled.                                                     *)

\* Entry i of slot s says something else, at the same place.
Filled(C, D, s, i, key, gran) ==
  /\ D.slot_len = C.slot_len /\ D.head = C.head /\ D.tail = C.tail
  /\ \A r \in Slots : r # s => D.mapping[r] = C.mapping[r]
  /\ \A j \in Indices : D.mapping[s][j].next = C.mapping[s][j].next /\ D.mapping[s][j].last = C.mapping[s][j].last
  /\ \A j \in Indices : j # i => SameContent(C, D, s, j)
  /\ D.mapping[s][i].key = key /\ D.mapping[s][i].granularity = gran
  /\ D.mapping[s][i].resident = check_resident(gran)

\* Entry i of slot s becomes e.
Put(C, s, i, e) == [C EXCEPT !.mapping = [C.mapping EXCEPT ![s] = [C.mapping[s] EXCEPT ![i] = e]]]

\* An entry is replaced in a slot and nothing else changes.
LEMMA PutFacts ==
  ASSUME NEW C, Types(C), NEW s \in Slots, NEW i \in Indices, NEW e \in Entries
  PROVE  LET D == Put(C, s, i, e)
         IN  /\ Types(D) /\ D.slot_len = C.slot_len /\ D.head = C.head /\ D.tail = C.tail
             /\ \A r \in Slots : r # s => D.mapping[r] = C.mapping[r]
             /\ \A j \in Indices : D.mapping[s][j] = IF j = i THEN e ELSE C.mapping[s][j]
<1>1. /\ C \in [mapping  : [Slots -> [Indices -> Entries]], slot_len : [Slots -> 0 .. SlotSize],
                head     : [Slots -> Indices], tail : [Slots -> Indices]]
  BY DEF Types
<1>2. PICK m : m = [C.mapping[s] EXCEPT ![i] = e]
  OBVIOUS
<1>3. m \in [Indices -> Entries] /\ \A j \in Indices : m[j] = IF j = i THEN e ELSE C.mapping[s][j]
  BY <1>1, <1>2
<1>4. PICK M : M = [C.mapping EXCEPT ![s] = m]
  OBVIOUS
<1>5. M \in [Slots -> [Indices -> Entries]] /\ M[s] = m /\ \A r \in Slots : r # s => M[r] = C.mapping[r]
  BY <1>1, <1>3, <1>4
<1>6. PICK D : D = [C EXCEPT !.mapping = M]
  OBVIOUS
<1>7. /\ D.mapping = M /\ D.slot_len = C.slot_len /\ D.head = C.head /\ D.tail = C.tail
      /\ D \in [mapping  : [Slots -> [Indices -> Entries]], slot_len : [Slots -> 0 .. SlotSize],
                head     : [Slots -> Indices], tail : [Slots -> Indices]]
  BY <1>1, <1>5, <1>6
<1>8. D = Put(C, s, i, e)
  BY <1>2, <1>4, <1>6 DEF Put
<1> QED
  BY <1>3, <1>5, <1>7, <1>8 DEF Types

\* Filling an entry changes what it says and leaves its links.
LEMMA FillFacts ==
  ASSUME NEW C, Types(C), NEW s \in Slots, NEW i \in Indices, NEW key \in Keys, NEW gran \in Grans
  PROVE  Types(Fill(C, s, i, key, gran)) /\ Filled(C, Fill(C, s, i, key, gran), s, i, key, gran)
<1>1. /\ C \in [mapping  : [Slots -> [Indices -> Entries]], slot_len : [Slots -> 0 .. SlotSize],
                head     : [Slots -> Indices], tail : [Slots -> Indices]]
      /\ C.mapping[s][i] \in Entries
  BY DEF Types
<1>2. PICK e : e = [C.mapping[s][i] EXCEPT !.key = key, !.granularity = gran, !.resident = check_resident(gran)]
  OBVIOUS
<1>3. check_resident(gran) \in BOOLEAN
  BY DEF check_resident
<1>4. /\ e \in Entries /\ e.key = key /\ e.granularity = gran /\ e.resident = check_resident(gran)
      /\ e.next = C.mapping[s][i].next /\ e.last = C.mapping[s][i].last
  BY <1>1, <1>2, <1>3 DEF Entries
<1>5. Fill(C, s, i, key, gran) = Put(C, s, i, e)
  BY <1>1, <1>2, ZenonT(40) DEF Fill, Put
<1>6. PICK D : D = Put(C, s, i, e)
  OBVIOUS
<1>7. /\ Types(D) /\ D.slot_len = C.slot_len /\ D.head = C.head /\ D.tail = C.tail
      /\ \A r \in Slots : r # s => D.mapping[r] = C.mapping[r]
      /\ \A j \in Indices : D.mapping[s][j] = IF j = i THEN e ELSE C.mapping[s][j]
  BY <1>4, <1>6, PutFacts
<1>8. Filled(C, D, s, i, key, gran)
  BY <1>4, <1>7 DEF Filled, SameContent
<1> QED
  BY <1>5, <1>6, <1>7, <1>8

\* A cached entry comes to map another unit from the same page on.
Regrained(C, s, i, gran) ==
  [C EXCEPT !.mapping[s][i].granularity = gran, !.mapping[s][i].resident = check_resident(gran)]

\* It keeps its key and its links.
LEMMA RegrainFacts ==
  ASSUME NEW C, Types(C), NEW s \in Slots, NEW i \in Indices, NEW gran \in Grans,
         NEW D, D = Regrained(C, s, i, gran)
  PROVE  Types(D) /\ Filled(C, D, s, i, C.mapping[s][i].key, gran)
<1>1. /\ C \in [mapping  : [Slots -> [Indices -> Entries]], slot_len : [Slots -> 0 .. SlotSize],
                head     : [Slots -> Indices], tail : [Slots -> Indices]]
      /\ C.mapping[s][i] \in Entries
  BY DEF Types
<1>2. PICK e : e = [C.mapping[s][i] EXCEPT !.granularity = gran, !.resident = check_resident(gran)]
  OBVIOUS
<1>3. check_resident(gran) \in BOOLEAN
  BY DEF check_resident
<1>4. /\ e \in Entries /\ e.key = C.mapping[s][i].key /\ e.granularity = gran /\ e.resident = check_resident(gran)
      /\ e.next = C.mapping[s][i].next /\ e.last = C.mapping[s][i].last
  BY <1>1, <1>2, <1>3 DEF Entries
<1>5. D = Put(C, s, i, e)
  BY <1>1, <1>2, ZenonT(40) DEF Put, Regrained
<1>6. PICK P : P = Put(C, s, i, e)
  OBVIOUS
<1>7. /\ Types(P) /\ P.slot_len = C.slot_len /\ P.head = C.head /\ P.tail = C.tail
      /\ \A r \in Slots : r # s => P.mapping[r] = C.mapping[r]
      /\ \A j \in Indices : P.mapping[s][j] = IF j = i THEN e ELSE C.mapping[s][j]
  <2>1. e \in Entries
    BY <1>4
  <2> QED
    BY ONLY <1>6, <2>1, Types(C), s \in Slots, i \in Indices, PutFacts
<1>8. Types(P) /\ Filled(C, P, s, i, C.mapping[s][i].key, gran)
  BY <1>4, <1>7 DEF Filled, SameContent
<1> QED
  BY ONLY <1>5, <1>6, <1>8, Zenon

\* The chain does not depend on what the entries say.
LEMMA FilledChain ==
  ASSUME NEW C, NEW D, NEW s \in Slots, NEW i, NEW key, NEW gran, Filled(C, D, s, i, key, gran), NEW c, SlotChain(C, s, c)
  PROVE  SlotChain(D, s, c)
BY SameLinks DEF Filled, SlotChain

\* The chain with one more entry.
Longer(c, len) == [n \in 1 .. len + 1 |-> IF n = len + 1 THEN len ELSE c[n]]

\* The part of l2p_insert that takes an entry that was never used: the entry is
\* linked to the tail ...
LinkedBack(F, s, len, t) ==
  [F EXCEPT !.mapping[s][len].next = NIL,
            !.mapping[s][len].last = IF len = 0 THEN NIL ELSE t,
            !.slot_len[s] = len + 1]

\* ... and the tail to the entry.
LinkedAt(f, s, len, t) == IF len = 0 THEN f ELSE [f EXCEPT !.mapping[s][t].next = len, !.tail[s] = len]

Appended(C, s, key, gran) ==
  LET len == C.slot_len[s]
      t   == C.tail[s]
  IN  LinkedAt(LinkedBack(Fill(C, s, len, key, gran), s, len, t), s, len, t)

\* Slot s has one more entry, for key.
OneMore(C, D, s, key, gran) ==
  /\ D.slot_len = [C.slot_len EXCEPT ![s] = C.slot_len[s] + 1]
  /\ \A r \in Slots : r # s => D.mapping[r] = C.mapping[r] /\ D.head[r] = C.head[r] /\ D.tail[r] = C.tail[r]
  /\ \A j \in Indices : j # C.slot_len[s] => SameContent(C, D, s, j)
  /\ LET e == D.mapping[s][C.slot_len[s]]
     IN  e.key = key /\ e.granularity = gran /\ e.resident = check_resident(gran)

\* The entry that is taken when a slot has room becomes the last of the chain.
LEMMA AppendFacts ==
  ASSUME NEW C, Types(C), NEW s \in Slots, NEW key \in Keys, NEW gran \in Grans,
         NEW c, SlotChain(C, s, c), C.slot_len[s] < SlotSize
  PROVE  LET D == Appended(C, s, key, gran)
         IN  Types(D) /\ OneMore(C, D, s, key, gran) /\ SlotChain(D, s, Longer(c, C.slot_len[s]))
<1>1. /\ C \in [mapping  : [Slots -> [Indices -> Entries]], slot_len : [Slots -> 0 .. SlotSize],
                head     : [Slots -> Indices], tail : [Slots -> Indices]]
      /\ SlotSize \in Nat \ {0}
  BY CacheAssumption DEF Types
<1>2. PICK len \in 0 .. SlotSize, t \in Indices, h \in Indices : len = C.slot_len[s] /\ t = C.tail[s] /\ h = C.head[s]
  BY <1>1
<1>3. len \in Nat /\ len < SlotSize /\ len \in Indices /\ len + 1 \in 0 .. SlotSize
  BY <1>1, <1>2 DEF Indices
<1>4. PICK F : F = Fill(C, s, len, key, gran)
  OBVIOUS
<1>5. Types(F) /\ Filled(C, F, s, len, key, gran)
  BY <1>3, <1>4, FillFacts
<1>6. PICK e : e = [F.mapping[s][len] EXCEPT !.next = NIL, !.last = IF len = 0 THEN NIL ELSE t]
  OBVIOUS
<1>7. /\ F \in [mapping  : [Slots -> [Indices -> Entries]], slot_len : [Slots -> 0 .. SlotSize],
                head     : [Slots -> Indices], tail : [Slots -> Indices]]
      /\ F.mapping[s][len] \in Entries
  BY <1>3, <1>5 DEF Types
<1>8. /\ e \in Entries /\ e.key = F.mapping[s][len].key /\ e.granularity = F.mapping[s][len].granularity
      /\ e.resident = F.mapping[s][len].resident
      /\ e.next = NIL /\ e.last = IF len = 0 THEN NIL ELSE t
  BY <1>2, <1>6, <1>7 DEF Entries
<1>9. PICK G : G = Put(F, s, len, e)
  OBVIOUS
<1>10. /\ Types(G) /\ G.slot_len = F.slot_len /\ G.head = F.head /\ G.tail = F.tail
       /\ \A r \in Slots : r # s => G.mapping[r] = F.mapping[r]
       /\ \A j \in Indices : G.mapping[s][j] = IF j = len THEN e ELSE F.mapping[s][j]
  BY <1>3, <1>5, <1>8, <1>9, PutFacts
<1>11. PICK f : f = LinkedBack(F, s, len, t)
  OBVIOUS
<1>12. f = [G EXCEPT !.slot_len = [C.slot_len EXCEPT ![s] = len + 1]]
  <2>1. F.slot_len = C.slot_len
    BY <1>5 DEF Filled
  <2>2. PICK L : L = IF len = 0 THEN NIL ELSE t
    OBVIOUS
  <2>3. e = [F.mapping[s][len] EXCEPT !.next = NIL, !.last = L]
    BY <1>6, <2>2
  <2>4. f = [F EXCEPT !.mapping[s][len].next = NIL, !.mapping[s][len].last = L, !.slot_len[s] = len + 1]
    BY <1>11, <2>2 DEF LinkedBack
  <2>5. f = [F EXCEPT !.mapping = [F.mapping EXCEPT ![s] = [F.mapping[s] EXCEPT ![len] = e]],
                      !.slot_len = [C.slot_len EXCEPT ![s] = len + 1]]
    <3>1. PICK M, m, a : M = F.mapping /\ m = M[s] /\ a = m[len]
      OBVIOUS
    <3>2. f = [F EXCEPT !.mapping = [M EXCEPT ![s] = [m EXCEPT ![len] = [a EXCEPT !.next = NIL, !.last = L]]],
                        !.slot_len = [F.slot_len EXCEPT ![s] = len + 1]]
      BY <1>3, <1>7, <2>4, <3>1, ZenonT(40)
    <3> QED
      BY ONLY <2>1, <2>3, <3>1, <3>2
  <2> QED
    BY <1>7, <1>9, <2>5 DEF Put
<1>13. G \in [mapping  : [Slots -> [Indices -> Entries]], slot_len : [Slots -> 0 .. SlotSize],
              head     : [Slots -> Indices], tail : [Slots -> Indices]]
  BY <1>10 DEF Types
<1>14. [C.slot_len EXCEPT ![s] = len + 1] \in [Slots -> 0 .. SlotSize]
  BY <1>1, <1>3
<1>15. /\ f \in [mapping  : [Slots -> [Indices -> Entries]], slot_len : [Slots -> 0 .. SlotSize],
                 head     : [Slots -> Indices], tail : [Slots -> Indices]]
       /\ f.mapping = G.mapping /\ f.head = C.head /\ f.tail = C.tail
       /\ f.slot_len = [C.slot_len EXCEPT ![s] = len + 1]
  <2>1. G.head = C.head /\ G.tail = C.tail
    BY <1>5, <1>10 DEF Filled
  <2> QED
    BY <1>12, <1>13, <1>14, <2>1
\* The fields of the slot.
<1>16. PICK D : D = Appended(C, s, key, gran)
  OBVIOUS
<1>17. D = IF len = 0 THEN f ELSE [f EXCEPT !.mapping[s][t].next = len, !.tail[s] = len]
  <2>1. D = LinkedAt(f, s, len, t)
    BY <1>2, <1>4, <1>11, <1>16 DEF Appended
  <2> QED
    BY <2>1 DEF LinkedAt
<1>18. /\ Types(D)
       /\ D.slot_len = [C.slot_len EXCEPT ![s] = len + 1] /\ D.head = C.head
       /\ D.tail = IF len = 0 THEN C.tail ELSE [C.tail EXCEPT ![s] = len]
       /\ \A r \in Slots : r # s => D.mapping[r] = G.mapping[r]
       /\ \A j \in Indices : /\ D.mapping[s][j].next = IF j = t /\ len # 0 THEN len ELSE G.mapping[s][j].next
                             /\ D.mapping[s][j].last = G.mapping[s][j].last
                             /\ SameContent(G, D, s, j)
  <2>1. CASE len = 0
    BY <1>15, <1>17, <2>1 DEF Types, SameContent
  <2>2. CASE len # 0
    <3>1. PICK u : u = [f.mapping[s][t] EXCEPT !.next = len]
      OBVIOUS
    <3>2. f.mapping[s][t] \in Entries
      BY <1>15
    <3>3. u \in Entries /\ u.next = len /\ u.last = f.mapping[s][t].last /\ u.key = f.mapping[s][t].key
          /\ u.granularity = f.mapping[s][t].granularity /\ u.resident = f.mapping[s][t].resident
      BY <1>3, <3>1, <3>2 DEF Entries
    <3>4. PICK P : P = Put(f, s, t, u)
      OBVIOUS
    <3>5. /\ Types(P) /\ P.slot_len = f.slot_len /\ P.head = f.head /\ P.tail = f.tail
          /\ \A r \in Slots : r # s => P.mapping[r] = f.mapping[r]
          /\ \A j \in Indices : P.mapping[s][j] = IF j = t THEN u ELSE f.mapping[s][j]
      <4>1. Types(f)
        BY <1>15 DEF Types
      <4> QED
        BY <3>3, <3>4, <4>1, PutFacts
    <3>6. D = [P EXCEPT !.tail = [C.tail EXCEPT ![s] = len]]
      <4>1. D = [f EXCEPT !.mapping[s][t].next = len, !.tail[s] = len]
        BY <1>17, <2>2
      <4> QED
        BY <1>15, <3>1, <3>4, <4>1 DEF Put
    <3>7. P \in [mapping  : [Slots -> [Indices -> Entries]], slot_len : [Slots -> 0 .. SlotSize],
                 head     : [Slots -> Indices], tail : [Slots -> Indices]]
      BY <3>5 DEF Types
    <3>8. [C.tail EXCEPT ![s] = len] \in [Slots -> Indices]
      BY <1>1, <1>3
    <3>9. /\ D \in [mapping  : [Slots -> [Indices -> Entries]], slot_len : [Slots -> 0 .. SlotSize],
                    head     : [Slots -> Indices], tail : [Slots -> Indices]]
          /\ D.mapping = P.mapping /\ D.slot_len = P.slot_len /\ D.head = P.head
          /\ D.tail = [C.tail EXCEPT ![s] = len]
      BY <3>6, <3>7, <3>8
    <3>10. \A j \in Indices : /\ D.mapping[s][j].next = IF j = t /\ len # 0 THEN len ELSE G.mapping[s][j].next
                              /\ D.mapping[s][j].last = G.mapping[s][j].last
                              /\ SameContent(G, D, s, j)
      BY <1>15, <2>2, <3>3, <3>5, <3>9 DEF SameContent
    <3> QED
      BY <1>15, <2>2, <3>5, <3>9, <3>10 DEF Types
  <2> QED
    BY <2>1, <2>2
<1>19. OneMore(C, D, s, key, gran)
  <2>1. \A r \in Slots : r # s => D.mapping[r] = C.mapping[r] /\ D.head[r] = C.head[r] /\ D.tail[r] = C.tail[r]
    BY <1>1, <1>5, <1>10, <1>18 DEF Filled
  <2>2. ASSUME NEW j \in Indices, j # len
        PROVE  SameContent(C, D, s, j)
    <3>1. SameContent(C, F, s, j)
      BY <1>5, <2>2 DEF Filled
    <3>2. G.mapping[s][j] = F.mapping[s][j]
      BY <1>10, <2>2
    <3>3. SameContent(G, D, s, j)
      BY <1>18
    <3> QED
      BY <3>1, <3>2, <3>3 DEF SameContent
  <2>3. /\ D.mapping[s][len].key = key /\ D.mapping[s][len].granularity = gran
        /\ D.mapping[s][len].resident = check_resident(gran)
    <3>1. G.mapping[s][len].key = key /\ G.mapping[s][len].granularity = gran
      BY <1>3, <1>5, <1>8, <1>10 DEF Filled
    <3>2. G.mapping[s][len].resident = check_resident(gran)
      BY <1>3, <1>5, <1>8, <1>10 DEF Filled
    <3> QED
      BY <1>3, <1>18, <3>1, <3>2 DEF SameContent
  <2> QED
    BY <1>2, <1>18, <2>1, <2>2, <2>3 DEF OneMore
\* The chain.
<1>20. PICK m : m = C.mapping[s]
  OBVIOUS
<1>21. Chain(m, len, h, t, c)
  BY <1>2, <1>20 DEF SlotChain
<1>22. /\ Lists(c, len)
       /\ IF len = 0 THEN h = 0 /\ t = 0 ELSE h = c[1] /\ t = c[len]
       /\ \A n \in 1 .. len : m[c[n]].next = IF n = len THEN NIL ELSE c[n + 1]
       /\ \A n \in 2 .. len : m[c[n]].last = c[n - 1]
  BY <1>21, Zenon DEF Chain
<1>23. /\ c \in [1 .. len -> 0 .. len - 1]
       /\ \A i \in 0 .. len - 1 : \E n \in 1 .. len : c[n] = i
       /\ \A n, o \in 1 .. len : c[n] = c[o] => n = o
  BY <1>22 DEF Lists
<1>24. PICK d : d = Longer(c, len)
  OBVIOUS
<1>25. /\ d \in [1 .. len + 1 -> 0 .. len] /\ d[len + 1] = len
       /\ \A n \in 1 .. len : d[n] = c[n] /\ d[n] # len /\ d[n] \in Indices
  <2>1. d = [n \in 1 .. len + 1 |-> IF n = len + 1 THEN len ELSE c[n]]
    BY <1>24 DEF Longer
  <2>2. ASSUME NEW n \in 1 .. len PROVE d[n] = c[n] /\ d[n] # len /\ d[n] \in Indices /\ d[n] \in 0 .. len
    <3>1. n \in 1 .. len + 1 /\ n # len + 1 /\ c[n] \in 0 .. len - 1
      BY <1>3, <1>23
    <3>2. d[n] = c[n]
      BY <2>1, <3>1
    <3> QED
      BY <1>1, <1>3, <3>1, <3>2 DEF Indices
  <2>3. len + 1 \in 1 .. len + 1 /\ len \in 0 .. len
    BY <1>3
  <2>4. d[len + 1] = len
    BY <2>1, <2>3
  <2>5. ASSUME NEW n \in 1 .. len + 1 PROVE d[n] \in 0 .. len
    <3>1. n = len + 1 \/ n \in 1 .. len
      BY <1>3
    <3> QED
      BY <2>2, <2>3, <2>4, <3>1
  <2>6. d \in [1 .. len + 1 -> 0 .. len]
    BY <2>1, <2>5
  <2> QED
    BY <2>2, <2>4, <2>6
<1>26. Lists(d, len + 1)
  <2>1. ASSUME NEW i \in 0 .. (len + 1) - 1 PROVE \E n \in 1 .. len + 1 : d[n] = i
    <3>1. CASE i = len
      BY <1>3, <1>25, <3>1
    <3>2. CASE i # len
      <4>1. i \in 0 .. len - 1
        BY <1>3, <3>2
      <4>2. PICK n \in 1 .. len : c[n] = i
        BY <1>23, <4>1
      <4>3. n \in 1 .. len + 1
        BY <1>3
      <4> QED
        BY <1>25, <4>2, <4>3
    <3> QED
      BY <3>1, <3>2
  <2>2. ASSUME NEW n \in 1 .. len + 1, NEW o \in 1 .. len + 1, d[n] = d[o] PROVE n = o
    <3>1. (n = len + 1 \/ n \in 1 .. len) /\ (o = len + 1 \/ o \in 1 .. len)
      BY <1>3
    <3> QED
      BY <1>23, <1>25, <2>2, <3>1
  <2>3. (len + 1) - 1 = len
    BY <1>3
  <2> QED
    BY <1>25, <2>1, <2>2, <2>3 DEF Lists
<1>27. /\ \A j \in Indices : j # len => G.mapping[s][j].next = m[j].next /\ G.mapping[s][j].last = m[j].last
       /\ G.mapping[s][len].next = NIL /\ G.mapping[s][len].last = IF len = 0 THEN NIL ELSE t
  BY <1>3, <1>5, <1>8, <1>10, <1>20 DEF Filled
<1>28. /\ \A j \in Indices : j # len => D.mapping[s][j].next = (IF j = t /\ len # 0 THEN len ELSE m[j].next)
                                        /\ D.mapping[s][j].last = m[j].last
       /\ len # 0 => t # len /\ t = c[len] /\ len \in 1 .. len
       /\ D.mapping[s][len].next = NIL /\ D.mapping[s][len].last = IF len = 0 THEN NIL ELSE t
  <2>1. len # 0 => t = c[len] /\ len \in 1 .. len
    BY <1>3, <1>22
  <2>2. len # 0 => t # len
    BY <1>25, <2>1
  <2> QED
    BY <1>3, <1>18, <1>27, <2>1, <2>2
<1>29. ASSUME NEW n \in 1 .. len + 1
       PROVE  D.mapping[s][d[n]].next = IF n = len + 1 THEN NIL ELSE d[n + 1]
  <2>1. CASE n = len + 1
    BY <1>25, <1>28, <2>1
  <2>2. CASE n = len
    <3>1. len # 0 /\ n \in 1 .. len /\ n # len + 1
      BY <1>3, <2>2
    <3>2. d[n] = t /\ d[n] # len /\ d[n] \in Indices /\ d[n + 1] = len
      BY <1>25, <1>28, <2>2, <3>1
    <3> QED
      BY <1>28, <3>1, <3>2
  <2>3. CASE n < len
    <3>1. n \in 1 .. len /\ n + 1 \in 1 .. len /\ n # len /\ n # len + 1 /\ len \in 1 .. len
      BY <1>3, <2>3
    <3>2. d[n] = c[n] /\ d[n + 1] = c[n + 1] /\ d[n] # len /\ d[n] \in Indices
      BY <1>25, <3>1
    <3>3. c[n] # t
      BY <1>23, <1>28, <3>1
    <3>4. D.mapping[s][d[n]].next = m[c[n]].next
      BY <1>28, <3>2, <3>3
    <3> QED
      BY <1>22, <3>1, <3>2, <3>4
  <2>4. n = len + 1 \/ n = len \/ n < len
    BY <1>3
  <2> QED
    BY <2>1, <2>2, <2>3, <2>4, Zenon
<1>30. ASSUME NEW n \in 2 .. len + 1 PROVE D.mapping[s][d[n]].last = d[n - 1]
  <2>1. CASE n = len + 1
    <3>1. len # 0 /\ len \in 1 .. len /\ n - 1 = len
      BY <1>3, <2>1
    <3> QED
      BY <1>25, <1>28, <2>1, <3>1
  <2>2. CASE n # len + 1
    <3>1. n \in 2 .. len /\ n \in 1 .. len /\ n - 1 \in 1 .. len
      BY <1>3, <2>2
    <3>2. d[n] = c[n] /\ d[n - 1] = c[n - 1] /\ d[n] # len /\ d[n] \in Indices
      BY <1>25, <3>1
    <3> QED
      BY <1>22, <1>28, <3>1, <3>2
  <2> QED
    BY <2>1, <2>2
<1>31. D.head[s] = d[1] /\ D.tail[s] = d[len + 1] /\ D.slot_len[s] = len + 1
  <2>1. D.slot_len[s] = len + 1 /\ D.head[s] = h /\ D.tail[s] = IF len = 0 THEN t ELSE len
    BY <1>1, <1>2, <1>18
  <2>2. CASE len = 0
    BY <1>22, <1>25, <2>1, <2>2
  <2>3. CASE len # 0
    <3>1. 1 \in 1 .. len
      BY <1>3, <2>3
    <3> QED
      BY <1>22, <1>25, <2>1, <2>3, <3>1
  <2> QED
    BY <2>2, <2>3
<1>32. Chain(D.mapping[s], len + 1, d[1], d[len + 1], d)
  <2>1. len + 1 # 0
    BY <1>3
  <2> QED
    BY <1>3, <1>26, <1>29, <1>30, <2>1 DEF Chain
<1> QED
  BY <1>2, <1>16, <1>18, <1>19, <1>24, <1>31, <1>32 DEF SlotChain

-----------------------------------------------------------------------------
(* What the walks along the chain find.                                    *)

\* Evictee with the slot's entries m, head h and tail t.
Walks(f, m, t) == f = [i \in Indices |-> IF i # t /\ m[i].resident THEN f[m[i].next] ELSE i]

Walk(m, t) == CHOOSE f : Walks(f, m, t)

\* The n-th entry is where the walk ends, that begins at the n-th or before.
Ends(m, len, c, n) == n = len \/ ~m[c[n]].resident
EndsAt(m, len, c, n, p) ==
  p \in n .. len /\ Ends(m, len, c, p) /\ \A q \in n .. p - 1 : ~Ends(m, len, c, q)

\* There is an entry at or behind the n-th where the walk ends.
LEMMA WalkEnds ==
  ASSUME NEW m, NEW len \in Nat, NEW c, NEW n \in 1 .. len
  PROVE  \E p \in 1 .. len : EndsAt(m, len, c, n, p)
<1> DEFINE S == {p \in n .. len : Ends(m, len, c, p)}
<1>1. S \in SUBSET Nat /\ len \in S
  <2>1. len \in n .. len /\ Ends(m, len, c, len)
    BY DEF Ends
  <2>2. \A p \in n .. len : p \in Nat
    OBVIOUS
  <2> QED
    BY <2>1, <2>2
<1>2. PICK p \in S : \A q \in S : p <= q
  <2> HIDE DEF S
  <2> QED
    BY <1>1, LeastNumber
<1>3. p \in n .. len /\ Ends(m, len, c, p) /\ p \in 1 .. len
  BY <1>2
<1>4. ASSUME NEW q \in n .. p - 1 PROVE ~Ends(m, len, c, q)
  <2>1. q \in n .. len /\ q < p
    BY <1>3
  <2> QED
    BY <1>2, <2>1
<1> QED
  BY <1>3, <1>4 DEF EndsAt

\* The entry the walk from the head ends at, if the slot is full.
LEMMA WalkIs ==
  ASSUME NEW m, NEW len \in Nat \ {0}, len = SlotSize, NEW h, NEW t, NEW c, Chain(m, len, h, t, c)
  PROVE  \E p \in 1 .. len : EndsAt(m, len, c, 1, p) /\ Walk(m, t)[h] = c[p]
<1>0. PICK f : f = Walk(m, t)
  OBVIOUS
<1>1. /\ Lists(c, len)
      /\ h = c[1] /\ t = c[len]
      /\ \A n \in 1 .. len : m[c[n]].next = IF n = len THEN NIL ELSE c[n + 1]
  BY DEF Chain
<1>2. /\ c \in [1 .. len -> 0 .. len - 1]
      /\ \A i \in 0 .. len - 1 : \E n \in 1 .. len : c[n] = i
      /\ \A n, o \in 1 .. len : c[n] = c[o] => n = o
  BY <1>1 DEF Lists
<1>3. Indices = 0 .. len - 1 /\ len \in 1 .. len /\ 1 \in 1 .. len
  BY DEF Indices
<1>4. \A n \in 1 .. len : (c[n] # t /\ m[c[n]].resident) <=> ~Ends(m, len, c, n)
  BY <1>1, <1>2, <1>3 DEF Ends
<1>5. ASSUME NEW n \in 1 .. len, ~Ends(m, len, c, n)
      PROVE  /\ n + 1 \in 1 .. len /\ m[c[n]].next = c[n + 1]
             /\ \A p : EndsAt(m, len, c, n + 1, p) <=> EndsAt(m, len, c, n, p)
  <2>1. n # len /\ n + 1 \in 1 .. len
    BY <1>5 DEF Ends
  <2>2. m[c[n]].next = c[n + 1]
    BY <1>1, <2>1
  <2>3. ASSUME NEW p, EndsAt(m, len, c, n + 1, p) PROVE EndsAt(m, len, c, n, p)
    <3>1. p \in n + 1 .. len /\ p \in n .. len /\ Ends(m, len, c, p)
      BY <2>3 DEF EndsAt
    <3>2. ASSUME NEW q \in n .. p - 1 PROVE ~Ends(m, len, c, q)
      <4>1. q = n \/ q \in n + 1 .. p - 1
        BY <3>1
      <4> QED
        BY <1>5, <2>3, <4>1 DEF EndsAt
    <3> QED
      BY <3>1, <3>2 DEF EndsAt
  <2>4. ASSUME NEW p, EndsAt(m, len, c, n, p) PROVE EndsAt(m, len, c, n + 1, p)
    <3>1. p \in n .. len /\ p # n /\ Ends(m, len, c, p)
      BY <1>5, <2>4 DEF EndsAt
    <3>2. p \in n + 1 .. len
      BY <3>1
    <3>3. ASSUME NEW q \in n + 1 .. p - 1 PROVE ~Ends(m, len, c, q)
      <4>1. q \in n .. p - 1
        BY <3>1
      <4> QED
        BY <2>4, <4>1 DEF EndsAt
    <3> QED
      BY <3>1, <3>2, <3>3 DEF EndsAt
  <2> QED
    BY <2>1, <2>2, <2>3, <2>4
<1>6. ASSUME NEW n \in 1 .. len, NEW p, NEW q, EndsAt(m, len, c, n, p), EndsAt(m, len, c, n, q) PROVE p = q
  <2>1. p \in n .. len /\ q \in n .. len
    BY <1>6 DEF EndsAt
  <2>2. ~(p < q)
    <3> SUFFICES ASSUME p < q PROVE FALSE
      OBVIOUS
    <3>1. p \in n .. q - 1
      BY <2>1
    <3> QED
      BY <1>6, <3>1 DEF EndsAt
  <2>3. ~(q < p)
    <3> SUFFICES ASSUME q < p PROVE FALSE
      OBVIOUS
    <3>1. q \in n .. p - 1
      BY <2>1
    <3> QED
      BY <1>6, <3>1 DEF EndsAt
  <2> QED
    BY <2>1, <2>2, <2>3
\* There is such a walk.
<1> DEFINE G(i) == CHOOSE e : \E n, p \in 1 .. len : c[n] = i /\ EndsAt(m, len, c, n, p) /\ e = c[p]
<1>7. ASSUME NEW n \in 1 .. len, NEW p \in 1 .. len, EndsAt(m, len, c, n, p) PROVE G(c[n]) = c[p]
  <2>1. \E e : \E o, q \in 1 .. len : c[o] = c[n] /\ EndsAt(m, len, c, o, q) /\ e = c[q]
    BY <1>7
  <2>2. \E o, q \in 1 .. len : c[o] = c[n] /\ EndsAt(m, len, c, o, q) /\ G(c[n]) = c[q]
    BY <2>1
  <2> HIDE DEF G
  <2>3. PICK o \in 1 .. len, q \in 1 .. len : c[o] = c[n] /\ EndsAt(m, len, c, o, q) /\ G(c[n]) = c[q]
    BY <2>2
  <2>4. o = n
    BY <1>2, <2>3
  <2>5. q = p
    BY <1>6, <1>7, <2>3, <2>4
  <2> QED
    BY <2>3, <2>5
<1> HIDE DEF G
<1>8. \E g : Walks(g, m, t)
  <2>1. PICK g : g = [i \in Indices |-> G(i)]
    OBVIOUS
  <2>2. ASSUME NEW i \in Indices PROVE g[i] = IF i # t /\ m[i].resident THEN g[m[i].next] ELSE i
    <3>1. PICK n \in 1 .. len : c[n] = i
      BY <1>2, <1>3
    <3>2. PICK p \in 1 .. len : EndsAt(m, len, c, n, p)
      BY WalkEnds
    <3>3. g[i] = c[p]
      BY <1>7, <2>1, <3>1, <3>2
    <3>4. CASE Ends(m, len, c, n)
      <4>1. EndsAt(m, len, c, n, n)
        <5>1. n \in n .. len /\ \A q \in n .. n - 1 : FALSE
          OBVIOUS
        <5> QED
          BY <3>4, <5>1 DEF EndsAt
      <4>2. p = n
        BY <1>6, <3>2, <4>1
      <4> QED
        BY <1>4, <3>1, <3>3, <3>4, <4>2
    <3>5. CASE ~Ends(m, len, c, n)
      <4>1. PICK o \in 1 .. len : o = n + 1 /\ m[c[n]].next = c[o] /\ EndsAt(m, len, c, o, p)
        BY <1>5, <3>2, <3>5
      <4>2. c[o] \in Indices
        BY <1>2, <1>3
      <4>3. g[c[o]] = c[p]
        BY <1>7, <2>1, <4>1, <4>2
      <4> QED
        BY <1>4, <3>1, <3>3, <3>5, <4>1, <4>3
    <3> QED
      BY <3>4, <3>5
  <2>3. g = [i \in Indices |-> g[i]]
    BY <2>1
  <2>4. [i \in Indices |-> g[i]] = [i \in Indices |-> IF i # t /\ m[i].resident THEN g[m[i].next] ELSE i]
    BY <2>2
  <2> QED
    BY <2>3, <2>4 DEF Walks
<1>9. Walks(f, m, t)
  BY <1>0, <1>8 DEF Walk
<1>10. \A n \in 1 .. len : f[c[n]] = IF Ends(m, len, c, n) THEN c[n] ELSE f[m[c[n]].next]
  <2> SUFFICES ASSUME NEW n \in 1 .. len PROVE f[c[n]] = IF Ends(m, len, c, n) THEN c[n] ELSE f[m[c[n]].next]
    OBVIOUS
  <2>1. c[n] \in Indices
    BY <1>2, <1>3
  <2>2. f[c[n]] = IF c[n] # t /\ m[c[n]].resident THEN f[m[c[n]].next] ELSE c[n]
    BY <1>9, <2>1 DEF Walks
  <2> QED
    BY <1>4, <2>2
\* It ends where it should, however long it is.
<1> DEFINE Wrong == {d \in Nat : \E n, p \in 1 .. len : EndsAt(m, len, c, n, p) /\ p - n = d /\ f[c[n]] # c[p]}
<1>11. Wrong = {}
  <2> SUFFICES ASSUME Wrong # {} PROVE FALSE
    OBVIOUS
  <2>1. PICK d \in Wrong : \A e \in Wrong : d <= e
    <3>1. Wrong \in SUBSET Nat
      OBVIOUS
    <3> HIDE DEF Wrong
    <3> QED
      BY <3>1, LeastNumber
  <2>2. PICK n \in 1 .. len, p \in 1 .. len : EndsAt(m, len, c, n, p) /\ p - n = d /\ f[c[n]] # c[p]
    BY <2>1
  <2>3. ~Ends(m, len, c, n)
    <3> SUFFICES ASSUME Ends(m, len, c, n) PROVE FALSE
      OBVIOUS
    <3>1. EndsAt(m, len, c, n, n)
      <4>1. n \in n .. len /\ \A q \in n .. n - 1 : FALSE
        OBVIOUS
      <4> QED
        BY <4>1 DEF EndsAt
    <3>2. p = n
      BY <1>6, <2>2, <3>1
    <3> QED
      BY <1>10, <2>2, <3>2
  <2>4. PICK o \in 1 .. len : o = n + 1 /\ m[c[n]].next = c[o] /\ EndsAt(m, len, c, o, p)
    BY <1>5, <2>2, <2>3
  <2>5. f[c[o]] # c[p]
    BY <1>10, <2>2, <2>3, <2>4
  <2>6. p - o \in Nat /\ p - o < d
    <3>1. p \in o .. len
      BY <2>4 DEF EndsAt
    <3> QED
      BY <2>2, <2>4, <3>1
  <2>7. p - o \in Wrong
    <3>1. \E x, y \in 1 .. len : EndsAt(m, len, c, x, y) /\ y - x = p - o /\ f[c[x]] # c[y]
      BY <2>4, <2>5
    <3> QED
      BY <2>6, <3>1
  <2>8. d \in Nat
    BY <2>1
  <2> HIDE DEF Wrong
  <2>9. d <= p - o
    BY <2>1, <2>7
  <2> QED
    BY <2>6, <2>8, <2>9
<1>12. PICK p \in 1 .. len : EndsAt(m, len, c, 1, p)
  BY <1>3, WalkEnds
<1>13. f[c[1]] = c[p]
  <2> SUFFICES ASSUME f[c[1]] # c[p] PROVE FALSE
    OBVIOUS
  <2>1. p - 1 \in Nat
    OBVIOUS
  <2>2. \E x, y \in 1 .. len : EndsAt(m, len, c, x, y) /\ y - x = p - 1 /\ f[c[x]] # c[y]
    BY <1>3, <1>12
  <2>3. p - 1 \in Wrong
    BY <2>1, <2>2
  <2> HIDE DEF Wrong
  <2> QED
    BY <1>11, <2>3
<1> QED
  BY <1>0, <1>1, <1>12, <1>13

\* The entry that is replaced is the first that is not resident, or the last.
LEMMA EvicteeIs ==
  ASSUME NEW C, Types(C), NEW s \in Slots, NEW c, SlotChain(C, s, c), C.slot_len[s] = SlotSize
  PROVE  \E p \in 1 .. SlotSize :
            /\ Evictee(C, s) = c[p]
            /\ p = SlotSize \/ ~C.mapping[s][c[p]].resident
            /\ \A q \in 1 .. p - 1 : C.mapping[s][c[q]].resident
<1>1. Chain(C.mapping[s], SlotSize, C.head[s], C.tail[s], c) /\ SlotSize \in Nat \ {0}
  BY CacheAssumption DEF SlotChain
<1>2. PICK m, len, h, t : m = C.mapping[s] /\ len = SlotSize /\ h = C.head[s] /\ t = C.tail[s]
  OBVIOUS
<1>3. Evictee(C, s) = Walk(C.mapping[s], C.tail[s])[C.head[s]]
  BY DEF Evictee, Walk, Walks
<1>4. PICK p \in 1 .. SlotSize : EndsAt(C.mapping[s], SlotSize, c, 1, p) /\ Evictee(C, s) = c[p]
  <2>1. Chain(m, len, h, t, c) /\ len \in Nat \ {0} /\ len = SlotSize /\ Evictee(C, s) = Walk(m, t)[h]
    BY <1>1, <1>2, <1>3
  <2>2. \E p \in 1 .. len : EndsAt(m, len, c, 1, p) /\ Walk(m, t)[h] = c[p]
    BY ONLY <2>1, WalkIs
  <2> QED
    BY <1>2, <2>1, <2>2
<1>5. Ends(C.mapping[s], SlotSize, c, p) /\ \A q \in 1 .. p - 1 : ~Ends(C.mapping[s], SlotSize, c, q)
  BY <1>4 DEF EndsAt
<1> QED
  BY <1>4, <1>5 DEF Ends

\* The walk of the property ChainIsWhole finds the chain.
LEMMA ChainedIs ==
  ASSUME NEW s \in Slots, NEW c, SlotChain(cache, s, c)
  PROVE  Chained(s) = c
<1>1. PICK m, len, h, t : m = cache.mapping[s] /\ len = cache.slot_len[s] /\ h = cache.head[s] /\ t = cache.tail[s]
  OBVIOUS
<1>2. Chain(m, len, h, t, c)
  BY <1>1 DEF SlotChain
<1>3. /\ SlotSize \in Nat /\ len \in 0 .. SlotSize /\ Lists(c, len)
      /\ len # 0 => h = c[1]
      /\ \A n \in 1 .. len : m[c[n]].next = IF n = len THEN NIL ELSE c[n + 1]
  BY <1>2, CacheAssumption DEF Chain
<1>4. len \in Nat /\ c \in [1 .. len -> 0 .. len - 1]
  BY <1>3 DEF Lists
<1> DEFINE Is(g) == g = [n \in 1 .. len |-> IF n = 1 THEN h ELSE IF g[n - 1] = NIL THEN NIL ELSE m[g[n - 1]].next]
<1>5. ASSUME NEW n \in 1 .. len
      PROVE  c[n] = IF n = 1 THEN h ELSE IF c[n - 1] = NIL THEN NIL ELSE m[c[n - 1]].next
  <2>1. CASE n = 1
    BY <1>3, <1>4, <2>1
  <2>2. CASE n # 1
    <3>1. PICK o \in 1 .. len : o = n - 1 /\ o # len /\ o + 1 = n
      BY <1>4, <2>2
    <3>2. c[o] \in 0 .. len - 1 /\ m[c[o]].next = c[n]
      BY <1>3, <1>4, <3>1
    <3>3. c[o] # NIL
      BY <1>4, <3>2 DEF NIL
    <3> QED
      BY <2>2, <3>1, <3>2, <3>3
  <2> QED
    BY <2>1, <2>2
<1>6. Is(c)
  <2>1. c = [n \in 1 .. len |-> c[n]]
    BY <1>4
  <2>2. [n \in 1 .. len |-> c[n]]
        = [n \in 1 .. len |-> IF n = 1 THEN h ELSE IF c[n - 1] = NIL THEN NIL ELSE m[c[n - 1]].next]
    BY <1>5
  <2> QED
    BY <2>1, <2>2
<1>7. PICK g : g = CHOOSE x : Is(x)
  OBVIOUS
<1>8. Is(g)
  <2> HIDE DEF Is
  <2> QED
    BY <1>6, <1>7
<1>9. Chained(s) = g
  BY <1>1, <1>7 DEF Chained
<1>10. \A n \in 1 .. len : g[n] = IF n = 1 THEN h ELSE IF g[n - 1] = NIL THEN NIL ELSE m[g[n - 1]].next
  BY <1>8
<1>11. g = [n \in 1 .. len |-> g[n]]
  BY <1>8
<1> HIDE DEF Is
<1> DEFINE Wrong == {n \in 1 .. len : g[n] # c[n]}
<1>12. Wrong = {}
  <2> SUFFICES ASSUME Wrong # {} PROVE FALSE
    OBVIOUS
  <2>1. PICK n \in Wrong : \A o \in Wrong : n <= o
    <3>1. Wrong \in SUBSET Nat
      <4>1. \A n \in 1 .. len : n \in Nat
        BY <1>4
      <4> QED
        BY <4>1
    <3> HIDE DEF Wrong
    <3> QED
      BY <3>1, LeastNumber
  <2>2. n \in 1 .. len /\ g[n] # c[n]
    BY <2>1
  <2>3. n # 1
    BY <1>5, <1>10, <2>2
  <2>4. n - 1 \in 1 .. len /\ ~(n <= n - 1)
    BY <1>4, <2>2, <2>3
  <2>5. n - 1 \notin Wrong
    <3> HIDE DEF Wrong
    <3> QED
      BY <2>1, <2>4
  <2>6. g[n - 1] = c[n - 1]
    BY <2>4, <2>5
  <2> QED
    BY <1>5, <1>10, <2>2, <2>3, <2>6
<1>13. g = c
  <2>1. c = [n \in 1 .. len |-> c[n]]
    BY <1>4
  <2>2. [n \in 1 .. len |-> g[n]] = [n \in 1 .. len |-> c[n]]
    BY <1>12
  <2> QED
    BY <1>11, <2>1, <2>2
<1> QED
  BY <1>9, <1>13

-----------------------------------------------------------------------------
(* The invariant, said of a cache C and an index array I.                  *)

\* The index array I and the entries of C tell the same story.
Indexed(C, I) ==
  /\ \A k \in Keys : I[k] # NIL =>
       I[k] \in 0 .. C.slot_len[SlotOf(k)] - 1 /\ C.mapping[SlotOf(k)][I[k]].key = k
  /\ \A s \in Slots : \A i \in 0 .. C.slot_len[s] - 1 :
       LET k == C.mapping[s][i].key
       IN  k \in Keys /\ SlotOf(k) = s /\ I[k] = i

Sound(C, I) ==
  /\ Types(C)
  /\ I \in [Keys -> Indices \cup {NIL}]
  /\ \A s \in Slots : \E c : SlotChain(C, s, c)
  /\ Indexed(C, I)

CacheInv == maptbl \in [Keys -> Grans \cup {UNMAPPED}] /\ Sound(cache, l2pcache_idx)

\* Where the entries do not say anything else of their keys, the index array
\* stays right.
LEMMA SameIndex ==
  ASSUME NEW C, NEW D, NEW I, Indexed(C, I), D.slot_len = C.slot_len,
         \A r \in Slots : \A j \in Indices : D.mapping[r][j].key = C.mapping[r][j].key,
         Types(C)
  PROVE  Indexed(D, I)
<1>1. \A r \in Slots : \A j \in 0 .. C.slot_len[r] - 1 : j \in Indices
  BY CacheAssumption DEF Types, Indices
<1> QED
  BY <1>1, SlotOfKey DEF Indexed

\* Entry i of slot s was taken for key; gone is the key it had, if it was in use.
Taken(C, D, s, i, key, gone) ==
  /\ D.slot_len[s] >= C.slot_len[s] /\ i \in 0 .. D.slot_len[s] - 1
  /\ \A r \in Slots : r # s => D.slot_len[r] = C.slot_len[r] /\ D.mapping[r] = C.mapping[r]
  /\ \A j \in 0 .. D.slot_len[s] - 1 :
       j # i => j \in 0 .. C.slot_len[s] - 1 /\ D.mapping[s][j].key = C.mapping[s][j].key
  /\ D.mapping[s][i].key = key
  /\ gone = IF i \in 0 .. C.slot_len[s] - 1 THEN C.mapping[s][i].key ELSE NoKey

Reindex(I, i, key, gone) == [k \in Keys |-> IF k = key THEN i ELSE IF k = gone THEN NIL ELSE I[k]]

\* Pointing key at the entry it took, and nothing at the key it had, keeps the
\* index array right.
LEMMA IndexTaken ==
  ASSUME NEW C, NEW D, Types(C), Types(D), NEW I \in [Keys -> Indices \cup {NIL}], Indexed(C, I),
         NEW key \in Keys, I[key] = NIL, NEW i, NEW gone, Taken(C, D, SlotOf(key), i, key, gone)
  PROVE  /\ Indexed(D, Reindex(I, i, key, gone))
         /\ Reindex(I, i, key, gone) \in [Keys -> Indices \cup {NIL}]
<1>1. PICK s : s = SlotOf(key)
  OBVIOUS
<1>2. PICK J : J = Reindex(I, i, key, gone)
  OBVIOUS
<1>3. \A k \in Keys : J[k] = IF k = key THEN i ELSE IF k = gone THEN NIL ELSE I[k]
  BY <1>2 DEF Reindex
<1>4. s \in Slots /\ \A k \in Keys : SlotOf(k) \in Slots
  BY <1>1, SlotOfKey
<1>5. /\ \A r \in Slots : C.slot_len[r] \in 0 .. SlotSize /\ D.slot_len[r] \in 0 .. SlotSize
      /\ SlotSize \in Nat
  BY CacheAssumption DEF Types
<1>6. i \in Indices
  BY <1>1, <1>4, <1>5 DEF Taken, Indices
<1>7. \A j \in Indices : j # NIL
  BY DEF Indices, NIL
<1>8. J \in [Keys -> Indices \cup {NIL}]
  BY <1>2, <1>6 DEF Reindex
<1>9. /\ D.slot_len[s] >= C.slot_len[s] /\ i \in 0 .. D.slot_len[s] - 1
      /\ \A r \in Slots : r # s => D.slot_len[r] = C.slot_len[r] /\ D.mapping[r] = C.mapping[r]
      /\ \A j \in 0 .. D.slot_len[s] - 1 :
           j # i => j \in 0 .. C.slot_len[s] - 1 /\ D.mapping[s][j].key = C.mapping[s][j].key
      /\ D.mapping[s][i].key = key
      /\ gone = IF i \in 0 .. C.slot_len[s] - 1 THEN C.mapping[s][i].key ELSE NoKey
  BY <1>1 DEF Taken
<1>10. /\ \A k \in Keys : I[k] # NIL =>
            I[k] \in 0 .. C.slot_len[SlotOf(k)] - 1 /\ C.mapping[SlotOf(k)][I[k]].key = k
       /\ \A r \in Slots : \A j \in 0 .. C.slot_len[r] - 1 :
            /\ C.mapping[r][j].key \in Keys /\ SlotOf(C.mapping[r][j].key) = r
            /\ I[C.mapping[r][j].key] = j
  BY DEF Indexed
<1>11. gone \in Keys => SlotOf(gone) = s /\ I[gone] = i /\ gone # key
  <2>1. SUFFICES ASSUME gone \in Keys
                 PROVE  SlotOf(gone) = s /\ I[gone] = i /\ gone # key
    OBVIOUS
  <2>2. i \in 0 .. C.slot_len[s] - 1 /\ gone = C.mapping[s][i].key
    BY <1>9, <2>1, KeyFacts
  <2>3. SlotOf(gone) = s /\ I[gone] = i
    BY <1>4, <1>10, <2>2
  <2> QED
    BY <1>6, <1>7, <2>3
<1>12. ASSUME NEW k \in Keys, J[k] # NIL
       PROVE  J[k] \in 0 .. D.slot_len[SlotOf(k)] - 1 /\ D.mapping[SlotOf(k)][J[k]].key = k
  <2>1. CASE k = key
    BY <1>1, <1>3, <1>9, <2>1
  <2>2. CASE k # key
    <3>1. k # gone /\ J[k] = I[k]
      BY <1>3, <1>12, <2>2
    <3>2. I[k] \in 0 .. C.slot_len[SlotOf(k)] - 1 /\ C.mapping[SlotOf(k)][I[k]].key = k
      BY <1>10, <1>12, <3>1
    <3>3. CASE SlotOf(k) # s
      BY <1>4, <1>9, <3>1, <3>2, <3>3
    <3>4. CASE SlotOf(k) = s
      <4>1. I[k] # i
        BY <1>9, <3>1, <3>2, <3>4
      <4>2. I[k] \in 0 .. D.slot_len[s] - 1
        BY <1>4, <1>5, <1>9, <3>2, <3>4
      <4> QED
        BY <1>9, <3>1, <3>2, <3>4, <4>1, <4>2
    <3> QED
      BY <3>3, <3>4
  <2> QED
    BY <2>1, <2>2
<1>13. ASSUME NEW r \in Slots, NEW j \in 0 .. D.slot_len[r] - 1
       PROVE  /\ D.mapping[r][j].key \in Keys /\ SlotOf(D.mapping[r][j].key) = r
              /\ J[D.mapping[r][j].key] = j
  <2>1. CASE r = s /\ j = i
    BY <1>1, <1>3, <1>9, <2>1
  <2>2. CASE ~(r = s /\ j = i)
    <3>1. j \in 0 .. C.slot_len[r] - 1 /\ D.mapping[r][j].key = C.mapping[r][j].key
      BY <1>9, <2>2
    <3>2. PICK k : k = C.mapping[r][j].key
      OBVIOUS
    <3>3. k \in Keys /\ SlotOf(k) = r /\ I[k] = j
      BY <1>10, <3>1, <3>2
    <3>4. j \in Nat
      BY <3>1
    <3>5. k # key
      BY <3>3, <3>4 DEF NIL
    <3>6. k # gone
      BY <1>11, <2>2, <3>3
    <3> QED
      BY <1>3, <3>1, <3>2, <3>3, <3>5, <3>6
  <2> QED
    BY <2>1, <2>2
<1>14. Indexed(D, J)
  BY <1>12, <1>13 DEF Indexed
<1> QED
  BY <1>2, <1>8, <1>14

\* What is left in place when slot s takes the entry i for key: every other
\* entry, and what it says.
Others(C, D, s, i) ==
  /\ \A r \in Slots : r # s => /\ D.slot_len[r] = C.slot_len[r] /\ D.mapping[r] = C.mapping[r]
                               /\ D.head[r] = C.head[r] /\ D.tail[r] = C.tail[r]
  /\ \A j \in Indices : j # i => SameContent(C, D, s, j)

Says(D, s, i, key, gran) ==
  /\ D.mapping[s][i].key = key /\ D.mapping[s][i].granularity = gran
  /\ D.mapping[s][i].resident = check_resident(gran)

\* l2p_insert as three cases.  There is room ...
HasRoom(C, D, s, c, key, gran) ==
  /\ C.slot_len[s] < SlotSize
  /\ D.slot_len[s] = C.slot_len[s] + 1
  /\ SlotChain(D, s, Longer(c, C.slot_len[s]))

\* ... or the p-th entry is replaced, the first that is not resident.
Evicts(C, D, s, c, p) ==
  /\ C.slot_len[s] = SlotSize /\ D.slot_len[s] = SlotSize
  /\ p \in 1 .. SlotSize
  /\ ~C.mapping[s][c[p]].resident
  /\ \A q \in 1 .. p - 1 : C.mapping[s][c[q]].resident
  /\ SlotChain(D, s, ToEnd(c, SlotSize, p))

\* The neighbour whose index is cleared is the namespace of the evicted key.
LEMMA OwnerIs ==
  ASSUME NEW ns \in Namespaces, NEW nsid \in Namespaces
  PROVE  Owner(ns, nsid) = nsid
BY DEF Owner, Namespaces, SLC, TLC

\* An entry was taken for key: the last of the chain, which is the most recent.
Takes(C, I, D, J, s, c, i, key, gran) ==
  /\ i \in Indices /\ D.tail[s] = i
  /\ Others(C, D, s, i) /\ Says(D, s, i, key, gran)
  /\ \/ HasRoom(C, D, s, c, key, gran) /\ i = C.slot_len[s] /\ J = Reindex(I, i, key, NoKey)
     \/ \E p \in 1 .. SlotSize :
          Evicts(C, D, s, c, p) /\ i = c[p] /\ J = Reindex(I, i, key, C.mapping[s][i].key)

\* l2p_insert takes an entry for the key, or changes nothing because all the
\* entries of the slot are resident; the index array stays right.
LEMMA InsertFacts ==
  ASSUME Sound(cache, l2pcache_idx), NEW key \in Keys, NEW gran \in Grans, l2pcache_idx[key] = NIL,
         NEW s, s = SlotOf(key), NEW c, SlotChain(cache, s, c),
         NEW ins, ins = l2p_insert(key, gran)
  PROVE  /\ Sound(ins.cache, Reindexed(ins, key))
         /\ \/ ins.idx = NIL /\ ins.cache = cache /\ Reindexed(ins, key) = l2pcache_idx
            \/ Takes(cache, l2pcache_idx, ins.cache, Reindexed(ins, key), s, c, ins.idx, key, gran)
<1>1. PICK C, I : C = cache /\ I = l2pcache_idx
  OBVIOUS
<1>2. PICK len : len = C.slot_len[s]
  OBVIOUS
<1>3. PICK i : i = Evictee(C, s)
  OBVIOUS
<1>4. /\ Types(C) /\ I \in [Keys -> Indices \cup {NIL}] /\ Indexed(C, I)
      /\ \A r \in Slots : \E d : SlotChain(C, r, d)
      /\ SlotChain(C, s, c) /\ I[key] = NIL
  BY <1>1 DEF Sound
<1>5. s \in Slots
  BY SlotOfKey
<1>6. len \in 0 .. SlotSize /\ SlotSize \in Nat \ {0}
  BY <1>2, <1>4, <1>5, CacheAssumption DEF Types
<1>7. \A j \in Nat : j # NIL
  BY DEF NIL
<1>8. CASE len < SlotSize
  <2>1. PICK D : D = Appended(C, s, key, gran)
    OBVIOUS
  <2>2. ins = [cache |-> D, idx |-> len, gone |-> NoKey]
    <3>1. cache.slot_len[SlotOf(key)] < SlotSize
      BY <1>1, <1>2, <1>8
    <3>2. l2p_insert(key, gran) = [cache |-> Appended(cache, SlotOf(key), key, gran),
                                   idx |-> cache.slot_len[SlotOf(key)], gone |-> NoKey]
      BY <3>1, Zenon DEF l2p_insert, Appended, LinkedAt, LinkedBack
    <3> QED
      BY <1>1, <1>2, <2>1, <3>2, Zenon
  <2>3. ins.cache = D /\ ins.idx = len /\ ins.gone = NoKey
    BY <2>2
  <2>4. PICK J : J = Reindexed(ins, key)
    OBVIOUS
  <2>5. J = Reindex(I, len, key, NoKey)
    BY <1>1, <2>3, <2>4 DEF Reindexed, Reindex
  <2>6. Types(D) /\ OneMore(C, D, s, key, gran) /\ SlotChain(D, s, Longer(c, len))
    BY <1>2, <1>4, <1>5, <1>8, <2>1, AppendFacts
  <2>7. /\ D.slot_len = [C.slot_len EXCEPT ![s] = len + 1]
        /\ \A r \in Slots : r # s => D.mapping[r] = C.mapping[r] /\ D.head[r] = C.head[r] /\ D.tail[r] = C.tail[r]
        /\ \A j \in Indices : j # len => SameContent(C, D, s, j)
        /\ Says(D, s, len, key, gran)
    BY <1>2, <2>6 DEF OneMore, Says
  <2>8. D.slot_len[s] = len + 1 /\ \A r \in Slots : r # s => D.slot_len[r] = C.slot_len[r]
    BY <1>2, <1>4, <1>5, <2>7 DEF Types
  <2>9. len \in Indices
    BY <1>6, <1>8 DEF Indices
  <2>10. Others(C, D, s, len)
    <3>1. \A r \in Slots : \A j \in Indices : r # s => SameContent(C, D, r, j)
      BY <2>7 DEF SameContent
    <3> QED
      BY <2>7, <2>8, <3>1 DEF Others
  <2>11. Taken(C, D, s, len, key, NoKey)
    <3>1. \A j \in 0 .. D.slot_len[s] - 1 : j # len => j \in 0 .. C.slot_len[s] - 1 /\ j \in Indices
      BY <1>2, <1>6, <1>8, <2>8 DEF Indices
    <3>2. /\ D.slot_len[s] >= C.slot_len[s] /\ len \in 0 .. D.slot_len[s] - 1
          /\ len \notin 0 .. C.slot_len[s] - 1
      BY <1>2, <1>6, <2>8
    <3> QED
      BY <2>7, <2>8, <3>1, <3>2 DEF Taken, SameContent, Says
  <2>12. Indexed(D, J) /\ J \in [Keys -> Indices \cup {NIL}]
    BY <1>4, <2>5, <2>6, <2>11, IndexTaken
  <2>13. \A r \in Slots : \E d : SlotChain(D, r, d)
    <3>1. ASSUME NEW r \in Slots, r # s
          PROVE  \E d : SlotChain(D, r, d)
      BY <1>4, <2>7, <2>8, <3>1 DEF SlotChain
    <3> QED
      BY <2>6, <3>1
  <2>14. Sound(D, J)
    BY <2>6, <2>12, <2>13 DEF Sound
  <2>15. D.tail[s] = len
    <3>1. PICK d : d = Longer(c, len)
      OBVIOUS
    <3>2. Chain(D.mapping[s], D.slot_len[s], D.head[s], D.tail[s], d)
      BY <2>6, <3>1 DEF SlotChain
    <3>3. D.slot_len[s] # 0 /\ d[len + 1] = len
      BY <1>6, <2>8, <3>1 DEF Longer
    <3> QED
      BY <2>8, <3>2, <3>3 DEF Chain
  <2>16. HasRoom(C, D, s, c, key, gran)
    BY <1>2, <1>8, <2>6, <2>8 DEF HasRoom
  <2>17. Takes(C, I, D, J, s, c, len, key, gran)
    BY <1>2, <2>5, <2>7, <2>9, <2>10, <2>15, <2>16 DEF Takes
  <2> QED
    BY <1>1, <2>3, <2>4, <2>14, <2>17
<1>9. CASE ~(len < SlotSize) /\ i = C.tail[s] /\ C.mapping[s][i].resident
  <2>1. ins = [cache |-> C, idx |-> NIL, gone |-> NoKey]
    BY <1>1, <1>2, <1>3, <1>9 DEF l2p_insert
  <2>2. ins.cache = C /\ ins.idx = NIL /\ ins.gone = NoKey
    BY <2>1
  <2>3. PICK J : J = Reindexed(ins, key)
    OBVIOUS
  <2>4. J \in [Keys -> Indices \cup {NIL}] /\ \A k \in Keys : J[k] = I[k]
    <3>1. J = [k \in Keys |-> IF k = key THEN ins.idx ELSE IF k = ins.gone THEN NIL ELSE I[k]]
      BY <1>1, <2>3 DEF Reindexed
    <3>2. \A k \in Keys : (IF k = key THEN ins.idx ELSE IF k = ins.gone THEN NIL ELSE I[k]) = I[k]
      BY <1>4, <2>2, KeyFacts
    <3>3. J = [k \in Keys |-> I[k]]
      BY <3>1, <3>2
    <3> QED
      BY <1>4, <3>3
  <2>5. J = I
    BY <1>4, <2>4
  <2> QED
    BY <1>1, <2>2, <2>3, <2>5
<1>10. CASE ~(len < SlotSize) /\ ~(i = C.tail[s] /\ C.mapping[s][i].resident)
  <2>1. len = SlotSize
    BY <1>6, <1>10
  <2>2. PICK p \in 1 .. SlotSize :
            /\ i = c[p]
            /\ p = SlotSize \/ ~C.mapping[s][c[p]].resident
            /\ \A q \in 1 .. p - 1 : C.mapping[s][c[q]].resident
    <3>1. C.slot_len[s] = SlotSize
      BY <1>2, <2>1
    <3>2. Types(C) /\ SlotChain(C, s, c)
      BY <1>4
    <3> QED
      BY ONLY <1>3, <1>5, <3>1, <3>2, EvicteeIs
  <2>3. SlotSize \in 1 .. SlotSize /\ C.tail[s] = c[SlotSize] /\ i \in 0 .. len - 1 /\ i \in Indices
    <3>1. Chain(C.mapping[s], len, C.head[s], C.tail[s], c)
      BY <1>2, <1>4 DEF SlotChain
    <3> QED
      BY <1>6, <2>1, <2>2, <3>1 DEF Chain, Lists, Indices
  <2>4. ~C.mapping[s][i].resident
    BY <1>10, <2>2, <2>3
  <2>5. PICK A : A = l2p_access(C, s, i)
    OBVIOUS
  <2>6. PICK D : D = Fill(A, s, i, key, gran)
    OBVIOUS
  <2>7. PICK g : g = C.mapping[s][i].key
    OBVIOUS
  <2>8. g \in Keys /\ SlotOf(g) = s /\ I[g] = i
    BY <1>2, <1>4, <1>5, <2>3, <2>7 DEF Indexed
  <2>9. ins = [cache |-> D, idx |-> i, gone |-> <<Owner(key[1], g[1]), g[2]>>]
    BY <1>1, <1>2, <1>3, <1>10, <2>5, <2>6, <2>7 DEF l2p_insert
  <2>10. <<Owner(key[1], g[1]), g[2]>> = g
    BY <2>8, KeyFacts, OwnerIs
  <2>11. ins.cache = D /\ ins.idx = i /\ ins.gone = g
    BY <2>9, <2>10
  <2>12. PICK J : J = Reindexed(ins, key)
    OBVIOUS
  <2>13. J = Reindex(I, i, key, g)
    BY <1>1, <2>11, <2>12 DEF Reindexed, Reindex
  <2>14. Types(A) /\ Relinked(C, A, s) /\ SlotChain(A, s, ToEnd(c, SlotSize, p))
    BY <1>2, <1>4, <1>5, <2>1, <2>2, <2>5, AccessFacts
  <2>15. Types(D) /\ Filled(A, D, s, i, key, gran)
    BY <1>5, <2>3, <2>6, <2>14, FillFacts
  <2>16. SlotChain(D, s, ToEnd(c, SlotSize, p))
    BY <1>5, <2>14, <2>15, FilledChain
  <2>17. /\ D.slot_len = C.slot_len
         /\ \A r \in Slots : r # s => D.mapping[r] = C.mapping[r] /\ D.head[r] = C.head[r] /\ D.tail[r] = C.tail[r]
         /\ \A j \in Indices : j # i => SameContent(C, D, s, j)
         /\ Says(D, s, i, key, gran)
    BY <1>5, <2>14, <2>15 DEF Relinked, Filled, SameContent, Says
  <2>18. Others(C, D, s, i)
    <3>1. \A r \in Slots : \A j \in Indices : r # s => SameContent(C, D, r, j)
      BY <2>17 DEF SameContent
    <3> QED
      BY <2>17, <3>1 DEF Others
  <2>19. Taken(C, D, s, i, key, g)
    <3>1. \A j \in 0 .. D.slot_len[s] - 1 : j \in 0 .. C.slot_len[s] - 1 /\ j \in Indices
      BY <1>2, <1>6, <2>1, <2>17 DEF Indices
    <3>2. D.slot_len[s] = len /\ C.slot_len[s] = len
      BY <1>2, <2>17
    <3>3. /\ D.slot_len[s] >= C.slot_len[s] /\ i \in 0 .. D.slot_len[s] - 1 /\ i \in 0 .. C.slot_len[s] - 1
      BY <1>6, <2>3, <3>2
    <3> QED
      BY <2>7, <2>17, <3>1, <3>3 DEF Taken, SameContent, Says
  <2>20. Indexed(D, J) /\ J \in [Keys -> Indices \cup {NIL}]
    BY <1>4, <2>13, <2>15, <2>19, IndexTaken
  <2>21. \A r \in Slots : \E d : SlotChain(D, r, d)
    <3>1. ASSUME NEW r \in Slots, r # s
          PROVE  \E d : SlotChain(D, r, d)
      BY <1>4, <2>17, <3>1 DEF SlotChain
    <3> QED
      BY <2>16, <3>1
  <2>22. Sound(D, J)
    BY <2>15, <2>20, <2>21 DEF Sound
  <2>23. D.tail[s] = i
    <3>1. PICK d : d = ToEnd(c, SlotSize, p)
      OBVIOUS
    <3>2. Chain(D.mapping[s], SlotSize, D.head[s], D.tail[s], d)
      BY <1>2, <2>1, <2>16, <2>17, <3>1 DEF SlotChain
    <3>3. d[SlotSize] = c[p]
      BY <1>6, <2>2, <3>1 DEF ToEnd
    <3> QED
      BY <1>6, <2>2, <3>2, <3>3 DEF Chain
  <2>24. Evicts(C, D, s, c, p)
    BY <1>2, <2>1, <2>2, <2>4, <2>16, <2>17 DEF Evicts
  <2>25. Takes(C, I, D, J, s, c, i, key, gran)
    BY <2>2, <2>3, <2>7, <2>13, <2>17, <2>18, <2>23, <2>24 DEF Takes
  <2> QED
    BY <1>1, <2>11, <2>12, <2>22, <2>25
<1> QED
  BY <1>8, <1>9, <1>10

-----------------------------------------------------------------------------
(* The steps keep the invariant.                                           *)

\* Using an entry of the chain keeps the invariant.
LEMMA UsedIsSound ==
  ASSUME NEW C, NEW I, Sound(C, I), NEW s \in Slots, NEW c, SlotChain(C, s, c), NEW p \in 1 .. C.slot_len[s],
         NEW D, D = l2p_access(C, s, c[p])
  PROVE  Sound(D, I)
<1>1. Types(C) /\ I \in [Keys -> Indices \cup {NIL}] /\ Indexed(C, I) /\ \A r \in Slots : \E d : SlotChain(C, r, d)
  BY DEF Sound
<1>2. Types(D) /\ Relinked(C, D, s) /\ SlotChain(D, s, ToEnd(c, C.slot_len[s], p))
  BY <1>1, AccessFacts
<1>3. \A r \in Slots : \E d : SlotChain(D, r, d)
  <2>1. ASSUME NEW r \in Slots, r # s
        PROVE  \E d : SlotChain(D, r, d)
    BY <1>1, <1>2, <2>1 DEF SlotChain, Relinked
  <2> QED
    BY <1>2, <2>1
<1>4. Indexed(D, I)
  <2>1. D.slot_len = C.slot_len /\ \A r \in Slots : \A j \in Indices : D.mapping[r][j].key = C.mapping[r][j].key
    BY <1>2 DEF Relinked, SameContent
  <2> QED
    BY <1>1, <2>1, SameIndex
<1> QED
  BY <1>1, <1>2, <1>3, <1>4 DEF Sound

\* An indexed key is somewhere on the chain of its slot.
LEMMA OnChain ==
  ASSUME NEW C, NEW I, Sound(C, I), NEW key \in Keys, I[key] # NIL, NEW s, s = SlotOf(key)
  PROVE  \E c : SlotChain(C, s, c) /\ \E p \in 1 .. C.slot_len[s] : c[p] = I[key] /\ C.mapping[s][c[p]].key = key
<1>1. PICK c : SlotChain(C, s, c)
  BY SlotOfKey DEF Sound
<1>2. I[key] \in 0 .. C.slot_len[s] - 1 /\ C.mapping[s][I[key]].key = key
  BY DEF Sound, Indexed
<1>3. \A i \in 0 .. C.slot_len[s] - 1 : \E n \in 1 .. C.slot_len[s] : c[n] = i
  BY <1>1 DEF SlotChain, Chain, Lists
<1>4. PICK p \in 1 .. C.slot_len[s] : c[p] = I[key]
  BY <1>2, <1>3
<1>5. C.mapping[s][c[p]].key = key
  BY <1>2, <1>4
<1> QED
  BY <1>1, <1>4, <1>5

\* A cached key that comes to map another unit keeps its entry and its index.
LEMMA RegrainedIsSound ==
  ASSUME NEW C, NEW I, Sound(C, I), NEW key \in Keys, I[key] # NIL, NEW gran \in Grans, NEW s, s = SlotOf(key),
         NEW D, D = Regrained(C, s, I[key], gran)
  PROVE  Sound(D, I) /\ Filled(C, D, s, I[key], key, gran)
<1>1. Types(C) /\ I \in [Keys -> Indices \cup {NIL}] /\ Indexed(C, I) /\ \A r \in Slots : \E d : SlotChain(C, r, d)
  BY DEF Sound
<1>2. PICK i : i = I[key]
  OBVIOUS
<1>3. s \in Slots /\ i \in Indices /\ C.mapping[s][i].key = key
  BY <1>1, <1>2, SlotOfKey DEF Indexed
<1>4. D = Regrained(C, s, i, gran)
  BY <1>2
<1>5. Types(D) /\ Filled(C, D, s, i, key, gran)
  <2>1. Types(D) /\ Filled(C, D, s, i, C.mapping[s][i].key, gran)
    BY ONLY <1>1, <1>3, <1>4, gran \in Grans, RegrainFacts
  <2> QED
    BY <1>3, <2>1
<1>6. \A r \in Slots : \E d : SlotChain(D, r, d)
  <2>1. ASSUME NEW r \in Slots
        PROVE  \E d : SlotChain(D, r, d)
    <3>1. CASE r # s
      BY <1>1, <1>5, <3>1 DEF SlotChain, Filled
    <3>2. CASE r = s
      BY <1>1, <1>3, <1>5, <3>2, FilledChain
    <3> QED
      BY <3>1, <3>2
  <2> QED
    BY <2>1
<1>7. Indexed(D, I)
  <2>1. D.slot_len = C.slot_len
    BY <1>5 DEF Filled
  <2>2. ASSUME NEW r \in Slots, NEW j \in Indices
        PROVE  D.mapping[r][j].key = C.mapping[r][j].key
    <3>1. CASE r # s
      BY <1>5, <3>1 DEF Filled
    <3>2. CASE r = s /\ j = i
      BY <1>3, <1>5, <3>2 DEF Filled
    <3>3. CASE r = s /\ j # i
      BY <1>5, <3>3 DEF Filled, SameContent
    <3> QED
      BY <3>1, <3>2, <3>3
  <2> QED
    BY ONLY <1>1, <2>1, <2>2, SameIndex
<1> QED
  BY <1>1, <1>2, <1>5, <1>6, <1>7 DEF Sound

\* set_map_gran keeps the invariant, whether the key is cached or not.
LEMMA SetMapGran ==
  ASSUME CacheInv, NEW key \in Keys, NEW gran \in Grans, NEW tbl \in [Keys -> Grans \cup {UNMAPPED}],
         set_map_gran(gran, key, tbl)
  PROVE  CacheInv'
<1>1. maptbl' \in [Keys -> Grans \cup {UNMAPPED}]
  BY DEF set_map_gran
<1>2. CASE /\ l2pcache_idx[key] = NIL
           /\ cache' = l2p_insert(key, gran).cache
           /\ l2pcache_idx' = Reindexed(l2p_insert(key, gran), key)
  <2>1. PICK ins, s : ins = l2p_insert(key, gran) /\ s = SlotOf(key)
    OBVIOUS
  <2>2. PICK c : SlotChain(cache, s, c)
    BY <2>1, SlotOfKey DEF CacheInv, Sound
  <2>3. Sound(ins.cache, Reindexed(ins, key))
    BY <1>2, <2>1, <2>2, InsertFacts DEF CacheInv
  <2>4. Sound(cache', l2pcache_idx')
    BY <1>2, <2>1, <2>3, Zenon
  <2> QED
    BY <1>1, <2>4 DEF CacheInv
<1>3. CASE /\ l2pcache_idx[key] # NIL
           /\ cache' = Regrained(cache, SlotOf(key), l2pcache_idx[key], gran)
           /\ UNCHANGED l2pcache_idx
  <2>1. Sound(cache', l2pcache_idx)
    BY <1>3, RegrainedIsSound DEF CacheInv
  <2> QED
    BY <1>1, <1>3, <2>1 DEF CacheInv
<1> QED
  BY <1>2, <1>3 DEF set_map_gran, Regrained

\* The page before a page of a zone is a page.
LEMMA PageBefore ==
  ASSUME NEW key \in Keys, ~IsZoneStart(key)
  PROVE  <<key[1], key[2] - 1>> \in Keys
<1>1. PICK ns, lpn : ns = key[1] /\ lpn = key[2]
  OBVIOUS
<1>2. ns \in Namespaces /\ lpn \in Lpns(ns) /\ key = <<ns, lpn>> /\ lpn \in Nat
  BY <1>1, KeyFacts
<1>3. lpn # 0
  <2>1. SUFFICES ASSUME lpn = 0
                 PROVE  IsZoneStart(key)
    OBVIOUS
  <2>2. PICK z \in Nat \ {0} : z = PgsPerZone[ns]
    BY <1>2, ZoneAssumption
  <2>3. 0 % z = 0
    BY Remainder
  <2>4. Start(key, "ZONE_MAP") = <<ns, 0>>
    BY <1>1, <2>1, <2>2, <2>3 DEF Start, pages_per_granularity
  <2> QED
    BY <1>2, <2>1, <2>4 DEF IsZoneStart
<1>4. NrZones[ns] * PgsPerZone[ns] \in Nat
  BY <1>2, ZoneAssumption, \A x, y \in Nat : x * y \in Nat
<1>5. lpn - 1 \in Lpns(ns)
  BY <1>2, <1>3, <1>4 DEF Lpns
<1> QED
  BY <1>1, <1>2, <1>5, KeyFacts

\* Every page completes some unit: that of the page itself.
LEMMA CompletedIs ==
  ASSUME NEW key \in Keys
  PROVE  LET gran == MAP_GRAN[Completed(key)]
         IN  /\ gran \in Grans
             /\ ((key[2] - Start(key, gran)[2]) + 1) % pages_per_granularity(key[1], gran) = 0
<1> DEFINE done(i) == LET start == Start(key, MAP_GRAN[i])
                      IN  (key[2] - start[2] + 1) % pages_per_granularity(key[1], MAP_GRAN[i]) = 0
<1>1. DOMAIN MAP_GRAN = 1 .. 4 /\ MAP_GRAN[4] = "PAGE_MAP"
  BY DEF MAP_GRAN
<1>2. done(4)
  <2>1. PICK start : start = Start(key, "PAGE_MAP")
    OBVIOUS
  <2>2. start \in Keys
    BY <2>1, GranFacts, StartIsKey
  <2>3. start[2] \in Int /\ key[2] \in Int
    BY <2>2, KeyFacts
  <2>4. \A x \in Int : x % 1 = 0
    OBVIOUS
  <2>5. (key[2] - start[2] + 1) % 1 = 0
    BY <2>3, <2>4
  <2>6. pages_per_granularity(key[1], "PAGE_MAP") = 1
    BY DEF pages_per_granularity
  <2> QED
    BY <1>1, <2>1, <2>5, <2>6
<1>3. \E i \in DOMAIN MAP_GRAN : done(i) /\ \A j \in 1 .. i - 1 : ~done(j)
  <2> HIDE DEF done
  <2>1. PICK S : S = {i \in 1 .. 4 : done(i)}
    OBVIOUS
  <2>2. S \in SUBSET Nat /\ S # {}
    BY <1>2, <2>1
  <2>3. PICK i \in S : \A j \in S : i <= j
    BY <2>2, LeastNumber
  <2>4. i \in 1 .. 4 /\ done(i)
    BY <2>1, <2>3
  <2>5. \A j \in 1 .. i - 1 : ~done(j)
    BY <2>1, <2>3, <2>4
  <2> QED
    BY <1>1, <2>4, <2>5
<1>4. Completed(key) = CHOOSE i \in DOMAIN MAP_GRAN : done(i) /\ \A j \in 1 .. i - 1 : ~done(j)
  BY DEF Completed
<1> HIDE DEF done
<1>5. Completed(key) \in DOMAIN MAP_GRAN /\ done(Completed(key))
  BY <1>3, <1>4
<1>6. LET gran == MAP_GRAN[Completed(key)]
      IN  ((key[2] - Start(key, gran)[2]) + 1) % pages_per_granularity(key[1], gran) = 0
  BY <1>5 DEF done
<1> QED
  BY <1>1, <1>5, <1>6, GranFacts

\* The entry that a read hits is an indexed one.
LEMMA FoundIs ==
  ASSUME NEW key \in Keys, Looked(key) # {}
  PROVE  FoundAt(key) \in Keys /\ l2pcache_idx[FoundAt(key)] # NIL
<1>1. PICK L : L = Looked(key)
  OBVIOUS
<1>2. L \in SUBSET Nat /\ L # {} /\ L \subseteq DOMAIN MAP_GRAN
  BY <1>1, GranFacts DEF Looked
<1>3. \E i \in L : \A j \in L : i <= j
  BY <1>2, LeastNumber
<1>4. PICK i : i = CHOOSE n \in L : \A j \in L : n <= j
  OBVIOUS
<1>5. i \in L
  BY <1>3, <1>4
<1>6. FoundAt(key) = Start(key, MAP_GRAN[i])
  BY <1>1, <1>4 DEF FoundAt
<1>7. l2pcache_idx[Start(key, MAP_GRAN[i])] # NIL
  BY <1>1, <1>5 DEF Looked
<1>8. MAP_GRAN[i] \in Grans
  BY <1>2, <1>5, GranFacts
<1> QED
  BY <1>6, <1>7, <1>8, StartIsKey

\* Where a read that misses finds the page mapped; nothing is indexed there.
LEMMA MissIs ==
  ASSUME NEW key \in Keys, Looked(key) = {}, MappedAt(key) # {}
  PROVE  LET i == CHOOSE i \in MappedAt(key) : \A j \in MappedAt(key) : i <= j
         IN  /\ MAP_GRAN[i] \in Grans /\ Start(key, MAP_GRAN[i]) \in Keys
             /\ l2pcache_idx[Start(key, MAP_GRAN[i])] = NIL
<1>1. PICK M : M = MappedAt(key)
  OBVIOUS
<1>2. M \in SUBSET Nat /\ M # {} /\ M \subseteq DOMAIN MAP_GRAN
  BY <1>1, GranFacts DEF MappedAt
<1>3. \E i \in M : \A j \in M : i <= j
  BY <1>2, LeastNumber
<1>4. PICK i : i = CHOOSE n \in M : \A j \in M : n <= j
  OBVIOUS
<1>5. i \in DOMAIN MAP_GRAN
  BY <1>2, <1>3, <1>4
<1>6. MAP_GRAN[i] \in Grans /\ Start(key, MAP_GRAN[i]) \in Keys
  BY <1>5, GranFacts, StartIsKey
<1>7. l2pcache_idx[Start(key, MAP_GRAN[i])] = NIL
  BY <1>5 DEF Looked
<1> QED
  BY <1>1, <1>4, <1>6, <1>7

\* After an insertion the entry is the most recent one already.
LEMMA InsertedIsLast ==
  ASSUME Sound(cache, l2pcache_idx), NEW key \in Keys, NEW gran \in Grans, l2pcache_idx[key] = NIL,
         NEW ins, ins = l2p_insert(key, gran), ins.idx # NIL
  PROVE  l2p_access(ins.cache, SlotOf(key), ins.idx) = ins.cache
<1>1. PICK s : s = SlotOf(key)
  OBVIOUS
<1>2. PICK c : SlotChain(cache, s, c)
  BY <1>1, SlotOfKey DEF Sound
<1>3. ins.cache.tail[s] = ins.idx
  BY <1>1, <1>2, InsertFacts DEF Takes
<1> QED
  BY <1>1, <1>3 DEF l2p_access

\* An empty cache satisfies the invariant.
LEMMA InitCacheInv == Init => CacheInv
<1> SUFFICES ASSUME Init
             PROVE  CacheInv
  OBVIOUS
<1>1. PICK e : e = [key |-> NoKey, granularity |-> "PAGE_MAP", resident |-> FALSE, next |-> NIL, last |-> NIL]
  OBVIOUS
<1>2. e \in Entries
  BY <1>1, GranFacts DEF Entries
<1>3. 0 \in 0 .. SlotSize /\ 0 \in Indices
  BY CacheAssumption DEF Indices
<1>4. cache = [mapping  |-> [s \in Slots |-> [i \in Indices |-> e]],
               slot_len |-> [s \in Slots |-> 0],
               head     |-> [s \in Slots |-> 0],
               tail     |-> [s \in Slots |-> 0]]
  BY <1>1 DEF Init
<1>5. Types(cache)
  BY <1>2, <1>3, <1>4 DEF Types
<1>6. /\ cache.slot_len = [s \in Slots |-> 0] /\ cache.head = [s \in Slots |-> 0]
      /\ cache.tail = [s \in Slots |-> 0]
  BY <1>4
<1>7. \A s \in Slots : \E c : SlotChain(cache, s, c)
  <2>1. SUFFICES ASSUME NEW s \in Slots
                 PROVE  \E c : SlotChain(cache, s, c)
    OBVIOUS
  <2>2. PICK c : c = [n \in 1 .. 0 |-> 0]
    OBVIOUS
  <2>3. Lists(c, 0)
    BY <2>2 DEF Lists
  <2>4. cache.slot_len[s] = 0 /\ cache.head[s] = 0 /\ cache.tail[s] = 0
    BY <1>6
  <2>5. SlotChain(cache, s, c)
    BY <1>3, <2>3, <2>4 DEF SlotChain, Chain
  <2> QED
    BY <2>5
<1>8. l2pcache_idx \in [Keys -> Indices \cup {NIL}] /\ \A k \in Keys : l2pcache_idx[k] = NIL
  BY DEF Init
<1>9. Indexed(cache, l2pcache_idx)
  BY <1>6, <1>8 DEF Indexed
<1>10. maptbl \in [Keys -> Grans \cup {UNMAPPED}]
  BY DEF Init
<1> QED
  BY <1>5, <1>7, <1>8, <1>9, <1>10 DEF CacheInv, Sound

\* Every step of either namespace keeps the invariant.
LEMMA NextCacheInv == CacheInv /\ [Next]_vars => CacheInv'
<1> SUFFICES ASSUME CacheInv, [Next]_vars
             PROVE  CacheInv'
  OBVIOUS
<1>1. maptbl \in [Keys -> Grans \cup {UNMAPPED}] /\ Sound(cache, l2pcache_idx)
  BY DEF CacheInv
<1>2. ASSUME NEW key \in Keys, WritePage(key)
      PROVE  CacheInv'
  BY <1>1, <1>2, GranFacts, SetMapGran DEF WritePage
<1>3. ASSUME NEW key \in Keys, WriteReserved(key)
      PROVE  CacheInv'
  <2>1. PICK gran : gran = MAP_GRAN[Completed(key)]
    OBVIOUS
  <2>2. gran \in Grans /\ Start(key, gran) \in Keys
    BY <2>1, CompletedIs, StartIsKey
  <2>3. PICK tbl : tbl = [maptbl EXCEPT ![key] = maptbl[<<TLC, key[2] - 1>>]]
    OBVIOUS
  <2>4. <<TLC, key[2] - 1>> \in Keys
    BY <1>3, PageBefore DEF WriteReserved
  <2>5. tbl \in [Keys -> Grans \cup {UNMAPPED}]
    BY <1>1, <2>3, <2>4
  <2>6. set_map_gran(gran, Start(key, gran), tbl)
    BY <1>3, <2>1, <2>3 DEF WriteReserved
  <2> QED
    BY <2>2, <2>5, <2>6, SetMapGran
<1>4. ASSUME NEW key \in Keys, ReadHit(key)
      PROVE  CacheInv'
  <2>1. PICK k, s : k = FoundAt(key) /\ s = SlotOf(k)
    OBVIOUS
  <2>2. k \in Keys /\ l2pcache_idx[k] # NIL /\ s \in Slots
    BY <1>4, <2>1, FoundIs, SlotOfKey DEF ReadHit
  <2>3. PICK c : SlotChain(cache, s, c) /\ \E p \in 1 .. cache.slot_len[s] : c[p] = l2pcache_idx[k]
    BY <1>1, <2>1, <2>2, OnChain
  <2>4. PICK p \in 1 .. cache.slot_len[s] : c[p] = l2pcache_idx[k]
    BY <2>3
  <2>5. cache' = l2p_access(cache, s, c[p])
    BY <1>4, <2>1, <2>4 DEF ReadHit
  <2>6. Sound(cache', l2pcache_idx)
    BY <1>1, <2>2, <2>3, <2>5, UsedIsSound
  <2>7. maptbl' = maptbl /\ l2pcache_idx' = l2pcache_idx
    BY <1>4 DEF ReadHit
  <2> QED
    BY <1>1, <2>6, <2>7 DEF CacheInv
<1>5. ASSUME NEW key \in Keys, ReadMiss(key)
      PROVE  CacheInv'
  <2>1. PICK i : i = CHOOSE n \in MappedAt(key) : \A j \in MappedAt(key) : n <= j
    OBVIOUS
  <2>2. PICK start, gran : start = Start(key, gran) /\ gran = MAP_GRAN[i]
    OBVIOUS
  <2>3. gran \in Grans /\ start \in Keys /\ l2pcache_idx[start] = NIL
    BY <1>5, <2>1, <2>2, MissIs DEF ReadMiss
  <2>4. PICK ins : ins = l2p_insert(start, gran)
    OBVIOUS
  <2>5. /\ cache' = IF ins.idx = NIL THEN ins.cache ELSE l2p_access(ins.cache, SlotOf(start), ins.idx)
        /\ l2pcache_idx' = Reindexed(ins, start)
        /\ maptbl' = maptbl
    BY <1>5, <2>1, <2>2, <2>4 DEF ReadMiss
  <2>6. cache' = ins.cache
    BY <1>1, <2>3, <2>4, <2>5, InsertedIsLast
  <2>7. PICK s : s = SlotOf(start)
    OBVIOUS
  <2>8. PICK c : SlotChain(cache, s, c)
    BY <1>1, <2>3, <2>7, SlotOfKey DEF Sound
  <2>9. Sound(ins.cache, Reindexed(ins, start))
    BY <1>1, <2>3, <2>4, <2>7, <2>8, InsertFacts
  <2> QED
    BY <1>1, <2>5, <2>6, <2>9 DEF CacheInv
<1>6. ASSUME NEW ns \in Namespaces, NEW zid, ResetZone(ns, zid)
      PROVE  CacheInv'
  <2>1. maptbl' \in [Keys -> Grans \cup {UNMAPPED}]
    BY <1>1, <1>6 DEF ResetZone
  <2>2. cache' = cache /\ l2pcache_idx' = l2pcache_idx
    BY <1>6 DEF ResetZone
  <2> QED
    BY <1>1, <2>1, <2>2 DEF CacheInv
<1>7. CASE UNCHANGED vars
  BY <1>1, <1>7 DEF CacheInv, vars
<1> QED
  BY <1>2, <1>3, <1>4, <1>5, <1>6, <1>7 DEF Next

\* The index arrays, the entries and the chains of the cache always fit together.
THEOREM CacheIsSound == Spec => []CacheInv
BY InitCacheInv, NextCacheInv, PTL DEF Spec

\* The index arrays say exactly where each page is cached, whichever namespace
\* evicted what was there.
THEOREM IndexIsRight == Spec => []IndexFindsEntry
<1>1. CacheInv => IndexFindsEntry
  <2> SUFFICES ASSUME CacheInv
               PROVE  IndexFindsEntry
    OBVIOUS
  <2>1. /\ maptbl \in [Keys -> Grans \cup {UNMAPPED}]
        /\ l2pcache_idx \in [Keys -> Indices \cup {NIL}]
        /\ Types(cache) /\ Indexed(cache, l2pcache_idx)
    BY DEF CacheInv, Sound
  <2>2. TypeOK
    BY <2>1 DEF TypeOK, Types, Entries
  <2> QED
    BY <2>1, <2>2 DEF IndexFindsEntry, Indexed, InUse, EntryOf
<1> QED
  BY <1>1, CacheIsSound, PTL

\* The chain of a slot reaches every entry in use, in both directions.
THEOREM ChainsAreWhole == Spec => []ChainIsWhole
<1>1. CacheInv => ChainIsWhole
  <2> SUFFICES ASSUME CacheInv, NEW s \in Slots
               PROVE  LET chain == Chained(s)
                          len   == cache.slot_len[s]
                      IN  /\ {chain[n] : n \in 1 .. len} = InUse(s)
                          /\ len > 0 => chain[len] = cache.tail[s] /\ cache.mapping[s][chain[len]].next = NIL
                          /\ \A n \in 2 .. len : cache.mapping[s][chain[n]].last = chain[n - 1]
    BY DEF ChainIsWhole
  <2>1. PICK c : SlotChain(cache, s, c)
    BY DEF CacheInv, Sound
  <2>2. Chained(s) = c
    BY <2>1, ChainedIs
  <2>3. PICK len : len = cache.slot_len[s]
    OBVIOUS
  <2>4. /\ len \in Nat
        /\ c \in [1 .. len -> 0 .. len - 1]
        /\ \A i \in 0 .. len - 1 : \E n \in 1 .. len : c[n] = i
        /\ len # 0 => cache.tail[s] = c[len]
        /\ \A n \in 1 .. len : cache.mapping[s][c[n]].next = IF n = len THEN NIL ELSE c[n + 1]
        /\ \A n \in 2 .. len : cache.mapping[s][c[n]].last = c[n - 1]
    BY <2>1, <2>3, CacheAssumption DEF SlotChain, Chain, Lists
  <2>5. {c[n] : n \in 1 .. len} = 0 .. len - 1
    BY <2>4
  <2>6. InUse(s) = 0 .. len - 1
    BY <2>3 DEF InUse
  <2>7. ASSUME len > 0
        PROVE  c[len] = cache.tail[s] /\ cache.mapping[s][c[len]].next = NIL
    <3>1. len \in 1 .. len /\ len # 0
      BY <2>4, <2>7
    <3> QED
      BY <2>4, <3>1
  <2>8. /\ {c[n] : n \in 1 .. len} = InUse(s)
        /\ len > 0 => c[len] = cache.tail[s] /\ cache.mapping[s][c[len]].next = NIL
        /\ \A n \in 2 .. len : cache.mapping[s][c[n]].last = c[n - 1]
    BY <2>4, <2>5, <2>6, <2>7
  <2> QED
    BY ONLY <2>2, <2>3, <2>8, Zenon
<1> QED
  BY <1>1, CacheIsSound, PTL

-----------------------------------------------------------------------------
(* The cache implements LruCache.                                          *)

\* The keys of slot s in the order of the chain c.
Names(C, s, c) == [n \in 1 .. C.slot_len[s] |-> C.mapping[s][c[n]].key]

Pinned(C, I) == {k \in Keys : I[k] # NIL /\ C.mapping[SlotOf(k)][I[k]].resident}

RecencyIs == \A s \in Slots : \A c : SlotChain(cache, s, c) => ByRecency(s) = Names(cache, s, c)

\* The keys of a slot by recency are those along any chain of the slot; there is
\* only one.
LEMMA RecencyIsNames == RecencyIs
<1> SUFFICES ASSUME NEW s \in Slots, NEW c, SlotChain(cache, s, c)
             PROVE  ByRecency(s) = Names(cache, s, c)
  BY DEF RecencyIs
<1>1. Chained(s) = c
  BY ChainedIs
<1>2. DOMAIN c = 1 .. cache.slot_len[s]
  BY DEF SlotChain, Chain, Lists
<1>3. ByRecency(s) = [n \in DOMAIN c |-> cache.mapping[s][c[n]].key]
  BY <1>1, Zenon DEF ByRecency
<1> QED
  BY <1>2, <1>3 DEF Names

\* The sequence o without its p-th, and x at the end.
Moved(o, p, x) == [n \in 1 .. Len(o) |-> IF n < p THEN o[n] ELSE IF n < Len(o) THEN o[n + 1] ELSE x]

\* What removing the p-th and appending x makes of a sequence.
LEMMA Replaced ==
  ASSUME NEW S, NEW o \in Seq(S), NEW p \in 1 .. Len(o), NEW x \in S
  PROVE  Append(Lru!RemoveAt(o, p), x) = Moved(o, p, x)
<1>1. PICK len : len = Len(o)
  OBVIOUS
<1>2. len \in Nat /\ p \in 1 .. len /\ \A n \in 1 .. len : o[n] \in S
  BY <1>1, LenProperties
<1>3. PICK a, b : a = SubSeq(o, 1, p - 1) /\ b = SubSeq(o, p + 1, len)
  OBVIOUS
<1>4. a \in Seq(S) /\ Len(a) = p - 1 /\ \A i \in 1 .. p - 1 : a[i] = o[i]
  <2>1. 1 \in Int /\ p - 1 \in Int /\ \A i \in 1 .. p - 1 : o[i] \in S
    BY <1>2
  <2>2. /\ SubSeq(o, 1, p - 1) \in Seq(S)
        /\ Len(SubSeq(o, 1, p - 1)) = IF 1 <= p - 1 THEN p - 1 - 1 + 1 ELSE 0
        /\ \A i \in 1 .. p - 1 - 1 + 1 : SubSeq(o, 1, p - 1)[i] = o[1 + i - 1]
    BY ONLY <2>1, SubSeqProperties
  <2> QED
    BY <1>2, <1>3, <2>2
<1>5. b \in Seq(S) /\ Len(b) = len - p /\ \A i \in 1 .. len - p : b[i] = o[p + i]
  <2>1. p + 1 \in Int /\ len \in Int /\ \A i \in p + 1 .. len : o[i] \in S
    BY <1>2
  <2>2. /\ SubSeq(o, p + 1, len) \in Seq(S)
        /\ Len(SubSeq(o, p + 1, len)) = IF p + 1 <= len THEN len - (p + 1) + 1 ELSE 0
        /\ \A i \in 1 .. len - (p + 1) + 1 : SubSeq(o, p + 1, len)[i] = o[p + 1 + i - 1]
    BY ONLY <2>1, SubSeqProperties
  <2> QED
    BY <1>2, <1>3, <2>2
<1>6. PICK r : r = a \o b
  OBVIOUS
<1>7. /\ r \in Seq(S) /\ Len(r) = len - 1
      /\ \A i \in 1 .. len - 1 : r[i] = IF i < p THEN o[i] ELSE o[i + 1]
  <2>1. /\ r \in Seq(S) /\ Len(r) = Len(a) + Len(b)
        /\ \A i \in 1 .. Len(a) + Len(b) : r[i] = IF i <= Len(a) THEN a[i] ELSE b[i - Len(a)]
    BY ONLY <1>4, <1>5, <1>6, ConcatProperties
  <2>2. ASSUME NEW i \in 1 .. len - 1
        PROVE  r[i] = IF i < p THEN o[i] ELSE o[i + 1]
    <3>0. Len(a) = p - 1 /\ Len(a) + Len(b) = len - 1
      BY <1>2, <1>4, <1>5
    <3>1. r[i] = IF i <= p - 1 THEN a[i] ELSE b[i - (p - 1)]
      BY ONLY <2>1, <3>0, i \in 1 .. len - 1
    <3>2. CASE i < p
      BY <1>2, <1>4, <3>1, <3>2
    <3>3. CASE ~(i < p)
      <4>1. i - (p - 1) \in 1 .. len - p /\ p + (i - (p - 1)) = i + 1
        BY <1>2, <3>3
      <4> QED
        BY <1>2, <1>5, <3>1, <3>3, <4>1
    <3> QED
      BY <3>2, <3>3
  <2> QED
    BY <1>2, <1>4, <1>5, <2>1, <2>2
<1>8. PICK q : q = Append(r, x)
  OBVIOUS
<1>9. q \in Seq(S) /\ Len(q) = len /\ (\A i \in 1 .. len - 1 : q[i] = r[i]) /\ q[len] = x
  <2>1. /\ q \in Seq(S) /\ Len(q) = Len(r) + 1
        /\ \A i \in 1 .. Len(r) : q[i] = r[i]
        /\ q[Len(r) + 1] = x
    BY ONLY <1>7, <1>8, x \in S, AppendProperties
  <2> QED
    BY <1>2, <1>7, <2>1
<1>10. q = [n \in 1 .. len |-> q[n]]
  BY <1>9, LenProperties
<1>11. ASSUME NEW n \in 1 .. len
       PROVE  q[n] = IF n < p THEN o[n] ELSE IF n < len THEN o[n + 1] ELSE x
  BY <1>2, <1>7, <1>9
<1>12. q = [n \in 1 .. len |-> IF n < p THEN o[n] ELSE IF n < len THEN o[n + 1] ELSE x]
  BY <1>10, <1>11
<1> QED
  BY <1>1, <1>3, <1>6, <1>8, <1>12 DEF Lru!RemoveAt, Moved

\* What appending x makes of a sequence.
LEMMA Appending ==
  ASSUME NEW S, NEW o \in Seq(S), NEW x \in S
  PROVE  Append(o, x) = [n \in 1 .. Len(o) + 1 |-> IF n = Len(o) + 1 THEN x ELSE o[n]]
<1>1. PICK q, len : q = Append(o, x) /\ len = Len(o)
  OBVIOUS
<1>2. len \in Nat
  BY <1>1, LenProperties
<1>3. q \in Seq(S) /\ Len(q) = len + 1 /\ (\A i \in 1 .. len : q[i] = o[i]) /\ q[len + 1] = x
  <2>1. /\ Append(o, x) \in Seq(S) /\ Len(Append(o, x)) = Len(o) + 1
        /\ \A i \in 1 .. Len(o) : Append(o, x)[i] = o[i]
        /\ Append(o, x)[Len(o) + 1] = x
    BY AppendProperties
  <2> QED
    BY <1>1, <2>1
<1>4. q = [n \in 1 .. len + 1 |-> q[n]]
  BY <1>3, LenProperties
<1>5. \A n \in 1 .. len + 1 : q[n] = IF n = len + 1 THEN x ELSE o[n]
  BY <1>2, <1>3
<1>6. q = [n \in 1 .. len + 1 |-> IF n = len + 1 THEN x ELSE o[n]]
  BY <1>4, <1>5
<1> QED
  BY <1>1, <1>6

\* The keys of a slot are a sequence; its entries are those in use.
LEMMA NamesFacts ==
  ASSUME NEW C, NEW I, Sound(C, I), NEW s \in Slots, NEW c, SlotChain(C, s, c),
         NEW o, o = Names(C, s, c)
  PROVE  /\ o \in Seq(Keys) /\ Len(o) = C.slot_len[s] /\ C.slot_len[s] \in 0 .. SlotSize
         /\ \A n \in 1 .. C.slot_len[s] : /\ o[n] = C.mapping[s][c[n]].key
                                          /\ o[n] \in Keys /\ SlotOf(o[n]) = s /\ I[o[n]] = c[n]
                                          /\ c[n] \in 0 .. C.slot_len[s] - 1 /\ c[n] \in Indices
<1>1. PICK len : len = C.slot_len[s]
  OBVIOUS
<1>2. len \in 0 .. SlotSize /\ SlotSize \in Nat
  BY <1>1, CacheAssumption DEF Sound, Types
<1>3. ASSUME NEW n \in 1 .. len
      PROVE  /\ c[n] \in 0 .. len - 1 /\ c[n] \in Indices
             /\ LET k == C.mapping[s][c[n]].key IN k \in Keys /\ SlotOf(k) = s /\ I[k] = c[n]
  <2>1. c[n] \in 0 .. len - 1
    BY <1>1 DEF SlotChain, Chain, Lists
  <2> QED
    BY <1>1, <1>2, <2>1 DEF Sound, Indexed, Indices
<1>4. o = [n \in 1 .. len |-> C.mapping[s][c[n]].key]
  BY <1>1 DEF Names
<1>5. o \in [1 .. len -> Keys]
  BY <1>3, <1>4
<1>6. o \in Seq(Keys) /\ Len(o) = len
  BY <1>2, <1>5
<1> QED
  BY <1>1, <1>2, <1>3, <1>4, <1>6

\* The chains of slots that a step leaves alone keep their order.
Elsewhere(C, D, s) ==
  \A r \in Slots : r # s =>
    /\ D.slot_len[r] = C.slot_len[r] /\ D.head[r] = C.head[r] /\ D.tail[r] = C.tail[r]
    /\ D.mapping[r] = C.mapping[r]

OrderNow  == [s \in Slots |-> ByRecency(s)]
PinnedNow == {k \in Keys : l2pcache_idx[k] # NIL /\ EntryOf(k).resident}

\* The pinned keys are those of the resident entries.
LEMMA PinnedIs == PinnedNow = Pinned(cache, l2pcache_idx)
BY DEF PinnedNow, Pinned, EntryOf

\* A step that leaves the other slots alone changes the order of slot s only.
LEMMA OrderBecomes ==
  ASSUME CacheInv, RecencyIs, RecencyIs', NEW s \in Slots, Elsewhere(cache, cache', s),
         NEW d, SlotChain(cache', s, d), NEW seq, seq = Names(cache', s, d)
  PROVE  Lru!Becomes(s, seq)
<1>1. ByRecency(s)' = seq
  BY DEF RecencyIs
<1>2. ASSUME NEW r \in Slots, r # s
      PROVE  ByRecency(r)' = ByRecency(r)
  <2>1. PICK c : SlotChain(cache, r, c)
    BY DEF CacheInv, Sound
  <2>2. SlotChain(cache', r, c) /\ Names(cache', r, c) = Names(cache, r, c)
    BY <1>2, <2>1 DEF Elsewhere, SlotChain, Names
  <2> QED
    BY <2>1, <2>2 DEF RecencyIs
<1>3. [r \in Slots |-> ByRecency(r)]' = [r \in Slots |-> IF r = s THEN seq ELSE ByRecency(r)]
  BY <1>1, <1>2
<1>4. [r \in Slots |-> IF r = s THEN seq ELSE ByRecency(r)] = [[r \in Slots |-> ByRecency(r)] EXCEPT ![s] = seq]
  OBVIOUS
<1>5. [r \in Slots |-> ByRecency(r)]'[s] = seq
  BY <1>1
<1> QED
  BY <1>3, <1>4, <1>5 DEF Lru!Becomes

\* Using the p-th entry of slot s uses the p-th key.
LEMMA UseStep ==
  ASSUME CacheInv, RecencyIs, RecencyIs', NEW s \in Slots, NEW c, SlotChain(cache, s, c),
         NEW p \in 1 .. cache.slot_len[s], cache' = l2p_access(cache, s, c[p]), l2pcache_idx' = l2pcache_idx
  PROVE  Lru!Next
<1>1. PICK C, D, I, len : C = cache /\ D = cache' /\ I = l2pcache_idx /\ len = C.slot_len[s]
  OBVIOUS
<1>2. Sound(C, I) /\ Types(C) /\ SlotChain(C, s, c)
  BY <1>1 DEF CacheInv, Sound
<1>3. Relinked(C, D, s) /\ SlotChain(D, s, ToEnd(c, len, p))
  BY <1>1, <1>2, AccessFacts
<1>4. PICK o, d : o = Names(C, s, c) /\ d = ToEnd(c, len, p)
  OBVIOUS
<1>5. /\ o \in Seq(Keys) /\ Len(o) = len /\ len \in 0 .. SlotSize /\ SlotSize \in Nat
      /\ \A n \in 1 .. len : o[n] = C.mapping[s][c[n]].key /\ o[n] \in Keys /\ c[n] \in Indices
  BY <1>1, <1>2, <1>4, NamesFacts, CacheAssumption
<1>6. Names(D, s, d) = [n \in 1 .. len |-> IF n < p THEN o[n] ELSE IF n < len THEN o[n + 1] ELSE o[p]]
  <2>1. D.slot_len[s] = len /\ \A j \in Indices : D.mapping[s][j].key = C.mapping[s][j].key
    BY <1>1, <1>3 DEF Relinked, SameContent
  <2>2. ASSUME NEW n \in 1 .. len
        PROVE  D.mapping[s][d[n]].key = IF n < p THEN o[n] ELSE IF n < len THEN o[n + 1] ELSE o[p]
    <3>1. d[n] = IF n < p THEN c[n] ELSE IF n < len THEN c[n + 1] ELSE c[p]
      BY <1>4 DEF ToEnd
    <3>2. p \in 1 .. len /\ (n < len => n + 1 \in 1 .. len)
      BY <1>1, <1>5
    <3> QED
      BY <1>5, <2>1, <3>1, <3>2
  <2>3. Names(D, s, d) = [n \in 1 .. len |-> D.mapping[s][d[n]].key]
    BY <2>1 DEF Names
  <2> QED
    BY <2>2, <2>3
<1>7. Names(D, s, d) = Append(Lru!RemoveAt(o, p), o[p])
  <2>1. o \in Seq(Keys) /\ p \in 1 .. Len(o) /\ o[p] \in Keys
    BY <1>1, <1>5
  <2>2. Append(Lru!RemoveAt(o, p), o[p]) = Moved(o, p, o[p])
    BY ONLY <2>1, Replaced
  <2> QED
    BY <1>5, <1>6, <2>2 DEF Moved
<1>8. Lru!Becomes(s, Append(Lru!RemoveAt(o, p), o[p]))
  <2>1. Elsewhere(cache, cache', s)
    BY <1>1, <1>3 DEF Elsewhere, Relinked
  <2>2. SlotChain(cache', s, d)
    BY <1>1, <1>3, <1>4
  <2> QED
    BY <1>1, <1>7, <2>1, <2>2, OrderBecomes
<1>9. OrderNow[s] = o
  BY <1>1, <1>2, <1>4 DEF OrderNow, RecencyIs
<1>10. PinnedNow' = PinnedNow
  <2>1. \A r \in Slots : \A j \in Indices : D.mapping[r][j].resident = C.mapping[r][j].resident
    BY <1>3 DEF Relinked, SameContent
  <2>2. \A k \in Keys : I[k] # NIL => I[k] \in Indices /\ SlotOf(k) \in Slots
    BY <1>2, SlotOfKey DEF Sound
  <2>3. PinnedNow = {k \in Keys : I[k] # NIL /\ C.mapping[SlotOf(k)][I[k]].resident}
    BY <1>1 DEF PinnedNow, EntryOf
  <2>4. PinnedNow' = {k \in Keys : I[k] # NIL /\ D.mapping[SlotOf(k)][I[k]].resident}
    BY <1>1 DEF PinnedNow, EntryOf
  <2> QED
    BY <2>1, <2>2, <2>3, <2>4
<1>11. p \in DOMAIN OrderNow[s]
  BY <1>1, <1>5, <1>9, LenProperties
<1>12. Lru!Use(s, p)
  <2>1. Lru!Becomes(s, Append(Lru!RemoveAt(OrderNow[s], p), OrderNow[s][p]))
    BY <1>8, <1>9
  <2> QED
    BY <1>10, <2>1 DEF Lru!Use, OrderNow, PinnedNow
<1> QED
  BY <1>11, <1>12 DEF Lru!Next, OrderNow

\* That a cached key maps another unit pins it or unpins it.
LEMMA PinStep ==
  ASSUME CacheInv, RecencyIs, RecencyIs', NEW key \in Keys, l2pcache_idx[key] # NIL, NEW gran \in Grans,
         cache' = Regrained(cache, SlotOf(key), l2pcache_idx[key], gran),
         l2pcache_idx' = l2pcache_idx
  PROVE  Lru!Next
<1>1. PICK C, D, I, s : C = cache /\ D = cache' /\ I = l2pcache_idx /\ s = SlotOf(key)
  OBVIOUS
<1>2. Sound(C, I) /\ s \in Slots /\ I[key] # NIL
  BY <1>1, SlotOfKey DEF CacheInv
<1>3. Filled(C, D, s, I[key], key, gran)
  <2>1. D = Regrained(C, s, I[key], gran)
    BY <1>1
  <2> QED
    BY ONLY <1>1, <1>2, <2>1, key \in Keys, gran \in Grans, RegrainedIsSound
<1>4. PICK c : SlotChain(C, s, c) /\ \E p \in 1 .. C.slot_len[s] : c[p] = I[key] /\ C.mapping[s][c[p]].key = key
  BY <1>1, <1>2, OnChain
<1>5. PICK p \in 1 .. C.slot_len[s] : c[p] = I[key] /\ C.mapping[s][c[p]].key = key
  BY <1>4
<1>6. /\ \A k \in Keys : I[k] # NIL => I[k] \in Indices /\ SlotOf(k) \in Slots /\ C.mapping[SlotOf(k)][I[k]].key = k
  BY <1>2, SlotOfKey DEF Sound, Indexed
<1>7. \A r \in Slots : \A j \in Indices : D.mapping[r][j].key = C.mapping[r][j].key
  BY <1>2, <1>3, <1>5, <1>6 DEF Filled, SameContent
<1>8. OrderNow' = OrderNow
  <2>1. ASSUME NEW r \in Slots
        PROVE  ByRecency(r)' = ByRecency(r)
    <3>1. PICK e : SlotChain(C, r, e)
      BY <1>2 DEF Sound
    <3>2. SlotChain(D, r, e)
      <4>1. CASE r # s
        BY <1>3, <3>1, <4>1 DEF Filled, SlotChain
      <4>2. CASE r = s
        BY <1>2, <1>3, <3>1, <4>2, FilledChain
      <4> QED
        BY <4>1, <4>2
    <3>3. D.slot_len[r] = C.slot_len[r] /\ \A n \in 1 .. C.slot_len[r] : e[n] \in Indices
      BY <1>2, <1>3, <3>1, NamesFacts DEF Filled
    <3>4. Names(D, r, e) = Names(C, r, e)
      BY <1>7, <3>3 DEF Names
    <3> QED
      BY <1>1, <3>1, <3>2, <3>4 DEF RecencyIs
  <2>2. OrderNow' = [r \in Slots |-> ByRecency(r)']
    BY DEF OrderNow
  <2> QED
    BY <2>1, <2>2 DEF OrderNow
<1>9. PinnedNow' \in {PinnedNow \cup {key}, PinnedNow \ {key}}
  <2>1. PinnedNow = {k \in Keys : I[k] # NIL /\ C.mapping[SlotOf(k)][I[k]].resident}
    BY <1>1 DEF PinnedNow, EntryOf
  <2>2. PinnedNow' = {k \in Keys : I[k] # NIL /\ D.mapping[SlotOf(k)][I[k]].resident}
    BY <1>1 DEF PinnedNow, EntryOf
  <2>3. ASSUME NEW k \in Keys, k # key, I[k] # NIL
        PROVE  D.mapping[SlotOf(k)][I[k]].resident = C.mapping[SlotOf(k)][I[k]].resident
    <3>1. SlotOf(k) = s => I[k] # I[key]
      BY <1>1, <1>2, <1>6, <2>3
    <3>2. CASE SlotOf(k) = s
      BY <1>3, <1>6, <2>3, <3>1, <3>2 DEF Filled, SameContent
    <3>3. CASE SlotOf(k) # s
      BY <1>3, <1>6, <2>3, <3>3 DEF Filled
    <3> QED
      BY <3>2, <3>3
  <2>4. D.mapping[s][I[key]].resident = check_resident(gran)
    BY <1>3 DEF Filled
  <2>5. \A k \in Keys : k # key => (k \in PinnedNow' <=> k \in PinnedNow)
    BY <2>1, <2>2, <2>3
  <2>6. PinnedNow \subseteq Keys /\ PinnedNow' \subseteq Keys
    BY <2>1, <2>2
  <2>7. CASE key \in PinnedNow'
    <3>1. PinnedNow' = PinnedNow \cup {key}
      BY <2>5, <2>6, <2>7
    <3> QED
      BY <3>1
  <2>8. CASE key \notin PinnedNow'
    <3>1. PinnedNow' = PinnedNow \ {key}
      BY <2>5, <2>6, <2>8
    <3> QED
      BY <3>1
  <2> QED
    BY <2>7, <2>8
<1>10. key \in Lru!ToSet(OrderNow[s])
  <2>1. PICK o : o = Names(C, s, c)
    OBVIOUS
  <2>2. OrderNow[s] = o
    BY <1>1, <1>2, <1>4, <2>1 DEF OrderNow, RecencyIs
  <2>3. o \in Seq(Keys) /\ p \in 1 .. Len(o) /\ o[p] = key
    BY <1>2, <1>4, <1>5, <2>1, NamesFacts
  <2>4. p \in DOMAIN o
    BY <2>3, LenProperties
  <2> QED
    BY <2>2, <2>3, <2>4 DEF Lru!ToSet
<1>11. Lru!Pin(key)
  BY <1>8, <1>9 DEF Lru!Pin, OrderNow, PinnedNow
<1> QED
  BY <1>2, <1>10, <1>11 DEF Lru!Next, OrderNow

\* What taking an entry for key does to the keys that are pinned.
LEMMA TakenPinned ==
  ASSUME NEW C, NEW I, Sound(C, I), NEW D, NEW J, Types(D),
         NEW key \in Keys, I[key] = NIL, NEW s, s = SlotOf(key), NEW c, SlotChain(C, s, c),
         NEW i, NEW gran, Takes(C, I, D, J, s, c, i, key, gran)
  PROVE  Pinned(D, J) \in {Pinned(C, I), Pinned(C, I) \cup {key}}
<1>1. /\ \A k \in Keys : I[k] # NIL => /\ I[k] \in 0 .. C.slot_len[SlotOf(k)] - 1 /\ I[k] \in Indices
                                       /\ SlotOf(k) \in Slots /\ C.mapping[SlotOf(k)][I[k]].key = k
      /\ s \in Slots
  BY SlotOfKey DEF Sound, Indexed
<1>2. i \in Indices /\ i # NIL /\ Others(C, D, s, i) /\ Says(D, s, i, key, gran)
  BY DEF Takes, Indices, NIL
<1>3. ASSUME NEW k \in Keys, I[k] # NIL, ~(SlotOf(k) = s /\ I[k] = i)
      PROVE  D.mapping[SlotOf(k)][I[k]].resident = C.mapping[SlotOf(k)][I[k]].resident
  BY <1>1, <1>2, <1>3 DEF Others, SameContent
<1>4. PICK g : g = IF i = C.slot_len[s] THEN NoKey ELSE C.mapping[s][i].key
  OBVIOUS
<1>5. /\ J = Reindex(I, i, key, g)
      /\ \A k \in Keys : I[k] # NIL /\ SlotOf(k) = s /\ I[k] = i => k = g /\ ~C.mapping[s][i].resident
      /\ g \in Keys => I[g] # NIL /\ SlotOf(g) = s /\ I[g] = i
  <2>1. C.slot_len[s] \in 0 .. SlotSize /\ SlotSize \in Nat
    BY <1>1, CacheAssumption DEF Sound, Types
  <2>2. CASE HasRoom(C, D, s, c, key, gran) /\ i = C.slot_len[s] /\ J = Reindex(I, i, key, NoKey)
    <3>1. \A k \in Keys : I[k] # NIL /\ SlotOf(k) = s => I[k] # i
      BY <1>1, <2>1, <2>2
    <3> QED
      BY <1>4, <2>2, <3>1, KeyFacts
  <2>3. ASSUME NEW p \in 1 .. SlotSize, Evicts(C, D, s, c, p), i = c[p],
               J = Reindex(I, i, key, C.mapping[s][i].key)
        PROVE  /\ J = Reindex(I, i, key, g)
               /\ \A k \in Keys : I[k] # NIL /\ SlotOf(k) = s /\ I[k] = i => k = g /\ ~C.mapping[s][i].resident
               /\ g \in Keys => I[g] # NIL /\ SlotOf(g) = s /\ I[g] = i
    <3>1. C.slot_len[s] = SlotSize /\ ~C.mapping[s][i].resident
      BY <2>3 DEF Evicts
    <3>2. i \in 0 .. C.slot_len[s] - 1
      BY <2>3, <3>1 DEF SlotChain, Chain, Lists
    <3>3. i # C.slot_len[s] /\ g = C.mapping[s][i].key
      BY <1>4, <2>1, <3>2
    <3>4. SlotOf(g) = s /\ I[g] = i
      BY <1>1, <3>2, <3>3 DEF Sound, Indexed
    <3> QED
      BY <1>1, <1>2, <2>3, <3>1, <3>3, <3>4
  <2> QED
    BY <2>2, <2>3 DEF Takes
<1>6. \A k \in Keys : J[k] = IF k = key THEN i ELSE IF k = g THEN NIL ELSE I[k]
  BY <1>5 DEF Reindex
<1>7. ASSUME NEW k \in Keys, k # key
      PROVE  k \in Pinned(D, J) <=> k \in Pinned(C, I)
  <2>1. CASE k = g
    <3>1. J[k] = NIL /\ ~C.mapping[SlotOf(k)][I[k]].resident
      BY <1>5, <1>6, <1>7, <2>1
    <3> QED
      BY <3>1 DEF Pinned
  <2>2. CASE k # g
    <3>1. J[k] = I[k]
      BY <1>6, <1>7, <2>2
    <3>2. I[k] # NIL => ~(SlotOf(k) = s /\ I[k] = i)
      BY <1>5, <2>2
    <3>3. I[k] # NIL => D.mapping[SlotOf(k)][I[k]].resident = C.mapping[SlotOf(k)][I[k]].resident
      BY <1>3, <3>2
    <3> QED
      BY <3>1, <3>3 DEF Pinned
  <2> QED
    BY <2>1, <2>2
<1>8. key \notin Pinned(C, I) /\ Pinned(C, I) \subseteq Keys /\ Pinned(D, J) \subseteq Keys
  BY DEF Pinned
<1>9. CASE key \in Pinned(D, J)
  <2>1. Pinned(D, J) = Pinned(C, I) \cup {key}
    BY <1>7, <1>8, <1>9
  <2> QED
    BY <2>1
<1>10. CASE key \notin Pinned(D, J)
  <2>1. Pinned(D, J) = Pinned(C, I)
    BY <1>7, <1>8, <1>10
  <2> QED
    BY <2>1
<1> QED
  BY <1>9, <1>10

\* The order of a slot after an entry was taken.
NamesTaken(C, D, s, c, d, o, key) ==
  \/ Len(o) < SlotSize /\ Names(D, s, d) = Append(o, key)
  \/ /\ Len(o) = SlotSize
     /\ \E p \in 1 .. Len(o) : /\ ~C.mapping[s][c[p]].resident
                               /\ \A q \in 1 .. p - 1 : C.mapping[s][c[q]].resident
                               /\ Names(D, s, d) = Append(Lru!RemoveAt(o, p), key)

\* Taking an entry for key appends it to the order, and removes the key evicted.
LEMMA TakenNames ==
  ASSUME NEW C, NEW I, Sound(C, I), NEW D, NEW J,
         NEW key \in Keys, NEW s \in Slots, NEW c, SlotChain(C, s, c), NEW o, o = Names(C, s, c),
         NEW i, NEW gran, Takes(C, I, D, J, s, c, i, key, gran)
  PROVE  \E d : SlotChain(D, s, d) /\ NamesTaken(C, D, s, c, d, o, key)
<1>1. PICK len : len = C.slot_len[s]
  OBVIOUS
<1>2. /\ o \in Seq(Keys) /\ Len(o) = len /\ len \in 0 .. SlotSize /\ SlotSize \in Nat
      /\ \A n \in 1 .. len : o[n] = C.mapping[s][c[n]].key /\ c[n] \in 0 .. len - 1 /\ c[n] \in Indices
  BY <1>1, NamesFacts, CacheAssumption
<1>3. \A j \in Indices : j # i => D.mapping[s][j].key = C.mapping[s][j].key
  BY DEF Takes, Others, SameContent
<1>4. D.mapping[s][i].key = key
  BY DEF Takes, Says
<1>5. CASE HasRoom(C, D, s, c, key, gran) /\ i = C.slot_len[s]
  <2>1. PICK d : d = Longer(c, len)
    OBVIOUS
  <2>2. len < SlotSize /\ D.slot_len[s] = len + 1 /\ SlotChain(D, s, d)
    BY <1>1, <1>5, <2>1 DEF HasRoom
  <2>3. ASSUME NEW n \in 1 .. len + 1
        PROVE  D.mapping[s][d[n]].key = IF n = len + 1 THEN key ELSE o[n]
    <3>1. d[n] = IF n = len + 1 THEN len ELSE c[n]
      BY <2>1 DEF Longer
    <3>2. CASE n = len + 1
      BY <1>1, <1>4, <1>5, <3>1, <3>2
    <3>3. CASE n # len + 1
      <4>1. n \in 1 .. len
        BY <1>2, <3>3
      <4>2. c[n] # i
        BY <1>1, <1>2, <1>5, <4>1
      <4> QED
        BY <1>2, <1>3, <3>1, <3>3, <4>1, <4>2
    <3> QED
      BY <3>2, <3>3
  <2>4. Names(D, s, d) = [n \in 1 .. len + 1 |-> D.mapping[s][d[n]].key]
    BY <2>2 DEF Names
  <2>5. Names(D, s, d) = [n \in 1 .. len + 1 |-> IF n = len + 1 THEN key ELSE o[n]]
    BY <2>3, <2>4
  <2>6. Append(o, key) = [n \in 1 .. Len(o) + 1 |-> IF n = Len(o) + 1 THEN key ELSE o[n]]
    BY <1>2, Appending
  <2>7. Names(D, s, d) = Append(o, key)
    BY <1>2, <2>5, <2>6
  <2> QED
    BY <1>2, <2>2, <2>7 DEF NamesTaken
<1>6. ASSUME NEW p \in 1 .. SlotSize, Evicts(C, D, s, c, p), i = c[p]
      PROVE  \E d : /\ SlotChain(D, s, d) /\ Len(o) = SlotSize
                    /\ \E q \in 1 .. Len(o) : /\ ~C.mapping[s][c[q]].resident
                                              /\ \A r \in 1 .. q - 1 : C.mapping[s][c[r]].resident
                                              /\ Names(D, s, d) = Append(Lru!RemoveAt(o, q), key)
  <2>1. PICK d : d = ToEnd(c, len, p)
    OBVIOUS
  <2>2. len = SlotSize /\ D.slot_len[s] = len /\ SlotChain(D, s, d) /\ p \in 1 .. len
    BY <1>1, <1>6, <2>1 DEF Evicts
  <2>3. \A n, m \in 1 .. len : c[n] = c[m] => n = m
    BY <1>1 DEF SlotChain, Chain, Lists
  <2>4. ASSUME NEW n \in 1 .. len
        PROVE  D.mapping[s][d[n]].key = IF n < p THEN o[n] ELSE IF n < len THEN o[n + 1] ELSE key
    <3>1. d[n] = IF n < p THEN c[n] ELSE IF n < len THEN c[n + 1] ELSE c[p]
      BY <2>1 DEF ToEnd
    <3>2. CASE n < p
      <4>1. c[n] # i
        BY <1>6, <2>2, <2>3, <3>2
      <4> QED
        BY <1>2, <1>3, <3>1, <3>2, <4>1
    <3>3. CASE ~(n < p) /\ n < len
      <4>1. n + 1 \in 1 .. len /\ n + 1 # p
        BY <1>2, <2>2, <3>3
      <4>2. c[n + 1] # i
        BY <1>6, <2>2, <2>3, <4>1
      <4> QED
        BY <1>2, <1>3, <3>1, <3>3, <4>1, <4>2
    <3>4. CASE ~(n < p) /\ ~(n < len)
      BY <1>4, <1>6, <3>1, <3>4
    <3> QED
      BY <3>2, <3>3, <3>4
  <2>5. Names(D, s, d) = [n \in 1 .. len |-> D.mapping[s][d[n]].key]
    BY <2>2 DEF Names
  <2>6. Names(D, s, d) = [n \in 1 .. len |-> IF n < p THEN o[n] ELSE IF n < len THEN o[n + 1] ELSE key]
    BY <2>4, <2>5
  <2>7. Names(D, s, d) = Moved(o, p, key)
    BY <1>2, <2>6 DEF Moved
  <2>8. o \in Seq(Keys) /\ p \in 1 .. Len(o)
    BY <1>2, <2>2
  <2>9. Append(Lru!RemoveAt(o, p), key) = Moved(o, p, key)
    BY ONLY <2>8, key \in Keys, Replaced
  <2>10. /\ ~C.mapping[s][c[p]].resident
         /\ \A r \in 1 .. p - 1 : C.mapping[s][c[r]].resident
         /\ Names(D, s, d) = Append(Lru!RemoveAt(o, p), key)
    BY <1>6, <2>7, <2>9 DEF Evicts
  <2>11. Len(o) = SlotSize
    BY <1>2, <2>2
  <2> QED
    BY <2>2, <2>8, <2>10, <2>11, Zenon
<1>7. (HasRoom(C, D, s, c, key, gran) /\ i = C.slot_len[s]) \/ \E p \in 1 .. SlotSize : Evicts(C, D, s, c, p) /\ i = c[p]
  BY DEF Takes
<1> QED
  BY <1>5, <1>6, <1>7 DEF NamesTaken

\* A step that leaves the cache and the index arrays alone is not seen.
LEMMA NothingHappens ==
  ASSUME CacheInv, RecencyIs, RecencyIs', cache' = cache, l2pcache_idx' = l2pcache_idx
  PROVE  OrderNow' = OrderNow /\ PinnedNow' = PinnedNow
<1>1. ASSUME NEW r \in Slots
      PROVE  ByRecency(r)' = ByRecency(r)
  <2>1. PICK c : SlotChain(cache, r, c)
    BY DEF CacheInv, Sound
  <2>2. ByRecency(r)' = Names(cache', r, c) /\ ByRecency(r) = Names(cache, r, c)
    BY <2>1 DEF RecencyIs
  <2> QED
    BY <2>2
<1>2. OrderNow' = [r \in Slots |-> ByRecency(r)']
  BY DEF OrderNow
<1>3. OrderNow' = OrderNow
  BY <1>1, <1>2 DEF OrderNow
<1> QED
  BY <1>3 DEF PinnedNow, EntryOf

\* An insertion makes room where it may, or changes nothing.
LEMMA InsertStep ==
  ASSUME CacheInv, RecencyIs, RecencyIs', NEW key \in Keys, l2pcache_idx[key] = NIL, NEW gran \in Grans,
         NEW ins, ins = l2p_insert(key, gran),
         cache' = ins.cache, l2pcache_idx' = Reindexed(ins, key)
  PROVE  Lru!Next \/ (OrderNow' = OrderNow /\ PinnedNow' = PinnedNow)
<1>1. PICK C, D, I, J, s : C = cache /\ D = cache' /\ I = l2pcache_idx /\ J = l2pcache_idx' /\ s = SlotOf(key)
  OBVIOUS
<1>2. Sound(C, I) /\ s \in Slots /\ I[key] = NIL
  BY <1>1, SlotOfKey DEF CacheInv
<1>3. PICK c : SlotChain(C, s, c)
  BY <1>2 DEF Sound
<1>4. /\ Sound(D, J)
      /\ (C = D /\ I = J) \/ Takes(C, I, D, J, s, c, ins.idx, key, gran)
  BY <1>1, <1>2, <1>3, InsertFacts
<1>5. CASE C = D /\ I = J
  BY <1>1, <1>5, NothingHappens
<1>6. CASE Takes(C, I, D, J, s, c, ins.idx, key, gran)
  <2>1. PICK o : o = Names(C, s, c)
    OBVIOUS
  <2>2. /\ o \in Seq(Keys) /\ Len(o) = C.slot_len[s]
        /\ \A n \in 1 .. Len(o) : o[n] = C.mapping[s][c[n]].key /\ o[n] \in Keys /\ SlotOf(o[n]) = s
                                  /\ I[o[n]] = c[n] /\ c[n] \in Indices
    BY <1>2, <1>3, <2>1, NamesFacts
  <2>3. OrderNow[s] = o /\ DOMAIN o = 1 .. Len(o)
    BY <1>1, <1>2, <1>3, <2>1, <2>2, LenProperties DEF OrderNow, RecencyIs
  <2>4. PinnedNow = Pinned(C, I) /\ PinnedNow' = Pinned(D, J)
    BY <1>1 DEF PinnedNow, Pinned, EntryOf
  <2>5. PinnedNow' \in {PinnedNow, PinnedNow \cup {key}}
    BY <1>1, <1>2, <1>3, <1>4, <1>6, <2>4, TakenPinned DEF Sound
  <2>6. Elsewhere(cache, cache', s)
    BY <1>1, <1>6 DEF Elsewhere, Takes, Others
  <2>7. PICK d : SlotChain(D, s, d) /\ NamesTaken(C, D, s, c, d, o, key)
    <3>1. /\ Sound(C, I) /\ s \in Slots /\ SlotChain(C, s, c) /\ o = Names(C, s, c)
          /\ Takes(C, I, D, J, s, c, ins.idx, key, gran)
      BY <1>2, <1>3, <1>6, <2>1
    <3> QED
      BY ONLY <3>1, key \in Keys, TakenNames
  <2>8. \A seq : seq = Names(D, s, d) => Lru!Becomes(s, seq)
    BY <1>1, <1>2, <2>6, <2>7, OrderBecomes
  <2>9. \A n \in 1 .. Len(o) : o[n] \in PinnedNow <=> C.mapping[s][c[n]].resident
    BY <2>2, <2>4 DEF Pinned, Indices, NIL
  <2>10. Lru!Insert(s, key)
    <3>1. CASE Len(o) < SlotSize /\ Names(D, s, d) = Append(o, key)
      <4>1. Len(OrderNow[s]) < SlotSize /\ Lru!Becomes(s, Append(OrderNow[s], key))
        BY <2>3, <2>8, <3>1
      <4> QED
        BY <2>5, <4>1 DEF Lru!Insert, OrderNow, PinnedNow
    <3>2. ASSUME Len(o) = SlotSize, NEW p \in 1 .. Len(o),
                 ~C.mapping[s][c[p]].resident,
                 \A q \in 1 .. p - 1 : C.mapping[s][c[q]].resident,
                 Names(D, s, d) = Append(Lru!RemoveAt(o, p), key)
          PROVE  Lru!Insert(s, key)
      <4>1. Lru!Becomes(s, Append(Lru!RemoveAt(o, p), key))
        BY <2>8, <3>2
      <4>2. o[p] \notin PinnedNow
        BY <2>9, <3>2
      <4>3. Len(o) \in Nat
        BY <2>2, LenProperties
      <4>4. \A q \in 1 .. p - 1 : o[q] \in PinnedNow
        BY <2>9, <3>2, <4>3
      <4>5. /\ Len(OrderNow[s]) = SlotSize
            /\ \E n \in DOMAIN OrderNow[s] :
                 /\ OrderNow[s][n] \notin PinnedNow
                 /\ \A m \in 1 .. n - 1 : OrderNow[s][m] \in PinnedNow
                 /\ Lru!Becomes(s, Append(Lru!RemoveAt(OrderNow[s], n), key))
        BY <2>3, <3>2, <4>1, <4>2, <4>4
      <4> QED
        BY <2>5, <4>5 DEF Lru!Insert, OrderNow, PinnedNow
    <3> QED
      BY <2>7, <3>1, <3>2 DEF NamesTaken
  <2>11. key \notin Lru!ToSet(OrderNow[s])
    <3>1. \A n \in DOMAIN o : o[n] # key
      BY <1>2, <2>2, <2>3 DEF Indices, NIL
    <3> QED
      BY <2>3, <3>1 DEF Lru!ToSet
  <2>12. key \in Keys \ Lru!ToSet(OrderNow[s]) /\ SlotOf(key) = s
    BY <1>1, <2>11
  <2>13. Lru!Next
    BY <1>2, <2>10, <2>12 DEF Lru!Next, OrderNow
  <2> QED
    BY <2>13
<1> QED
  BY <1>4, <1>5, <1>6

\* Recording a granularity inserts a key, pins or unpins it, or is not seen.
LEMMA SetMapGranStep ==
  ASSUME CacheInv, RecencyIs, RecencyIs', NEW key \in Keys, NEW gran \in Grans, NEW tbl, set_map_gran(gran, key, tbl)
  PROVE  Lru!Next \/ (OrderNow' = OrderNow /\ PinnedNow' = PinnedNow)
<1>1. CASE /\ l2pcache_idx[key] = NIL
           /\ cache' = l2p_insert(key, gran).cache
           /\ l2pcache_idx' = Reindexed(l2p_insert(key, gran), key)
  BY <1>1, InsertStep
<1>2. CASE /\ l2pcache_idx[key] # NIL
           /\ cache' = Regrained(cache, SlotOf(key), l2pcache_idx[key], gran)
           /\ UNCHANGED l2pcache_idx
  BY <1>2, PinStep
<1> QED
  BY <1>1, <1>2 DEF set_map_gran, Regrained

\* Every step of the cache is a step of LruCache or is not seen by it.
LEMMA LruStep ==
  ASSUME CacheInv, RecencyIs, RecencyIs', [Next]_vars
  PROVE  Lru!Next \/ (OrderNow' = OrderNow /\ PinnedNow' = PinnedNow)
<1>1. Sound(cache, l2pcache_idx)
  BY DEF CacheInv
<1>2. ASSUME NEW key \in Keys, WritePage(key)
      PROVE  Lru!Next \/ (OrderNow' = OrderNow /\ PinnedNow' = PinnedNow)
  BY <1>2, GranFacts, SetMapGranStep DEF WritePage
<1>3. ASSUME NEW key \in Keys, WriteReserved(key)
      PROVE  Lru!Next \/ (OrderNow' = OrderNow /\ PinnedNow' = PinnedNow)
  <2>1. PICK gran : gran = MAP_GRAN[Completed(key)]
    OBVIOUS
  <2>2. gran \in Grans /\ Start(key, gran) \in Keys
    BY <2>1, CompletedIs, StartIsKey
  <2>3. PICK tbl : tbl = [maptbl EXCEPT ![key] = maptbl[<<TLC, key[2] - 1>>]]
    OBVIOUS
  <2>4. set_map_gran(gran, Start(key, gran), tbl)
    BY <1>3, <2>1, <2>3 DEF WriteReserved
  <2> QED
    BY <2>2, <2>4, SetMapGranStep
<1>4. ASSUME NEW key \in Keys, ReadHit(key)
      PROVE  Lru!Next
  <2>1. PICK k, s : k = FoundAt(key) /\ s = SlotOf(k)
    OBVIOUS
  <2>2. k \in Keys /\ l2pcache_idx[k] # NIL /\ s \in Slots
    BY <1>4, <2>1, FoundIs, SlotOfKey DEF ReadHit
  <2>3. PICK c : SlotChain(cache, s, c) /\ \E p \in 1 .. cache.slot_len[s] : c[p] = l2pcache_idx[k]
    BY <1>1, <2>1, <2>2, OnChain
  <2>4. PICK p \in 1 .. cache.slot_len[s] : c[p] = l2pcache_idx[k]
    BY <2>3
  <2>5. cache' = l2p_access(cache, s, c[p]) /\ l2pcache_idx' = l2pcache_idx
    BY <1>4, <2>1, <2>4 DEF ReadHit
  <2> QED
    BY <2>2, <2>3, <2>5, UseStep
<1>5. ASSUME NEW key \in Keys, ReadMiss(key)
      PROVE  Lru!Next \/ (OrderNow' = OrderNow /\ PinnedNow' = PinnedNow)
  <2>1. PICK i : i = CHOOSE n \in MappedAt(key) : \A j \in MappedAt(key) : n <= j
    OBVIOUS
  <2>2. PICK start, gran : start = Start(key, gran) /\ gran = MAP_GRAN[i]
    OBVIOUS
  <2>3. gran \in Grans /\ start \in Keys /\ l2pcache_idx[start] = NIL
    BY <1>5, <2>1, <2>2, MissIs DEF ReadMiss
  <2>4. PICK ins : ins = l2p_insert(start, gran)
    OBVIOUS
  <2>5. /\ cache' = IF ins.idx = NIL THEN ins.cache ELSE l2p_access(ins.cache, SlotOf(start), ins.idx)
        /\ l2pcache_idx' = Reindexed(ins, start)
    BY <1>5, <2>1, <2>2, <2>4 DEF ReadMiss
  <2>6. cache' = ins.cache
    BY <1>1, <2>3, <2>4, <2>5, InsertedIsLast
  <2> QED
    BY <2>3, <2>4, <2>5, <2>6, InsertStep
<1>6. ASSUME NEW ns, NEW zid, ResetZone(ns, zid)
      PROVE  OrderNow' = OrderNow /\ PinnedNow' = PinnedNow
  BY <1>6, NothingHappens DEF ResetZone
<1>7. CASE UNCHANGED vars
  BY <1>7, NothingHappens DEF vars
<1> QED
  BY <1>2, <1>3, <1>4, <1>5, <1>6, <1>7 DEF Next

\* An empty cache has an empty order in every slot, and pins nothing.
LEMMA LruInit == Init => Lru!Init
<1> SUFFICES ASSUME Init
             PROVE  Lru!Init
  OBVIOUS
<1>1. ASSUME NEW s \in Slots
      PROVE  ByRecency(s) = <<>>
  <2>1. PICK c : SlotChain(cache, s, c)
    BY InitCacheInv DEF CacheInv, Sound
  <2>2. ByRecency(s) = Names(cache, s, c)
    BY <2>1, RecencyIsNames DEF RecencyIs
  <2>3. cache.slot_len[s] = 0
    BY DEF Init
  <2>4. Names(cache, s, c) \in Seq(Keys) /\ Len(Names(cache, s, c)) = 0
    BY <2>1, <2>3, InitCacheInv, NamesFacts DEF CacheInv
  <2> QED
    BY <2>2, <2>4, EmptySeq
<1>2. [s \in Slots |-> ByRecency(s)] = [s \in Slots |-> <<>>]
  BY <1>1
<1>3. {k \in Keys : l2pcache_idx[k] # NIL /\ EntryOf(k).resident} = {}
  BY DEF Init
<1> QED
  BY <1>2, <1>3 DEF Lru!Init

\* The arrays of chained entries are least-recently-used caches: a full slot
\* drops the key that was not used for longest among those that may be evicted,
\* and never a resident one (for the code, every entry coarser than a page).
THEOREM LruImplemented == Spec => ImplementsLru
<1>1. Init => Lru!Init
  BY LruInit
<1>2. CacheInv /\ RecencyIs /\ RecencyIs' /\ [Next]_vars
        => [Lru!Next]_<<[s \in Slots |-> ByRecency(s)], {k \in Keys : l2pcache_idx[k] # NIL /\ EntryOf(k).resident}>>
  BY LruStep DEF OrderNow, PinnedNow
<1>3. RecencyIs
  BY RecencyIsNames
<1> QED
  BY <1>1, <1>2, <1>3, CacheIsSound, PTL DEF Spec, ImplementsLru, Lru!Spec

-----------------------------------------------------------------------------
(* Granularities.  Where chunks divide sub-zones and zones, the last page  *)
(* of a chunk never begins a unit of more than a page.                     *)

Nested == /\ PgsPerChunk > 1
          /\ PgsPerSubZone % PgsPerChunk = 0
          /\ PgsPerZone[TLC] % PgsPerChunk = 0

ZoneOf(key) == key[2] \div PgsPerZone[key[1]]

\* The page is the last of a chunk of its zone.
EndsChunk(key) == ((key[2] % PgsPerZone[key[1]]) + 1) % PgsPerChunk = 0

\* A number is its quotient and its remainder.
LEMMA Division ==
  ASSUME NEW a \in Nat, NEW b \in Nat \ {0}
  PROVE  a \div b \in Int /\ a % b \in 0 .. b - 1 /\ a = b * (a \div b) + (a % b)
OBVIOUS

\* A number written with a remainder in range is written with its own one.
Splits(a, b, q, r) == a \in Nat /\ b \in Nat \ {0} /\ q \in Int /\ r \in 0 .. b - 1 /\ a = b * q + r

LEMMA DivisionIs ==
  ASSUME NEW a, NEW b, NEW q, NEW r, Splits(a, b, q, r)
  PROVE  a \div b = q /\ a % b = r
<1>0. a \in Nat /\ b \in Nat \ {0} /\ q \in Int /\ r \in 0 .. b - 1 /\ a = b * q + r
  BY DEF Splits
<1>1. PICK x, y : x = a \div b /\ y = a % b
  OBVIOUS
<1>2. x \in Int /\ y \in 0 .. b - 1 /\ a = b * x + y
  BY <1>0, <1>1, Division
<1>3. ASSUME NEW i \in Int, NEW j \in Int, i > j, NEW s \in 0 .. b - 1, NEW t \in 0 .. b - 1, b * i + s = b * j + t
      PROVE  FALSE
  <2>1. PICK d \in Nat : i = j + 1 + d
    <3>1. i - j - 1 \in Nat /\ i = j + 1 + (i - j - 1)
      BY <1>3
    <3> QED
      BY <3>1
  <2>2. b * d \in Nat
    BY <1>0, \A m, n \in Nat : m * n \in Nat
  <2>3. b * i = b * j + b + b * d
    BY <1>0, <2>1
  <2>4. PICK e \in Int : e = b * j
    BY <1>0
  <2>5. e + b + b * d + s = e + t
    BY <1>3, <2>3, <2>4
  <2> QED
    BY <1>0, <1>3, <2>2, <2>4, <2>5
<1>4. ~(x > q)
  BY <1>0, <1>2, <1>3
<1>5. ~(q > x)
  BY <1>0, <1>2, <1>3
<1>6. x = q
  BY <1>0, <1>2, <1>4, <1>5
<1>7. b * q \in Int
  BY <1>0
<1> QED
  BY <1>0, <1>1, <1>2, <1>6, <1>7

\* A page no further back than the start of the zone is in the same zone.
LEMMA SameZone ==
  ASSUME NEW lpn \in Nat, NEW z \in Nat \ {0}, NEW n \in 0 .. (lpn % z)
  PROVE  /\ lpn - n \in Nat
         /\ (lpn - n) \div z = lpn \div z /\ (lpn - n) % z = (lpn % z) - n
<1>1. PICK q, r : q = lpn \div z /\ r = lpn % z
  OBVIOUS
<1>2. q \in Int /\ r \in 0 .. z - 1 /\ lpn = z * q + r
  BY <1>1, Division
<1>3. lpn - n \in Nat
  <2>1. r <= lpn
    BY <1>1, Remainder
  <2> QED
    BY <1>1, <1>2, <2>1
<1>4. z * q \in Int /\ r - n \in 0 .. z - 1
  BY <1>1, <1>2
<1>5. lpn - n = z * q + (r - n)
  BY <1>1, <1>2, <1>4
<1>6. Splits(lpn - n, z, q, r - n)
  BY <1>2, <1>3, <1>4, <1>5 DEF Splits
<1>7. (lpn - n) \div z = q /\ (lpn - n) % z = r - n
  BY ONLY <1>6, DivisionIs
<1> QED
  BY <1>1, <1>3, <1>7

\* A unit that a page completes is completed by the last page of a chunk.
LEMMA LastOfChunk ==
  ASSUME NEW x \in Nat, NEW c \in Nat \ {0}, NEW u \in Nat \ {0}, u % c = 0, ((x % u) + 1) % u = 0
  PROVE  (x + 1) % c = 0
<1>1. PICK m \in Int : u = c * m
  <2>1. u \div c \in Int /\ u = c * (u \div c) + (u % c)
    BY Division
  <2>2. c * (u \div c) \in Int
    BY <2>1
  <2>3. u = c * (u \div c)
    BY ONLY <2>1, <2>2, u % c = 0
  <2> QED
    BY <2>1, <2>3
<1>2. PICK q \in Int, r \in 0 .. u - 1 : x = u * q + r /\ r = x % u
  BY Division
<1>3. PICK t \in Int : r + 1 = u * t
  <2>1. r + 1 \in Nat /\ (r + 1) % u = 0
    BY <1>2
  <2> QED
    BY <2>1, Division
<1>4. x + 1 = u * q + u * t
  BY <1>2, <1>3
<1>5. u * q + u * t = u * (q + t)
  OBVIOUS
<1>6. PICK p \in Int : p = q + t
  OBVIOUS
<1>7. u * p = c * (m * p)
  BY <1>1
<1>8. PICK w \in Int : w = m * p
  OBVIOUS
<1>9. x + 1 = c * w + 0
  BY <1>4, <1>5, <1>6, <1>7, <1>8
<1>10. 0 \in 0 .. c - 1 /\ x + 1 \in Nat
  OBVIOUS
<1>11. Splits(x + 1, c, w, 0)
  BY <1>8, <1>9, <1>10 DEF Splits
<1> QED
  BY ONLY <1>11, DivisionIs

\* The first page of a unit is not the last of a chunk.
LEMMA FirstOfUnit ==
  ASSUME NEW x \in Nat, NEW c \in Nat, c > 1, NEW u \in Nat \ {0}, u % c = 0
  PROVE  (x - (x % u) + 1) % c # 0
<1>1. PICK m \in Int : u = c * m
  <2>1. u \div c \in Int /\ u = c * (u \div c) + (u % c)
    BY Division
  <2>2. c * (u \div c) \in Int
    BY <2>1
  <2>3. u = c * (u \div c)
    BY ONLY <2>1, <2>2, u % c = 0
  <2> QED
    BY <2>1, <2>3
<1>2. PICK q \in Int, r \in 0 .. u - 1 : x = u * q + r /\ r = x % u
  BY Division
<1>3. u * q = c * (m * q)
  BY <1>1
<1>4. PICK w \in Int : w = m * q
  OBVIOUS
<1>5. x - r = c * w
  <2>1. u * q = c * w
    BY <1>3, <1>4
  <2>2. PICK e \in Int : e = u * q
    OBVIOUS
  <2>3. x = e + r
    BY <1>2, <2>2
  <2>4. x - r = e
    BY <1>2, <2>3
  <2> QED
    BY <2>1, <2>2, <2>4
<1>6. x - r \in Nat
  <2>1. r <= x
    BY <1>2, Remainder
  <2> QED
    BY <1>2, <2>1
<1>7. x - r + 1 = c * w + 1
  BY <1>5
<1>8. PICK y : y = x - r + 1
  OBVIOUS
<1>9. y \in Nat /\ 1 \in 0 .. c - 1 /\ c \in Nat \ {0} /\ y = c * w + 1
  BY <1>6, <1>7, <1>8
<1>10. Splits(y, c, w, 1)
  BY <1>4, <1>9 DEF Splits
<1>11. y % c = 1
  BY ONLY <1>10, DivisionIs
<1>12. y = x - (x % u) + 1
  BY <1>2, <1>8
<1> QED
  BY ONLY <1>11, <1>12

\* The granularity that the cache has of an indexed key.
GranIn(C, I, k) == C.mapping[SlotOf(k)][I[k]].granularity

\* A zone-mapped zone is written in order, and its last page is mapped by itself
\* as yet.
WrittenInOrder ==
  /\ \A j, k \in Keys :
       j[1] = TLC /\ k[1] = TLC /\ ZoneOf(j) = ZoneOf(k) /\ j[2] <= k[2] /\ mapped(k) => mapped(j)
  /\ \A j, k \in Keys :
       /\ j[1] = TLC /\ k[1] = TLC /\ ZoneOf(j) = ZoneOf(k) /\ k[2] = j[2] + 1
       /\ mapped(j) /\ ~mapped(k)
       => maptbl[j] = "PAGE_MAP"

\* What the cache has of the last page of a chunk, perhaps from before a reset.
EndsAreSingle ==
  \A k \in Keys : k[1] = TLC /\ EndsChunk(k) /\ l2pcache_idx[k] # NIL
                    => GranIn(cache, l2pcache_idx, k) = "PAGE_MAP"

GransInv == CacheInv /\ GranularityAgrees /\ WrittenInOrder /\ EndsAreSingle

\* A key as numbers.
LEMMA KeyNumbers ==
  ASSUME NEW key \in Keys
  PROVE  key[2] \in Nat /\ key[1] \in Namespaces /\ PgsPerZone[key[1]] \in Nat \ {0}
BY KeyFacts, ZoneAssumption

\* The page before a page that does not begin a zone is in the same zone.
LEMMA BeforeInZone ==
  ASSUME NEW key \in Keys, ~IsZoneStart(key)
  PROVE  LET k == <<key[1], key[2] - 1>>
         IN  k \in Keys /\ ZoneOf(k) = ZoneOf(key)
<1>1. PICK lpn, z, o : lpn = key[2] /\ z = PgsPerZone[key[1]] /\ o = lpn % z
  OBVIOUS
<1>2. lpn \in Nat /\ z \in Nat \ {0} /\ o \in 0 .. z - 1
  BY <1>1, KeyNumbers, Remainder
<1>3. o # 0
  <2>1. SUFFICES ASSUME o = 0
                 PROVE  IsZoneStart(key)
    OBVIOUS
  <2>2. 0 % z = 0
    BY <1>2, Remainder
  <2>3. Start(key, "ZONE_MAP") = <<key[1], lpn - 0>>
    BY <1>1, <2>1, <2>2 DEF Start, pages_per_granularity
  <2>4. Start(key, "ZONE_MAP") = <<key[1], key[2]>>
    BY <1>1, <1>2, <2>3
  <2> QED
    BY <2>4, KeyFacts DEF IsZoneStart
<1>4. 1 \in 0 .. (lpn % z)
  BY <1>1, <1>2, <1>3
<1>5. (lpn - 1) \div z = lpn \div z
  BY ONLY <1>2, <1>4, SameZone
<1>6. <<key[1], key[2] - 1>> \in Keys
  BY PageBefore
<1> QED
  BY <1>1, <1>5, <1>6 DEF ZoneOf

\* A unit begins in the zone of its pages.
LEMMA StartInZone ==
  ASSUME NEW key \in Keys, NEW gran \in Grans
  PROVE  LET s == Start(key, gran)
             z == PgsPerZone[key[1]]
             u == pages_per_granularity(key[1], gran)
         IN  /\ s \in Keys /\ s[1] = key[1]
             /\ ZoneOf(s) = ZoneOf(key) /\ s[2] <= key[2]
             /\ u \in Nat \ {0}
             /\ key[2] - s[2] = (key[2] % z) % u
             /\ s[2] % z = (key[2] % z) - ((key[2] % z) % u)
<1>1. PICK lpn, z, o, u, s : /\ lpn = key[2] /\ z = PgsPerZone[key[1]] /\ o = lpn % z
                             /\ u = pages_per_granularity(key[1], gran) /\ s = Start(key, gran)
  OBVIOUS
<1>2. lpn \in Nat /\ z \in Nat \ {0} /\ o \in 0 .. z - 1
  BY <1>1, KeyNumbers, Remainder
<1>3. u \in Nat \ {0}
  <2>1. gran \in {"ZONE_MAP", "SUB_ZONE_MAP", "CHUNK_MAP", "PAGE_MAP"}
    BY GranFacts
  <2> QED
    BY <1>1, <1>2, <2>1, UnitAssumption DEF pages_per_granularity
<1>4. PICK n : n = o % u
  OBVIOUS
<1>5. n \in Nat /\ n <= o
  BY <1>2, <1>3, <1>4, Remainder
<1>6. s = <<key[1], lpn - n>>
  BY <1>1, <1>4 DEF Start
<1>7. n \in 0 .. (lpn % z)
  BY <1>1, <1>2, <1>5
<1>8. lpn - n \in Nat /\ (lpn - n) \div z = lpn \div z /\ (lpn - n) % z = (lpn % z) - n
  BY ONLY <1>2, <1>7, SameZone
<1>9. s \in Keys
  BY <1>1, StartIsKey
<1>10. s[1] = key[1] /\ s[2] = lpn - n
  BY <1>6
<1>11. ZoneOf(s) = ZoneOf(key)
  BY <1>1, <1>8, <1>10 DEF ZoneOf
<1>12. s[2] <= key[2] /\ key[2] - s[2] = n
  BY <1>1, <1>2, <1>5, <1>10
<1>13. s[2] % z = o - n
  BY <1>1, <1>8, <1>10
<1> QED
  BY <1>1, <1>3, <1>4, <1>9, <1>10, <1>11, <1>12, <1>13

\* No page of a zone is before its first one.
LEMMA ZoneStartIsFirst ==
  ASSUME NEW key \in Keys, IsZoneStart(key), NEW j \in Keys, j[1] = key[1], ZoneOf(j) = ZoneOf(key)
  PROVE  key[2] <= j[2]
<1>1. PICK lpn, z, o : lpn = key[2] /\ z = PgsPerZone[key[1]] /\ o = lpn % z
  OBVIOUS
<1>2. lpn \in Nat /\ z \in Nat \ {0} /\ o \in 0 .. z - 1 /\ j[2] \in Nat
  BY <1>1, KeyNumbers, Remainder
<1>3. o % z = 0
  <2>1. Start(key, "ZONE_MAP") = <<key[1], lpn - (o % z)>>
    BY <1>1 DEF Start, pages_per_granularity
  <2>2. lpn - (o % z) = lpn
    BY <1>1, <2>1 DEF IsZoneStart
  <2>3. o % z \in Nat
    BY <1>2, Remainder
  <2> QED
    BY <1>2, <2>2, <2>3
<1>4. o = 0
  <2>1. o = z * 0 + o /\ o \in Nat
    BY <1>2
  <2>2. Splits(o, z, 0, o)
    BY <1>2, <2>1 DEF Splits
  <2>3. o % z = o
    BY ONLY <2>2, DivisionIs
  <2> QED
    BY <1>3, <2>3
<1>5. PICK q : q = lpn \div z
  OBVIOUS
<1>6. q \in Int /\ lpn = z * q + o
  BY ONLY <1>1, <1>2, <1>5, Division
<1>7. PICK r \in 0 .. z - 1 : j[2] = z * q + r
  <2>1. j[2] \div z = q
    BY <1>1, <1>5 DEF ZoneOf
  <2>2. j[2] % z \in 0 .. z - 1 /\ j[2] = z * (j[2] \div z) + (j[2] % z)
    BY ONLY <1>2, Division
  <2> QED
    BY <2>1, <2>2
<1>8. PICK e \in Int : e = z * q
  BY <1>2, <1>6
<1> QED
  BY <1>1, <1>2, <1>4, <1>6, <1>7, <1>8

\* Every unit but a page is one of whole chunks.
LEMMA UnitIsChunks ==
  ASSUME Nested, NEW gran \in Grans, gran # "PAGE_MAP"
  PROVE  /\ pages_per_granularity(TLC, gran) \in Nat \ {0}
         /\ pages_per_granularity(TLC, gran) % PgsPerChunk = 0
<1>1. PgsPerZone[TLC] \in Nat \ {0}
  BY ZoneAssumption DEF Namespaces
<1>2. PgsPerChunk % PgsPerChunk = 0
  <2>1. PICK c : c = PgsPerChunk
    OBVIOUS
  <2>2. Splits(c, c, 1, 0)
    BY <2>1, UnitAssumption DEF Splits
  <2>3. c % c = 0
    BY ONLY <2>2, DivisionIs
  <2> QED
    BY <2>1, <2>3
<1>3. gran \in {"ZONE_MAP", "SUB_ZONE_MAP", "CHUNK_MAP"}
  BY GranFacts
<1> QED
  BY <1>1, <1>2, <1>3, UnitAssumption DEF Nested, pages_per_granularity

\* The first page of a unit of more than a page is not the last of a chunk.
LEMMA StartIsNotLast ==
  ASSUME Nested, NEW key \in Keys, key[1] = TLC, NEW gran \in Grans, gran # "PAGE_MAP"
  PROVE  ~EndsChunk(Start(key, gran))
<1>1. PICK o, z, u, s : /\ z = PgsPerZone[key[1]] /\ o = key[2] % z
                        /\ u = pages_per_granularity(key[1], gran) /\ s = Start(key, gran)
  OBVIOUS
<1>2. o \in Nat /\ PgsPerChunk \in Nat /\ PgsPerChunk > 1
  <2>1. z \in Nat \ {0} /\ o \in 0 .. z - 1
    BY <1>1, KeyNumbers, Remainder
  <2> QED
    BY <2>1, UnitAssumption DEF Nested
<1>3. u \in Nat \ {0} /\ u % PgsPerChunk = 0
  BY <1>1, UnitIsChunks
<1>4. s[1] = key[1] /\ s[2] % z = o - (o % u)
  BY <1>1, StartInZone
<1>5. PICK c : c = PgsPerChunk
  OBVIOUS
<1>6. c \in Nat /\ c > 1 /\ u % c = 0
  BY <1>2, <1>3, <1>5
<1>7. ((o - (o % u)) + 1) % c # 0
  BY ONLY <1>2, <1>3, <1>6, FirstOfUnit
<1> QED
  BY <1>1, <1>4, <1>5, <1>7 DEF EndsChunk

\* The page that completes a unit of more than a page is the last of a chunk.
LEMMA CompletesLast ==
  ASSUME Nested, NEW key \in Keys, key[1] = TLC, MAP_GRAN[Completed(key)] # "PAGE_MAP"
  PROVE  EndsChunk(key)
<1>1. PICK o, z, gran, u, s : /\ z = PgsPerZone[key[1]] /\ o = key[2] % z
                              /\ gran = MAP_GRAN[Completed(key)]
                              /\ u = pages_per_granularity(key[1], gran) /\ s = Start(key, gran)
  OBVIOUS
<1>2. gran \in Grans /\ ((key[2] - s[2]) + 1) % u = 0
  BY <1>1, CompletedIs
<1>3. o \in Nat /\ PgsPerChunk \in Nat \ {0}
  BY <1>1, KeyNumbers, Remainder, UnitAssumption
<1>4. u \in Nat \ {0} /\ u % PgsPerChunk = 0
  BY <1>1, <1>2, UnitIsChunks
<1>5. key[2] - s[2] = o % u
  BY <1>1, <1>2, StartInZone
<1>6. ((o % u) + 1) % u = 0
  BY <1>2, <1>5
<1>7. PICK c : c = PgsPerChunk
  OBVIOUS
<1>8. c \in Nat \ {0} /\ u % c = 0
  BY <1>3, <1>4, <1>7
<1>9. (o + 1) % c = 0
  BY ONLY <1>3, <1>4, <1>6, <1>8, LastOfChunk
<1> QED
  BY <1>1, <1>7, <1>9 DEF EndsChunk

\* A page begins itself.
LEMMA PageStart ==
  ASSUME NEW key \in Keys
  PROVE  Start(key, "PAGE_MAP") = key
<1>1. PICK o, lpn, z : lpn = key[2] /\ z = PgsPerZone[key[1]] /\ o = lpn % z
  OBVIOUS
<1>2. o \in Nat /\ key[2] \in Nat
  <2>1. lpn \in Nat /\ z \in Nat \ {0}
    BY <1>1, KeyNumbers
  <2>2. lpn % z \in 0 .. z - 1
    BY <2>1, Remainder
  <2> QED
    BY <1>1, <2>1, <2>2
<1>3. o % 1 = 0
  <2>1. \A x \in Nat : x % 1 = 0
    OBVIOUS
  <2> QED
    BY <1>2, <2>1
<1>4. Start(key, "PAGE_MAP") = <<key[1], key[2] - 0>>
  BY <1>1, <1>3 DEF Start, pages_per_granularity
<1> QED
  BY <1>2, <1>4, KeyFacts

\* The cache has gran for key now; what it has of the other keys is as before.
GranSet(C, I, D, J, key, gran) ==
  /\ J[key] # NIL => GranIn(D, J, key) = gran
  /\ \A k \in Keys : k # key /\ J[k] # NIL => I[k] # NIL /\ GranIn(D, J, k) = GranIn(C, I, k)

\* An insertion sets the granularity of the inserted key alone.
LEMMA InsertGran ==
  ASSUME Sound(cache, l2pcache_idx), NEW key \in Keys, NEW gran \in Grans, l2pcache_idx[key] = NIL,
         NEW ins, ins = l2p_insert(key, gran)
  PROVE  GranSet(cache, l2pcache_idx, ins.cache, Reindexed(ins, key), key, gran)
<1>1. PICK C, I, D, J, s, i : /\ C = cache /\ I = l2pcache_idx /\ D = ins.cache /\ J = Reindexed(ins, key)
                              /\ s = SlotOf(key) /\ i = ins.idx
  OBVIOUS
<1>2. Sound(C, I) /\ s \in Slots /\ I[key] = NIL
  BY <1>1, SlotOfKey
<1>3. PICK c : SlotChain(C, s, c)
  BY <1>2 DEF Sound
<1>4. (D = C /\ J = I) \/ Takes(C, I, D, J, s, c, i, key, gran)
  BY <1>1, <1>3, InsertFacts
<1>5. CASE D = C /\ J = I
  BY <1>1, <1>2, <1>5 DEF GranSet
<1>6. CASE Takes(C, I, D, J, s, c, i, key, gran)
  <2>1. i \in Indices /\ i # NIL /\ Others(C, D, s, i) /\ Says(D, s, i, key, gran)
    BY <1>6 DEF Takes, Indices, NIL
  <2>2. PICK g : J = Reindex(I, i, key, g)
    BY <1>6 DEF Takes
  <2>3. \A k \in Keys : J[k] = IF k = key THEN i ELSE IF k = g THEN NIL ELSE I[k]
    BY <2>2 DEF Reindex
  <2>4. Sound(D, J)
    BY <1>1, <1>3, InsertFacts
  <2>5. GranIn(D, J, key) = gran
    BY <1>1, <2>1, <2>3 DEF GranIn, Says
  <2>6. ASSUME NEW k \in Keys, k # key, J[k] # NIL
        PROVE  I[k] # NIL /\ GranIn(D, J, k) = GranIn(C, I, k)
    <3>1. J[k] = I[k]
      BY <2>3, <2>6
    <3>2. I[k] \in Indices /\ SlotOf(k) \in Slots /\ D.mapping[SlotOf(k)][J[k]].key = k
      BY <1>2, <2>4, <2>6, <3>1, SlotOfKey DEF Sound, Indexed
    <3>3. ~(SlotOf(k) = s /\ I[k] = i)
      BY <2>1, <2>6, <3>1, <3>2 DEF Says
    <3>4. D.mapping[SlotOf(k)][I[k]].granularity = C.mapping[SlotOf(k)][I[k]].granularity
      <4>1. PICK r, j : r = SlotOf(k) /\ j = I[k]
        OBVIOUS
      <4>2. r \in Slots /\ j \in Indices /\ ~(r = s /\ j = i)
        BY <3>2, <3>3, <4>1
      <4>3. CASE r = s
        BY <2>1, <4>1, <4>2, <4>3 DEF Others, SameContent
      <4>4. CASE r # s
        BY <2>1, <4>1, <4>2, <4>4 DEF Others, SameContent
      <4> QED
        BY <4>3, <4>4
    <3> QED
      BY <2>6, <3>1, <3>4 DEF GranIn
  <2> QED
    BY <1>1, <2>5, <2>6 DEF GranSet
<1> QED
  BY <1>4, <1>5, <1>6

\* set_map_gran sets the granularity of key in the cache as in the table.
LEMMA SetGran ==
  ASSUME CacheInv, NEW key \in Keys, NEW gran \in Grans, NEW tbl \in [Keys -> Grans \cup {UNMAPPED}],
         set_map_gran(gran, key, tbl)
  PROVE  /\ GranSet(cache, l2pcache_idx, cache', l2pcache_idx', key, gran)
         /\ maptbl' = [tbl EXCEPT ![key] = gran]
<1>1. maptbl' = [tbl EXCEPT ![key] = gran]
  BY DEF set_map_gran
<1>2. CASE /\ l2pcache_idx[key] = NIL
           /\ cache' = l2p_insert(key, gran).cache
           /\ l2pcache_idx' = Reindexed(l2p_insert(key, gran), key)
  <2>1. PICK ins : ins = l2p_insert(key, gran)
    OBVIOUS
  <2>2. GranSet(cache, l2pcache_idx, ins.cache, Reindexed(ins, key), key, gran)
    BY <1>2, <2>1, InsertGran DEF CacheInv
  <2> QED
    BY <1>1, <1>2, <2>1, <2>2
<1>3. CASE /\ l2pcache_idx[key] # NIL
           /\ cache' = Regrained(cache, SlotOf(key), l2pcache_idx[key], gran)
           /\ UNCHANGED l2pcache_idx
  <2>1. PICK C, D, I, s : C = cache /\ D = cache' /\ I = l2pcache_idx /\ s = SlotOf(key)
    OBVIOUS
  <2>2. Sound(C, I) /\ s \in Slots
    BY <2>1, SlotOfKey DEF CacheInv
  <2>3. Filled(C, D, s, I[key], key, gran)
    <3>1. D = Regrained(C, s, I[key], gran) /\ I[key] # NIL
      BY <1>3, <2>1
    <3> QED
      BY ONLY <2>1, <2>2, <3>1, key \in Keys, gran \in Grans, RegrainedIsSound
  <2>4. GranIn(D, I, key) = gran
    BY <2>1, <2>3 DEF GranIn, Filled
  <2>5. ASSUME NEW k \in Keys, k # key, I[k] # NIL
        PROVE  GranIn(D, I, k) = GranIn(C, I, k)
    <3>1. /\ I[k] \in Indices /\ SlotOf(k) \in Slots
          /\ C.mapping[SlotOf(k)][I[k]].key = k /\ C.mapping[s][I[key]].key = key
      BY <1>3, <2>1, <2>2, <2>5, SlotOfKey DEF Sound, Indexed
    <3>2. ~(SlotOf(k) = s /\ I[k] = I[key])
      BY <2>5, <3>1
    <3>3. CASE SlotOf(k) = s
      BY <2>3, <3>1, <3>2, <3>3 DEF GranIn, Filled, SameContent
    <3>4. CASE SlotOf(k) # s
      BY <2>3, <3>1, <3>4 DEF GranIn, Filled
    <3> QED
      BY <3>3, <3>4
  <2>6. GranSet(C, I, D, I, key, gran)
    BY <2>4, <2>5 DEF GranSet
  <2> QED
    BY <1>1, <1>3, <2>1, <2>6
<1> QED
  BY <1>2, <1>3 DEF set_map_gran, Regrained

\* The three parts again, with the granularities of the cache named.
LEMMA GransAre ==
  GranularityAgrees <=> \A k \in Keys : l2pcache_idx[k] # NIL /\ maptbl[k] # UNMAPPED
                                          => GranIn(cache, l2pcache_idx, k) = maptbl[k]
BY DEF GranularityAgrees, EntryOf, GranIn, mapped

\* What the cache has of the last pages of chunks stays so if no other
\* granularity is set for them.
LEMMA SingleKept ==
  ASSUME EndsAreSingle, NEW key \in Keys, NEW gran,
         GranSet(cache, l2pcache_idx, cache', l2pcache_idx', key, gran),
         key[1] = TLC /\ EndsChunk(key) => gran = "PAGE_MAP"
  PROVE  EndsAreSingle'
<1>1. ASSUME NEW k \in Keys, k[1] = TLC, EndsChunk(k), l2pcache_idx'[k] # NIL
      PROVE  GranIn(cache', l2pcache_idx', k) = "PAGE_MAP"
  BY <1>1 DEF GranSet, EndsAreSingle
<1> QED
  BY <1>1 DEF EndsAreSingle, GranIn, EndsChunk, SlotOf

\* A page that is mapped by itself: of a page-mapped zone, or the first of a
\* zone that is written in order.
LEMMA WritePageGrans ==
  ASSUME Nested, GransInv, NEW key \in Keys, WritePage(key)
  PROVE  GransInv'
<1>1. CacheInv /\ maptbl \in [Keys -> Grans \cup {UNMAPPED}]
  BY DEF GransInv, CacheInv
<1>2. set_map_gran("PAGE_MAP", key, maptbl) /\ "PAGE_MAP" \in Grans /\ "PAGE_MAP" # UNMAPPED
  BY GranFacts DEF WritePage
<1>3. CacheInv'
  BY <1>1, <1>2, SetMapGran
<1>4. /\ GranSet(cache, l2pcache_idx, cache', l2pcache_idx', key, "PAGE_MAP")
      /\ maptbl' = [maptbl EXCEPT ![key] = "PAGE_MAP"]
  BY <1>1, <1>2, SetGran
<1>5. \A k \in Keys : maptbl'[k] = IF k = key THEN "PAGE_MAP" ELSE maptbl[k]
  BY <1>1, <1>4
<1>6. GranularityAgrees'
  <2>1. ASSUME NEW k \in Keys, l2pcache_idx'[k] # NIL, maptbl'[k] # UNMAPPED
        PROVE  GranIn(cache', l2pcache_idx', k) = maptbl'[k]
    <3>1. CASE k = key
      BY <1>4, <1>5, <2>1, <3>1 DEF GranSet
    <3>2. CASE k # key
      BY <1>4, <1>5, <2>1, <3>2, GransAre DEF GranSet, GransInv
    <3> QED
      BY <3>1, <3>2
  <2> QED
    BY <2>1 DEF GranularityAgrees, EntryOf, GranIn, mapped, SlotOf
<1>7. EndsAreSingle'
  BY <1>4, SingleKept DEF GransInv
<1>8. WrittenInOrder'
  <2>1. CASE key[1] # TLC
    BY <1>5, <2>1 DEF GransInv, WrittenInOrder, mapped, ZoneOf
  <2>2. CASE key[1] = TLC
    <3>1. IsZoneStart(key)
      BY <2>2 DEF WritePage, TLC, SLC
    <3>2. ASSUME NEW j \in Keys, NEW k \in Keys, j[1] = TLC, k[1] = TLC, ZoneOf(j) = ZoneOf(k),
                 j[2] <= k[2], maptbl'[k] # UNMAPPED
          PROVE  maptbl'[j] # UNMAPPED
      <4>1. CASE k = key
        <5>1. key[2] <= j[2]
          BY <2>2, <3>1, <3>2, <4>1, ZoneStartIsFirst
        <5>2. j[2] = key[2]
          BY <3>2, <4>1, <5>1, KeyNumbers
        <5>3. j = key
          BY <2>2, <3>2, <5>2, KeyFacts
        <5> QED
          BY <1>2, <1>5, <5>3
      <4>2. CASE k # key
        BY <1>2, <1>5, <3>2, <4>2 DEF GransInv, WrittenInOrder, mapped
      <4> QED
        BY <4>1, <4>2
    <3>3. ASSUME NEW j \in Keys, NEW k \in Keys, j[1] = TLC, k[1] = TLC, ZoneOf(j) = ZoneOf(k),
                 k[2] = j[2] + 1, maptbl'[j] # UNMAPPED, maptbl'[k] = UNMAPPED
          PROVE  maptbl'[j] = "PAGE_MAP"
      <4>1. maptbl[k] = UNMAPPED
        BY <1>2, <1>5, <3>3
      <4>2. CASE j = key
        BY <1>5, <4>2
      <4>3. CASE j # key
        BY <1>5, <3>3, <4>1, <4>3 DEF GransInv, WrittenInOrder, mapped
      <4> QED
        BY <4>2, <4>3
    <3> QED
      BY <3>2, <3>3 DEF WrittenInOrder, mapped, ZoneOf
  <2> QED
    BY <2>1, <2>2
<1> QED
  BY <1>3, <1>6, <1>7, <1>8 DEF GransInv

\* A further page of a zone: the unit that it completes begins with a page that
\* was written before, or is the page itself.
LEMMA WriteReservedGrans ==
  ASSUME Nested, GransInv, NEW key \in Keys, WriteReserved(key)
  PROVE  GransInv'
<1>1. PICK gran, start, before : /\ gran = MAP_GRAN[Completed(key)]
                                 /\ start = Start(key, gran)
                                 /\ before = <<TLC, key[2] - 1>>
  OBVIOUS
<1>2. /\ CacheInv /\ maptbl \in [Keys -> Grans \cup {UNMAPPED}]
      /\ GranularityAgrees /\ WrittenInOrder /\ EndsAreSingle
  BY DEF GransInv, CacheInv
<1>3. /\ key[1] = TLC /\ ~IsZoneStart(key)
      /\ maptbl[key] = UNMAPPED /\ maptbl[before] # UNMAPPED
  BY <1>1 DEF WriteReserved, mapped
<1>4. before \in Keys /\ ZoneOf(before) = ZoneOf(key) /\ before[1] = TLC /\ key[2] = before[2] + 1
  BY <1>1, <1>3, BeforeInZone, KeyNumbers
<1>5. gran \in Grans /\ start \in Keys /\ start[1] = TLC /\ ZoneOf(start) = ZoneOf(key) /\ start[2] <= key[2]
  BY <1>1, <1>3, CompletedIs, StartInZone
<1>6. \A k \in Keys : k[2] \in Nat
  BY KeyNumbers
<1>7. maptbl[before] = "PAGE_MAP"
  BY <1>2, <1>3, <1>4 DEF WrittenInOrder, mapped
<1>8. /\ gran # "PAGE_MAP" => EndsChunk(key) /\ ~EndsChunk(start)
      /\ gran = "PAGE_MAP" => start = key
  BY <1>1, <1>3, <1>5, CompletesLast, StartIsNotLast, PageStart
<1>9. /\ GranSet(cache, l2pcache_idx, cache', l2pcache_idx', start, gran)
      /\ CacheInv'
      /\ \A k \in Keys : maptbl'[k] = IF k = start THEN gran ELSE IF k = key THEN "PAGE_MAP" ELSE maptbl[k]
  <2>1. PICK tbl : tbl = [maptbl EXCEPT ![key] = maptbl[before]]
    OBVIOUS
  <2>2. tbl \in [Keys -> Grans \cup {UNMAPPED}]
    BY <1>2, <1>4, <2>1
  <2>3. set_map_gran(gran, start, tbl)
    BY <1>1, <2>1 DEF WriteReserved
  <2>4. CacheInv'
    BY ONLY <1>2, <1>5, <2>2, <2>3, SetMapGran
  <2>5. /\ GranSet(cache, l2pcache_idx, cache', l2pcache_idx', start, gran)
        /\ maptbl' = [tbl EXCEPT ![start] = gran]
    BY ONLY <1>2, <1>5, <2>2, <2>3, SetGran
  <2>6. \A k \in Keys : maptbl'[k] = IF k = start THEN gran ELSE IF k = key THEN "PAGE_MAP" ELSE maptbl[k]
    BY <1>2, <1>7, <2>1, <2>2, <2>5
  <2> QED
    BY <2>4, <2>5, <2>6
<1>10. maptbl'[key] = "PAGE_MAP"
  BY <1>8, <1>9
<1>11. \A j \in Keys : j[1] = TLC /\ ZoneOf(j) = ZoneOf(key) /\ j[2] <= key[2] => j = key \/ maptbl[j] # UNMAPPED
  <2>1. SUFFICES ASSUME NEW j \in Keys, j[1] = TLC, ZoneOf(j) = ZoneOf(key), j[2] <= key[2], j # key
                 PROVE  maptbl[j] # UNMAPPED
    OBVIOUS
  <2>2. j[2] # key[2]
    BY <1>3, <2>1, KeyFacts
  <2>3. j[2] <= before[2]
    BY <1>4, <1>6, <2>1, <2>2
  <2> QED
    BY <1>2, <1>3, <1>4, <2>1, <2>3 DEF WrittenInOrder, mapped
<1>12. \A k \in Keys : maptbl'[k] # UNMAPPED <=> k = key \/ maptbl[k] # UNMAPPED
  <2>1. gran # UNMAPPED /\ "PAGE_MAP" # UNMAPPED
    BY <1>5, GranFacts DEF UNMAPPED
  <2>2. start = key \/ maptbl[start] # UNMAPPED
    BY <1>5, <1>11
  <2> QED
    BY <1>9, <1>10, <2>1, <2>2
<1>13. GranularityAgrees'
  <2>1. ASSUME NEW k \in Keys, l2pcache_idx'[k] # NIL, maptbl'[k] # UNMAPPED
        PROVE  GranIn(cache', l2pcache_idx', k) = maptbl'[k]
    <3>1. CASE k = start
      BY <1>9, <2>1, <3>1 DEF GranSet
    <3>2. CASE k # start
      <4>1. l2pcache_idx[k] # NIL /\ GranIn(cache', l2pcache_idx', k) = GranIn(cache, l2pcache_idx, k)
        BY <1>9, <2>1, <3>2 DEF GranSet
      <4>2. CASE k = key
        <5>1. EndsChunk(key)
          BY <1>8, <3>2, <4>2
        <5> QED
          BY <1>2, <1>3, <1>10, <4>1, <4>2, <5>1 DEF EndsAreSingle
      <4>3. CASE k # key
        <5>1. maptbl'[k] = maptbl[k]
          BY <1>9, <3>2, <4>3
        <5> QED
          BY <1>2, <2>1, <4>1, <5>1, GransAre
      <4> QED
        BY <4>2, <4>3
    <3> QED
      BY <3>1, <3>2
  <2> QED
    BY <2>1 DEF GranularityAgrees, EntryOf, GranIn, mapped, SlotOf
<1>14. EndsAreSingle'
  BY <1>2, <1>5, <1>8, <1>9, SingleKept
<1>15. WrittenInOrder'
  <2>1. ASSUME NEW j \in Keys, NEW k \in Keys, j[1] = TLC, k[1] = TLC, ZoneOf(j) = ZoneOf(k),
               j[2] <= k[2], maptbl'[k] # UNMAPPED
        PROVE  maptbl'[j] # UNMAPPED
    <3>1. CASE k = key
      BY <1>11, <1>12, <2>1, <3>1
    <3>2. CASE k # key
      BY <1>2, <1>12, <2>1, <3>2 DEF WrittenInOrder, mapped
    <3> QED
      BY <3>1, <3>2
  <2>2. ASSUME NEW j \in Keys, NEW k \in Keys, j[1] = TLC, k[1] = TLC, ZoneOf(j) = ZoneOf(k),
               k[2] = j[2] + 1, maptbl'[j] # UNMAPPED, maptbl'[k] = UNMAPPED
        PROVE  maptbl'[j] = "PAGE_MAP"
    <3>1. k # key /\ maptbl[k] = UNMAPPED
      BY <1>12, <2>2
    <3>2. CASE j = key
      BY <1>10, <3>2
    <3>3. CASE j # key
      <4>1. j # start
        <5>1. SUFFICES ASSUME j = start
                       PROVE  FALSE
          OBVIOUS
        <5>2. start[2] # key[2]
          BY <1>3, <1>5, <3>3, <5>1, KeyFacts
        <5>3. k[2] <= key[2]
          BY <1>5, <1>6, <2>2, <5>1, <5>2
        <5> QED
          BY <1>5, <1>11, <2>2, <3>1, <5>1, <5>3
      <4>2. maptbl'[j] = maptbl[j]
        BY <1>9, <3>3, <4>1
      <4> QED
        BY <1>2, <2>2, <3>1, <4>2 DEF WrittenInOrder, mapped
    <3> QED
      BY <3>2, <3>3
  <2> QED
    BY <2>1, <2>2 DEF WrittenInOrder, mapped, ZoneOf
<1> QED
  BY <1>9, <1>13, <1>14, <1>15 DEF GransInv

\* A page is mapped at a granularity if the first page of that unit says so.
LEMMA MappedIs ==
  ASSUME NEW key \in Keys, MappedAt(key) # {}
  PROVE  LET i == CHOOSE i \in MappedAt(key) : \A j \in MappedAt(key) : i <= j
         IN  maptbl[Start(key, MAP_GRAN[i])] = MAP_GRAN[i]
<1>1. PICK M : M = MappedAt(key)
  OBVIOUS
<1>2. M \in SUBSET Nat /\ M # {}
  BY <1>1, GranFacts DEF MappedAt
<1>3. \E i \in M : \A j \in M : i <= j
  BY <1>2, LeastNumber
<1>4. PICK i : i = CHOOSE n \in M : \A j \in M : n <= j
  OBVIOUS
<1>5. i \in M
  BY <1>3, <1>4
<1>6. maptbl[Start(key, MAP_GRAN[i])] = MAP_GRAN[i]
  BY <1>1, <1>5 DEF MappedAt
<1> QED
  BY <1>1, <1>4, <1>6

\* What a read changes: nothing of the table, and nothing that the cache has of
\* the keys it had before.
LEMMA ReadGrans ==
  ASSUME Nested, GransInv, NEW key \in Keys, ReadHit(key) \/ ReadMiss(key), CacheInv'
  PROVE  GransInv'
<1>1. /\ CacheInv /\ Sound(cache, l2pcache_idx)
      /\ GranularityAgrees /\ WrittenInOrder /\ EndsAreSingle
  BY DEF GransInv, CacheInv
<1>2. maptbl' = maptbl
  BY DEF ReadHit, ReadMiss
<1>3. WrittenInOrder'
  BY <1>1, <1>2 DEF WrittenInOrder, mapped, ZoneOf
<1>4. CASE ReadHit(key)
  <2>1. PICK k, s : k = FoundAt(key) /\ s = SlotOf(k)
    OBVIOUS
  <2>2. k \in Keys /\ l2pcache_idx[k] # NIL /\ s \in Slots
    BY <1>4, <2>1, FoundIs, SlotOfKey DEF ReadHit
  <2>3. PICK c : SlotChain(cache, s, c) /\ \E p \in 1 .. cache.slot_len[s] : c[p] = l2pcache_idx[k]
    BY <1>1, <2>1, <2>2, OnChain
  <2>4. PICK p \in 1 .. cache.slot_len[s] : c[p] = l2pcache_idx[k]
    BY <2>3
  <2>5. cache' = l2p_access(cache, s, c[p]) /\ l2pcache_idx' = l2pcache_idx
    BY <1>4, <2>1, <2>4 DEF ReadHit
  <2>6. Relinked(cache, cache', s)
    BY <1>1, <2>2, <2>3, <2>5, AccessFacts DEF Sound
  <2>7. \A j \in Keys : l2pcache_idx[j] # NIL => l2pcache_idx[j] \in Indices /\ SlotOf(j) \in Slots
    BY <1>1, SlotOfKey DEF Sound
  <2>8. \A j \in Keys : l2pcache_idx[j] # NIL
                          => GranIn(cache', l2pcache_idx', j) = GranIn(cache, l2pcache_idx, j)
    BY <2>5, <2>6, <2>7 DEF Relinked, SameContent, GranIn
  <2>9. GranularityAgrees'
    <3>1. \A j \in Keys : l2pcache_idx'[j] # NIL /\ maptbl'[j] # UNMAPPED
                            => GranIn(cache', l2pcache_idx', j) = maptbl'[j]
      BY <1>1, <1>2, <2>5, <2>8, GransAre
    <3> QED
      BY <3>1 DEF GranularityAgrees, EntryOf, GranIn, mapped, SlotOf
  <2>10. EndsAreSingle'
    <3>1. \A j \in Keys : j[1] = TLC /\ EndsChunk(j) /\ l2pcache_idx'[j] # NIL
                            => GranIn(cache', l2pcache_idx', j) = "PAGE_MAP"
      BY <1>1, <2>5, <2>8 DEF EndsAreSingle
    <3> QED
      BY <3>1 DEF EndsAreSingle, GranIn, EndsChunk, SlotOf
  <2> QED
    BY <1>3, <2>9, <2>10 DEF GransInv
<1>5. CASE ReadMiss(key)
  <2>1. PICK i : i = CHOOSE n \in MappedAt(key) : \A j \in MappedAt(key) : n <= j
    OBVIOUS
  <2>2. PICK start, gran : start = Start(key, gran) /\ gran = MAP_GRAN[i]
    OBVIOUS
  <2>3. gran \in Grans /\ start \in Keys /\ l2pcache_idx[start] = NIL
    BY <1>5, <2>1, <2>2, MissIs DEF ReadMiss
  <2>4. maptbl[start] = gran
    BY <1>5, <2>1, <2>2, MappedIs DEF ReadMiss
  <2>5. PICK ins : ins = l2p_insert(start, gran)
    OBVIOUS
  <2>6. /\ cache' = IF ins.idx = NIL THEN ins.cache ELSE l2p_access(ins.cache, SlotOf(start), ins.idx)
        /\ l2pcache_idx' = Reindexed(ins, start)
    BY <1>5, <2>1, <2>2, <2>5 DEF ReadMiss
  <2>7. cache' = ins.cache
    BY <1>1, <2>3, <2>5, <2>6, InsertedIsLast
  <2>8. GranSet(cache, l2pcache_idx, cache', l2pcache_idx', start, gran)
    BY <1>1, <2>3, <2>5, <2>6, <2>7, InsertGran
  <2>9. GranularityAgrees'
    <3>1. ASSUME NEW k \in Keys, l2pcache_idx'[k] # NIL, maptbl'[k] # UNMAPPED
          PROVE  GranIn(cache', l2pcache_idx', k) = maptbl'[k]
      <4>1. CASE k = start
        BY <1>2, <2>4, <2>8, <3>1, <4>1 DEF GranSet
      <4>2. CASE k # start
        BY <1>1, <1>2, <2>8, <3>1, <4>2, GransAre DEF GranSet
      <4> QED
        BY <4>1, <4>2
    <3> QED
      BY <3>1 DEF GranularityAgrees, EntryOf, GranIn, mapped, SlotOf
  <2>10. EndsAreSingle'
    <3>1. start[1] = TLC /\ EndsChunk(start) => gran = "PAGE_MAP"
      BY <2>2, <2>3, StartInZone, StartIsNotLast
    <3> QED
      BY <1>1, <2>3, <2>8, <3>1, SingleKept
  <2> QED
    BY <1>3, <2>9, <2>10 DEF GransInv
<1> QED
  BY <1>4, <1>5

\* A reset unmaps the pages of one zone and leaves what the cache has of them.
LEMMA ResetZoneGrans ==
  ASSUME GransInv, NEW ns \in Namespaces, NEW zid, ResetZone(ns, zid), CacheInv'
  PROVE  GransInv'
<1>1. maptbl' = [k \in Keys |-> IF k[1] = ns /\ k[2] \div PgsPerZone[ns] = zid THEN UNMAPPED ELSE maptbl[k]]
  BY DEF ResetZone
<1>2. \A k \in Keys : maptbl'[k] = IF k[1] = ns /\ ZoneOf(k) = zid THEN UNMAPPED ELSE maptbl[k]
  BY <1>1 DEF ZoneOf
<1>3. cache' = cache /\ l2pcache_idx' = l2pcache_idx
  BY DEF ResetZone
<1>4. GranularityAgrees'
  <2>1. \A j \in Keys : l2pcache_idx'[j] # NIL /\ maptbl'[j] # UNMAPPED
                          => GranIn(cache', l2pcache_idx', j) = maptbl'[j]
    BY <1>2, <1>3, GransAre DEF GransInv
  <2> QED
    BY <2>1 DEF GranularityAgrees, EntryOf, GranIn, mapped, SlotOf
<1>5. EndsAreSingle'
  BY <1>3 DEF GransInv, EndsAreSingle, GranIn, EndsChunk, SlotOf
<1>6. WrittenInOrder'
  <2>1. ASSUME NEW j \in Keys, NEW k \in Keys, j[1] = TLC, k[1] = TLC, ZoneOf(j) = ZoneOf(k),
               j[2] <= k[2], maptbl'[k] # UNMAPPED
        PROVE  maptbl'[j] # UNMAPPED
    BY <1>2, <2>1 DEF GransInv, WrittenInOrder, mapped
  <2>2. ASSUME NEW j \in Keys, NEW k \in Keys, j[1] = TLC, k[1] = TLC, ZoneOf(j) = ZoneOf(k),
               k[2] = j[2] + 1, maptbl'[j] # UNMAPPED, maptbl'[k] = UNMAPPED
        PROVE  maptbl'[j] = "PAGE_MAP"
    BY <1>2, <2>2 DEF GransInv, WrittenInOrder, mapped
  <2> QED
    BY <2>1, <2>2 DEF WrittenInOrder, mapped, ZoneOf
<1> QED
  BY <1>4, <1>5, <1>6 DEF GransInv

\* Every step keeps the granularities.
LEMMA NextGransInv == Nested /\ GransInv /\ [Next]_vars => GransInv'
<1> SUFFICES ASSUME Nested, GransInv, [Next]_vars
             PROVE  GransInv'
  OBVIOUS
<1>1. CacheInv'
  BY NextCacheInv DEF GransInv
<1>2. CASE UNCHANGED vars
  BY <1>1, <1>2 DEF vars, GransInv, GranularityAgrees, WrittenInOrder, EndsAreSingle, EntryOf, GranIn, mapped,
                    ZoneOf, EndsChunk, SlotOf
<1> QED
  BY <1>1, <1>2, WritePageGrans, WriteReservedGrans, ReadGrans, ResetZoneGrans DEF Next

\* A granularity that changed in the table did not stay behind in the cache, if
\* chunks divide sub-zones and zones: whatever is mapped, evicted, read or reset
\* in between, the cache says of a mapped page what the table says.
THEOREM GranularitiesAgree == Nested => (Spec => []GranularityAgrees)
<1> SUFFICES ASSUME Nested PROVE Spec => []GranularityAgrees
  OBVIOUS
<1>1. Init => GransInv
  <2> SUFFICES ASSUME Init
               PROVE  GransInv
    OBVIOUS
  <2>1. \A k \in Keys : maptbl[k] = UNMAPPED /\ l2pcache_idx[k] = NIL
    BY DEF Init
  <2>2. GranularityAgrees /\ WrittenInOrder /\ EndsAreSingle
    BY <2>1 DEF GranularityAgrees, WrittenInOrder, EndsAreSingle, mapped
  <2> QED
    BY <2>2, InitCacheInv DEF GransInv
<1>2. GransInv => GranularityAgrees
  BY DEF GransInv
<1>3. GransInv /\ [Next]_vars => GransInv'
  BY NextGransInv
<1> QED
  BY <1>1, <1>2, <1>3, PTL DEF Spec
=============================================================================
