---------------------------- MODULE ZmsOnePlane -----------------------------
(***************************************************************************)
(* Lemmas about ZmsFtl for namespaces with one plane per die (Supported),  *)
(* whose erases leave no page written: each line is in one place, its      *)
(* counters are those of its pages, and the mapping tables join exactly    *)
(* the valid pages whatever writes, collections and resets a namespace     *)
(* goes through; where there is room it fits its lines, and what a zone    *)
(* holds changes as ZoneStore has it.  ZmsFtlProofs carries them over to   *)
(* any number of planes.  Order: sequences, counts and tables; the         *)
(* inductive invariant; sizes; one lemma per way a page or a line changes; *)
(* one per action; what the invariant says; room, and what can be read,    *)
(* the same way.                                                           *)
(***************************************************************************)
EXTENDS ZmsFtl, FiniteSetTheorems, TLAPS

Statuses == {"FREE", "VALID", "INVALID"}

Elems(s)    == {s[i] : i \in DOMAIN s}
Distinct(s) == \A i, j \in DOMAIN s : s[i] = s[j] => i = j

\* Pages of a line, at offsets O, that have status s.
Count(O, st, l, s) == Cardinality({i \in O : st[<<l, i>>] = s})

\* Mapping table mt of logical pages L and reverse map rm of pages Pg agree with
\* the pages' states st; pages B, beyond the tables, hold nothing.
Agree(L, Pg, B, mt, rm, st) ==
  /\ \A lpn \in L : mt[lpn] \in Pg => rm[mt[lpn]] = lpn
  /\ \A p \in Pg : IF st[p] = "VALID" THEN rm[p] \in L /\ mt[rm[p]] = p
                                      ELSE rm[p] = INVALID_LPN
  /\ \A p \in Pg : st[p] = "VALID" => p \notin B

-----------------------------------------------------------------------------
(* Sequences, counts and tables.                                           *)

LEMMA TailElems ==
  ASSUME NEW S, NEW s \in Seq(S), s # <<>>, Distinct(s)
  PROVE  /\ Tail(s) \in Seq(S) /\ Head(s) \in S
         /\ Head(s) \in Elems(s)
         /\ Elems(Tail(s)) = Elems(s) \ {Head(s)}
         /\ Distinct(Tail(s))
<1>1. Len(s) \in Nat \ {0} /\ DOMAIN s = 1 .. Len(s)
  OBVIOUS
<1>2. /\ Tail(s) \in Seq(S) /\ Len(Tail(s)) = Len(s) - 1
      /\ DOMAIN Tail(s) = 1 .. Len(s) - 1
      /\ \A i \in 1 .. Len(s) - 1 : Tail(s)[i] = s[i + 1]
      /\ Head(s) = s[1]
  BY <1>1
<1>3. Head(s) \in S /\ Head(s) \in Elems(s)
  BY <1>1, <1>2 DEF Elems
<1>4. Distinct(Tail(s))
  BY <1>1, <1>2 DEF Distinct
<1>5. ASSUME NEW x \in Elems(Tail(s)) PROVE x \in Elems(s) \ {Head(s)}
  <2>1. PICK i \in 1 .. Len(s) - 1 : x = s[i + 1]
    BY <1>2, <1>5 DEF Elems
  <2> QED
    BY <2>1, <1>1, <1>2 DEF Elems, Distinct
<1>6. ASSUME NEW x \in Elems(s), x # Head(s) PROVE x \in Elems(Tail(s))
  <2>1. PICK i \in 1 .. Len(s) : x = s[i]
    BY <1>1 DEF Elems
  <2>2. i - 1 \in 1 .. Len(s) - 1 /\ Tail(s)[i - 1] = x
    BY <2>1, <1>1, <1>2, <1>6
  <2> QED
    BY <2>2, <1>2 DEF Elems
<1> QED
  BY <1>2, <1>3, <1>4, <1>5, <1>6

LEMMA AppendElems ==
  ASSUME NEW S, NEW s \in Seq(S), NEW x \in S, x \notin Elems(s), Distinct(s)
  PROVE  /\ Append(s, x) \in Seq(S)
         /\ Elems(Append(s, x)) = Elems(s) \cup {x}
         /\ Distinct(Append(s, x))
<1>1. /\ Len(s) \in Nat /\ DOMAIN s = 1 .. Len(s)
      /\ Append(s, x) \in Seq(S) /\ DOMAIN Append(s, x) = 1 .. Len(s) + 1
      /\ \A i \in 1 .. Len(s) : Append(s, x)[i] = s[i]
      /\ Append(s, x)[Len(s) + 1] = x
  OBVIOUS
<1>2. Distinct(Append(s, x))
  BY <1>1 DEF Distinct, Elems
<1>3. ASSUME NEW y \in Elems(Append(s, x)) PROVE y \in Elems(s) \cup {x}
  <2>1. PICK i \in 1 .. Len(s) + 1 : y = Append(s, x)[i]
    BY <1>1, <1>3 DEF Elems
  <2> QED
    BY <2>1, <1>1 DEF Elems
<1>4. ASSUME NEW y \in Elems(s) \cup {x} PROVE y \in Elems(Append(s, x))
  <2>1. CASE y = x
    BY <2>1, <1>1 DEF Elems
  <2>2. CASE y # x
    <3>1. PICK i \in 1 .. Len(s) : y = s[i]
      BY <2>2, <1>1, <1>4 DEF Elems
    <3> QED
      BY <3>1, <1>1 DEF Elems
  <2> QED
    BY <2>1, <2>2
<1> QED
  BY <1>1, <1>2, <1>3, <1>4

LEMMA CountType ==
  ASSUME NEW P \in Nat, NEW O, O = 0 .. P - 1, NEW st, NEW l, NEW s
  PROVE  Count(O, st, l, s) \in 0 .. P
<1> DEFINE T == {i \in O : st[<<l, i>>] = s}
<1>1. IsFiniteSet(O) /\ Cardinality(O) = P
  BY FS_Interval
<1>2. T \in SUBSET O
  OBVIOUS
<1>3. IsFiniteSet(T) /\ Cardinality(T) <= P
  BY <1>1, <1>2, FS_Subset
<1>4. Cardinality(T) \in Nat
  BY <1>3, FS_CardinalityType
<1> QED
  BY <1>3, <1>4 DEF Count

\* None or all of the pages of a line.
LEMMA CountExtremes ==
  ASSUME NEW P \in Nat, NEW O, O = 0 .. P - 1, NEW st, NEW l, NEW s
  PROVE  /\ Count(O, st, l, s) = 0 <=> \A i \in O : st[<<l, i>>] # s
         /\ Count(O, st, l, s) = P <=> \A i \in O : st[<<l, i>>] = s
<1> DEFINE T == {i \in O : st[<<l, i>>] = s}
<1>1. IsFiniteSet(O) /\ Cardinality(O) = P
  BY FS_Interval
<1>2. T \in SUBSET O /\ IsFiniteSet(T)
  <2>1. T \in SUBSET O
    OBVIOUS
  <2> HIDE DEF T
  <2> QED
    BY <2>1, <1>1, FS_Subset
<1>3. Cardinality(T) = 0 <=> T = {}
  BY <1>2, FS_EmptySet
<1>4. Cardinality(T) = P => T = O
  <2> HIDE DEF T
  <2> QED
    BY <1>1, <1>2, FS_Subset
<1>5. (\A i \in O : st[<<l, i>>] = s) => T = O
  OBVIOUS
<1>6. T = O => Cardinality(T) = P
  BY <1>1
<1>7. T = O => \A i \in O : st[<<l, i>>] = s
  OBVIOUS
<1>8. T = {} <=> \A i \in O : st[<<l, i>>] # s
  OBVIOUS
<1> QED
  BY <1>3, <1>4, <1>5, <1>6, <1>7, <1>8 DEF Count

\* Every page has one of three states.
LEMMA CountSum ==
  ASSUME NEW P \in Nat, NEW O, O = 0 .. P - 1, NEW st, NEW l,
         \A i \in O : st[<<l, i>>] \in Statuses
  PROVE  Count(O, st, l, "FREE") + Count(O, st, l, "VALID") + Count(O, st, l, "INVALID") = P
<1> DEFINE T(s) == {i \in O : st[<<l, i>>] = s}
<1>1. IsFiniteSet(O) /\ Cardinality(O) = P
  BY FS_Interval
<1>2. \A s : IsFiniteSet(T(s)) /\ Cardinality(T(s)) \in Nat
  <2>1. \A s : T(s) \in SUBSET O
    OBVIOUS
  <2> HIDE DEF T
  <2> QED
    BY <2>1, <1>1, FS_Subset, FS_CardinalityType
<1>3. O = T("FREE") \cup (T("VALID") \cup T("INVALID"))
  BY DEF Statuses
<1>4. /\ T("VALID") \cap T("INVALID") = {}
      /\ T("FREE") \cap (T("VALID") \cup T("INVALID")) = {}
  OBVIOUS
<1> DEFINE A == T("FREE")
           B == T("VALID")
           C == T("INVALID")
<1>5. Cardinality(A) + Cardinality(B) + Cardinality(C) = Cardinality(O)
  <2> HIDE DEF T
  <2>1. /\ IsFiniteSet(B \cup C)
        /\ Cardinality(B \cup C) = Cardinality(B) + Cardinality(C) - Cardinality(B \cap C)
    BY <1>2, FS_Union
  <2>2. Cardinality(A \cup (B \cup C))
          = Cardinality(A) + Cardinality(B \cup C) - Cardinality(A \cap (B \cup C))
    BY <1>2, <2>1, FS_Union DEF A
  <2>3. Cardinality({}) = 0
    BY FS_EmptySet
  <2> HIDE DEF A, B, C
  <2>4. A \cap (B \cup C) = {} /\ B \cap C = {} /\ O = A \cup (B \cup C)
    BY <1>3, <1>4 DEF A, B, C
  <2>5. Cardinality(A) \in Nat /\ Cardinality(B) \in Nat /\ Cardinality(C) \in Nat
    BY <1>2 DEF A, B, C
  <2>6. Cardinality(B \cap C) = 0 /\ Cardinality(A \cap (B \cup C)) = 0
    BY <2>3, <2>4, Zenon
  <2>7. Cardinality(A \cup (B \cup C)) = Cardinality(O)
    BY <2>4, Zenon
  <2> QED
    BY <2>1, <2>2, <2>5, <2>6, <2>7
<1> QED
  BY <1>1, <1>5 DEF Count

\* Only the pages of a line count for it.
LEMMA CountSame ==
  ASSUME NEW O, NEW st, NEW st2, NEW l, NEW s, \A i \in O : st2[<<l, i>>] = st[<<l, i>>]
  PROVE  Count(O, st2, l, s) = Count(O, st, l, s)
<1>1. {i \in O : st2[<<l, i>>] = s} = {i \in O : st[<<l, i>>] = s}
  OBVIOUS
<1> QED
  BY <1>1 DEF Count

\* Of the pages of line l at offsets O, the one at o alone goes to state v.
Moves(O, st, st2, l, o, v) ==
  /\ o \in O /\ st[<<l, o>>] # v /\ st2[<<l, o>>] = v
  /\ \A i \in O \ {o} : st2[<<l, i>>] = st[<<l, i>>]

LEMMA CountMoves ==
  ASSUME NEW P \in Nat, NEW O, O = 0 .. P - 1, NEW st, NEW st2, NEW l, NEW o, NEW v,
         Moves(O, st, st2, l, o, v)
  PROVE  /\ Count(O, st2, l, v) = Count(O, st, l, v) + 1
         /\ Count(O, st2, l, st[<<l, o>>]) = Count(O, st, l, st[<<l, o>>]) - 1
         /\ \A s : s # v /\ s # st[<<l, o>>] => Count(O, st2, l, s) = Count(O, st, l, s)
<1> DEFINE r == st[<<l, o>>]
           T(s) == {i \in O : st[<<l, i>>] = s}
           U(s) == {i \in O : st2[<<l, i>>] = s}
<1>1. \A s : IsFiniteSet(T(s)) /\ Cardinality(T(s)) \in Nat
  <2>1. \A s : T(s) \in SUBSET O
    OBVIOUS
  <2>2. IsFiniteSet(O)
    BY FS_Interval
  <2> HIDE DEF T
  <2> QED
    BY <2>1, <2>2, FS_Subset, FS_CardinalityType
<1>2. U(v) = T(v) \cup {o} /\ o \notin T(v)
  BY DEF Moves
<1>3. U(r) = T(r) \ {o} /\ o \in T(r)
  BY DEF Moves
<1>4. \A s : s # v /\ s # r => U(s) = T(s)
  BY DEF Moves
<1> HIDE DEF T, U
<1>5. Cardinality(U(v)) = Cardinality(T(v)) + 1
  BY <1>1, <1>2, FS_AddElement
<1>6. Cardinality(U(r)) = Cardinality(T(r)) - 1
  BY <1>1, <1>3, FS_RemoveElement
<1>7. \A s : Count(O, st, l, s) = Cardinality(T(s)) /\ Count(O, st2, l, s) = Cardinality(U(s))
  BY DEF Count, T, U
<1> QED
  BY <1>4, <1>5, <1>6, <1>7

\* A logical page that is nowhere is put at a free page.
LEMMA AgreePut ==
  ASSUME NEW L, NEW Pg, NEW B, NEW mt, NEW rm, NEW st,
         DOMAIN mt = L, DOMAIN rm = Pg, DOMAIN st = Pg,
         Agree(L, Pg, B, mt, rm, st), INVALID_LPN \notin L,
         NEW lpn \in L, NEW p \in Pg, st[p] # "VALID", p \notin B, mt[lpn] \notin Pg
  PROVE  Agree(L, Pg, B, [mt EXCEPT ![lpn] = p], [rm EXCEPT ![p] = lpn],
               [st EXCEPT ![p] = "VALID"])
BY DEF Agree

\* A logical page is taken from page old, where it is.
Takes(lpn, old, mt, rm, st, mt2, rm2, st2) ==
  /\ mt[lpn] = old
  /\ mt2 = [mt EXCEPT ![lpn] = UNMAPPED_PPA]
  /\ rm2 = [rm EXCEPT ![old] = INVALID_LPN]
  /\ st2 = [st EXCEPT ![old] = "INVALID"]

LEMMA AgreeDrop ==
  ASSUME NEW L, NEW Pg, NEW B, NEW mt, NEW rm, NEW st,
         DOMAIN mt = L, DOMAIN rm = Pg, DOMAIN st = Pg,
         Agree(L, Pg, B, mt, rm, st), INVALID_LPN \notin L, UNMAPPED_PPA \notin Pg,
         NEW lpn \in L, NEW old \in Pg, NEW mt2, NEW rm2, NEW st2,
         Takes(lpn, old, mt, rm, st, mt2, rm2, st2)
  PROVE  st[old] = "VALID" /\ old \notin B /\ Agree(L, Pg, B, mt2, rm2, st2)
BY DEF Agree, Takes

\* Pages that are not valid become free, logical pages that are nowhere change
\* their mark.
LEMMA AgreeQuiet ==
  ASSUME NEW L, NEW Pg, NEW B, NEW mt, NEW rm, NEW st, NEW mt2, NEW st2,
         Agree(L, Pg, B, mt, rm, st), INVALID_LPN \notin L,
         \A p \in Pg : st2[p] = "VALID" <=> st[p] = "VALID",
         \A lpn \in L : mt2[lpn] = mt[lpn] \/ (mt[lpn] \notin Pg /\ mt2[lpn] \notin Pg)
  PROVE  Agree(L, Pg, B, mt2, rm, st2)
BY DEF Agree
-----------------------------------------------------------------------------
(* The inductive invariant.                                                *)

\* A die has one plane, and a host resets only zones it has written out where
\* zones are mapped as a whole.
Supported ==
  \A n \in Namespaces : n.planes = 1 /\ (n.mapping = "ZONE" => ~n.partialReset)

Beyond    == {p \in Pages : OutOfRange(p)}
GcLines   == IF job.kind = "gc" THEN {job.at[1]} ELSE {}
LeftLines == full \cup victim \cup GcLines
Under(w)  == IF wp[w] = NoPage THEN {} ELSE {wp[w][1]}

Types ==
  /\ ns \in Namespaces
  /\ maptbl \in [Lpns -> Pages \cup {UNMAPPED_PPA, RSV_PPA}]
  /\ rmap \in [Pages -> Lpns \cup {INVALID_LPN}]
  /\ status \in [Pages -> Statuses]
  /\ free \in Seq(Lines)
  /\ full \subseteq Lines /\ victim \subseteq Lines
  /\ wp \in [Writers -> Pages \cup {NoPage}]
  /\ noSpace \in BOOLEAN /\ halted \in BOOLEAN
  /\ credits \in Int /\ refill \in 0 .. PgsPerLine
  /\ written \in [Zones -> 0 .. PgsPerLine]
  /\ job \in [kind : JobKinds, at : (Zones \X (0 .. PgsPerLine)) \cup {NoPage},
              first : Lines \cup {NoLine}]

\* Every line is in one place: on the free list, under a write pointer, on the
\* full list, in the queue of victims or being collected.
Census ==
  /\ Distinct(free)
  /\ \A v, w \in Writers : v # w => Under(v) \cap Under(w) = {}
  /\ \A w \in Writers : Under(w) \cap (Elems(free) \cup LeftLines) = {}
  /\ Elems(free) \cap LeftLines = {}
  /\ full \cap victim = {} /\ GcLines \cap (full \cup victim) = {}
  /\ \A l \in Lines : l \in Elems(free) \cup LeftLines \/ \E w \in Writers : l \in Under(w)

\* The counters are those of page states st.
Counted(st, vp, ip, rp) ==
  /\ vp = [l \in Lines |-> Count(Offs, st, l, "VALID")]
  /\ ip = [l \in Lines |-> Count(Offs, st, l, "INVALID")]
  /\ rp = [l \in Lines |-> IF l \in LeftLines THEN Count(Offs, st, l, "FREE") ELSE 0]

\* What the place of a line says of its pages: a write pointer goes through its
\* line in order, and only lines it has left have invalid pages counted against
\* them.
OnLines(st) ==
  /\ \A l \in Elems(free), o \in Offs : st[<<l, o>>] = "FREE"
  /\ \A w \in Writers : wp[w] # NoPage =>
       \A o \in Offs : st[<<wp[w][1], o>>] = "FREE" <=> o >= wp[w][2]
  /\ \A l \in full, o \in Offs : st[<<l, o>>] # "INVALID"
  /\ \A l \in victim \cup GcLines : \E o \in Offs : st[<<l, o>>] = "INVALID"
  /\ Mapping = "PAGE" => \A l \in LeftLines, o \in Offs : st[<<l, o>>] # "FREE"

\* While there is space, the next pages are within the tables.
InRange ==
  ~noSpace => /\ \A w \in Writers : wp[w] \notin Beyond
              /\ Mapping = "ZONE" => \A l \in LeftLines, o \in Offs : <<l, o>> \notin Beyond

JobOK ==
  /\ job.kind \in {"gc", "reset", "erase"} => job.at \in Lines \X (0 .. PgsPerLine)
  /\ job.kind = "gc" => \A o \in Offs : o < job.at[2] => status[<<job.at[1], o>>] # "VALID"
  /\ job.kind \in {"reset", "erase"} /\ job.first # NoLine =>
       \E o \in Offs : status[<<job.first, o>>] = "INVALID"

\* Page mapping: a zone is mapped up to its write pointer, from where a reset
\* of it stands.
PageZones ==
  Mapping = "PAGE" /\ ~noSpace =>
    \A z \in Zones, i \in Offs :
      maptbl[<<z, i>>] \in Pages <=> i < written[z] /\ ~(Resetting(z) /\ i < job.at[2])

\* Zone mapping: a zone with data has a line of its own, its pages in order,
\* the rest reserved.
ZoneAt(z, l) ==
  \A i \in Offs : IF i < written[z] THEN maptbl[<<z, i>>] = <<l, i>>
                  ELSE maptbl[<<z, i>>] = RSV_PPA /\ status[<<l, i>>] = "FREE"

\* The reset of a zone invalidates that line page by page and erases it.
ZoneLeaves(z, k) ==
  /\ \A i \in Offs : i < k => maptbl[<<z, i>>] \notin Pages
  /\ k < PgsPerLine => \E l \in Lines :
       /\ job.kind = "reset"
       /\ \A i \in Offs : IF i < k THEN status[<<l, i>>] = "INVALID"
                                   ELSE maptbl[<<z, i>>] = <<l, i>>
       /\ IF k = 0 THEN victim = {} /\ l \in full /\ job.first = NoLine
                   ELSE victim = {l} /\ job.first = l
  /\ k = PgsPerLine =>
       \/ /\ job.kind = "erase" /\ victim = {job.first}
          /\ \A i \in Offs : status[<<job.first, i>>] = "INVALID"
       \/ job.kind = "reset" /\ victim = {} /\ job.first = NoLine

LineZones ==
  Mapping = "ZONE" =>
    /\ wp["GC"] = NoPage
    /\ wp["USER"] # NoPage => wp["USER"][2] = 0
    /\ job.kind # "gc"
    /\ job.kind \notin {"reset", "erase"} => victim = {}
    /\ \A z \in Zones :
         IF Resetting(z) THEN ZoneLeaves(z, job.at[2])
         ELSE IF written[z] = 0 THEN \A i \in Offs : maptbl[<<z, i>>] \notin Pages
         ELSE \E l \in full : ZoneAt(z, l)

FtlInv ==
  /\ Types /\ Census /\ Counted(status, vpc, ipc, rpc) /\ OnLines(status) /\ InRange
  /\ Agree(Lpns, Pages, Beyond, maptbl, rmap, status)
  /\ JobOK /\ PageZones /\ LineZones

-----------------------------------------------------------------------------
(* Sizes.                                                                  *)

\* What is used of the sizes of a namespace.
Geometry ==
  /\ PgsPerLine \in Nat \ {0} /\ Offs = 0 .. PgsPerLine - 1
  /\ Lines = 0 .. NrLines - 1 /\ Lines \subseteq Nat /\ Zones = Lines
  /\ Mapping \in {"PAGE", "ZONE"}
  /\ \A p \in Pages : p[1] \in Lines /\ p[2] \in Offs /\ p = <<p[1], p[2]>>
  /\ \A l \in Lines, o \in Offs : <<l, o>> \in Pages
  /\ \A z \in Zones, o \in Offs : <<z, o>> \in Lpns
  /\ \A lpn \in Lpns : lpn[1] \in Zones /\ lpn[2] \in Offs /\ lpn = <<lpn[1], lpn[2]>>
  /\ UNMAPPED_PPA \notin Pages /\ RSV_PPA \notin Pages /\ INVALID_LPN \notin Lpns
  /\ NoPage \notin Pages /\ NoPage = UNMAPPED_PPA /\ NoLine \notin Lines
  /\ Beyond \subseteq Pages
  /\ \A p \in Pages : OutOfRange(p) <=> p \in Beyond
  /\ \A l \in Lines : <<l, 0>> \notin Beyond
  /\ \A l \in Lines, i, j \in Offs : i <= j /\ <<l, j>> \notin Beyond => <<l, i>> \notin Beyond

\* The namespace does not change.
LEMMA NamespaceStays ==
  ASSUME ns' = ns
  PROVE  /\ Lines' = Lines /\ Zones' = Zones /\ Offs' = Offs /\ Pages' = Pages
         /\ Lpns' = Lpns /\ Beyond' = Beyond /\ PgsPerLine' = PgsPerLine /\ Mapping' = Mapping
         /\ NrLines' = NrLines
BY DEF Lines, Zones, Offs, Pages, Lpns, Beyond, PgsPerLine, Mapping, NrLines, OutOfRange,
       PgIdx, PgsPerRow, LineGroups

\* Remainder and quotient.
LEMMA Division ==
  ASSUME NEW a \in Nat, NEW b \in Nat \ {0}
  PROVE  /\ a \div b \in Nat /\ a % b \in 0 .. b - 1 /\ a = b * (a \div b) + (a % b)
OBVIOUS

LEMMA ProductMonotone ==
  ASSUME NEW a \in Nat, NEW b \in Nat, NEW c \in Nat, a <= b
  PROVE  a * c <= b * c /\ a * c \in Nat
OBVIOUS

\* A product is not below a factor.
LEMMA Multiple ==
  ASSUME NEW P \in Nat \ {0}, NEW W \in Nat \ {0}, P % W = 0
  PROVE  W <= P
OBVIOUS

\* PgIdx for lines of P pages in groups of G, rows of R pages.
Index(P, G, R, l, o) == l * P + (o \div R) * G * R + (l % G) * R + (o % R)

\* The first page of a line is within the tables, and so is every page before
\* one that is.
LEMMA IndexBounds ==
  ASSUME NEW N \in Nat \ {0}, NEW P \in Nat \ {0}, NEW G \in Nat \ {0}, NEW R \in Nat \ {0},
         P % (G * R) = 0, NEW l \in 0 .. N - 1
  PROVE  /\ Index(P, G, R, l, 0) < N * P
         /\ \A i, j \in 0 .. P - 1 : i <= j => Index(P, G, R, l, i) <= Index(P, G, R, l, j)
<1> DEFINE Idx(o) == l * P + (o \div R) * G * R + (l % G) * R + (o % R)
<1>1. G * R \in Nat \ {0} /\ R <= G * R
  BY SMT
<1>2. G * R <= P
  BY <1>1, Multiple
<1>3. Idx(0) < N * P
  <2>1. 0 \div R = 0 /\ 0 % R = 0
    OBVIOUS
  <2>2. l % G \in 0 .. G - 1
    BY Division
  <2>3. (l % G) * R <= (G - 1) * R /\ (l % G) * R \in Nat
    BY <2>2, ProductMonotone
  <2>4. (G - 1) * R = G * R - R
    OBVIOUS
  <2>5. (l % G) * R < P
    BY <2>3, <2>4, <1>1, <1>2
  <2>6. (l + 1) * P <= N * P /\ (l + 1) * P = l * P + P /\ l * P \in Nat
    BY ProductMonotone
  <2>7. Idx(0) = l * P + (l % G) * R
    <3>1. 0 * G * R = 0
      OBVIOUS
    <3> QED
      BY <2>1, <2>3, <2>6, <3>1
  <2> QED
    BY <2>5, <2>6, <2>7, <2>3
<1>4. ASSUME NEW i \in 0 .. P - 1, NEW j \in 0 .. P - 1, i <= j PROVE Idx(i) <= Idx(j)
  <2> DEFINE a == i \div R
             b == j \div R
             W == G * R
             c == i % R
             d == j % R
  <2>1. /\ a \in Nat /\ b \in Nat /\ c \in 0 .. R - 1 /\ d \in 0 .. R - 1
        /\ i = R * a + c /\ j = R * b + d
    <3>1. i \in Nat /\ j \in Nat
      OBVIOUS
    <3> QED
      BY <3>1, Division
  <2> HIDE DEF a, b, c, d
  <2>2. a <= b
    <3>1. SUFFICES ASSUME b + 1 <= a PROVE FALSE
      BY <2>1
    <3>2. (b + 1) * R <= a * R /\ (b + 1) * R = R * b + R /\ a * R = R * a
      BY <2>1, <3>1, ProductMonotone
    <3>3. R * a \in Nat /\ R * b \in Nat
      BY <2>1
    <3> QED
      BY <2>1, <3>2, <3>3, <1>4
  <2>3. a * W + c <= b * W + d
    <3>1. CASE a = b
      <4>1. R * a \in Nat /\ a * W \in Nat
        BY <2>1, <1>1
      <4> QED
        BY <2>1, <3>1, <4>1, <1>4
    <3>2. CASE a + 1 <= b
      <4>1. (a + 1) * W <= b * W /\ (a + 1) * W = a * W + W /\ a * W \in Nat /\ b * W \in Nat
        BY <2>1, <1>1, <3>2, ProductMonotone
      <4> QED
        BY <2>1, <4>1, <1>1
    <3> QED
      BY <2>1, <2>2, <3>1, <3>2
  <2>4. a * G * R = a * W /\ b * G * R = b * W
    BY <2>1
  <2>5. /\ l * P \in Nat /\ (l % G) * R \in Nat /\ a * W \in Nat /\ b * W \in Nat
    <3>1. l % G \in 0 .. G - 1
      BY Division
    <3> QED
      BY <2>1, <3>1, <1>1
  <2> QED
    BY <2>1, <2>3, <2>4, <2>5 DEF a, b, c, d
<1> QED
  BY <1>3, <1>4 DEF Index

LEMMA GeometryHolds ==
  ASSUME ns \in Namespaces
  PROVE  Geometry
<1>1. /\ PgsPerLine \in Nat \ {0} /\ NrLines \in Nat \ {0}
      /\ LineGroups \in Nat \ {0} /\ PgsPerRow \in Nat \ {0}
      /\ PgsPerLine % (LineGroups * PgsPerRow) = 0
      /\ Mapping \in {"PAGE", "ZONE"}
  BY NamespaceAssumption DEF PgsPerLine, NrLines, LineGroups, PgsPerRow, Mapping
<1>2. \A l \in Lines : <<l, 0>> \notin Beyond
  <2> SUFFICES ASSUME NEW l \in Lines PROVE ~OutOfRange(<<l, 0>>)
    BY DEF Beyond
  <2>1. l \in 0 .. NrLines - 1
    BY DEF Lines
  <2>2. PgIdx(<<l, 0>>) < NrLines * PgsPerLine
    <3>1. Index(PgsPerLine, LineGroups, PgsPerRow, l, 0) < NrLines * PgsPerLine
      BY <1>1, <2>1, IndexBounds
    <3> QED
      BY <3>1 DEF PgIdx, Index
  <2>3. PgIdx(<<l, 0>>) \in Int /\ NrLines * PgsPerLine \in Int
    <3>1. 0 \div PgsPerRow \in Int /\ 0 % PgsPerRow \in Int /\ l % LineGroups \in Int
      BY <1>1, <2>1
    <3> QED
      BY <1>1, <2>1, <3>1 DEF PgIdx
  <2> QED
    BY <2>2, <2>3 DEF OutOfRange
<1>3. ASSUME NEW l \in Lines, NEW i \in Offs, NEW j \in Offs, i <= j, <<l, j>> \notin Beyond
      PROVE  <<l, i>> \notin Beyond
  <2>1. l \in 0 .. NrLines - 1 /\ i \in 0 .. PgsPerLine - 1 /\ j \in 0 .. PgsPerLine - 1
    BY DEF Lines, Offs
  <2>2. PgIdx(<<l, i>>) <= PgIdx(<<l, j>>)
    <3> DEFINE Idx(o) == Index(PgsPerLine, LineGroups, PgsPerRow, l, o)
    <3>1. Idx(i) <= Idx(j)
      BY <1>1, <1>3, <2>1, IndexBounds
    <3>2. PgIdx(<<l, i>>) = Idx(i) /\ PgIdx(<<l, j>>) = Idx(j)
      BY DEF PgIdx, Index
    <3> QED
      BY <3>1, <3>2
  <2>3. PgIdx(<<l, i>>) \in Int /\ PgIdx(<<l, j>>) \in Int /\ NrLines * PgsPerLine \in Int
    <3>1. /\ i \div PgsPerRow \in Int /\ i % PgsPerRow \in Int /\ l % LineGroups \in Int
          /\ j \div PgsPerRow \in Int /\ j % PgsPerRow \in Int
      BY <1>1, <2>1
    <3> QED
      BY <1>1, <2>1, <3>1 DEF PgIdx
  <2>4. ~OutOfRange(<<l, j>>)
    BY <1>3 DEF Beyond, Pages
  <2> QED
    BY <2>2, <2>3, <2>4 DEF OutOfRange, Beyond
<1>4. Offs = 0 .. PgsPerLine - 1 /\ Lines = 0 .. NrLines - 1 /\ Zones = Lines
  BY DEF Offs, Lines, Zones
<1>5. /\ \A p \in Pages : p[1] \in Lines /\ p[2] \in Offs /\ p = <<p[1], p[2]>>
      /\ \A l \in Lines, o \in Offs : <<l, o>> \in Pages
  BY DEF Pages
<1>6. /\ \A z \in Zones, o \in Offs : <<z, o>> \in Lpns
      /\ \A lpn \in Lpns : lpn[1] \in Zones /\ lpn[2] \in Offs /\ lpn = <<lpn[1], lpn[2]>>
  BY DEF Lpns
<1>7. -1 \notin Lines
  BY <1>1, <1>4
<1>8. UNMAPPED_PPA \notin Pages /\ RSV_PPA \notin Pages /\ INVALID_LPN \notin Lpns
  BY <1>4, <1>5, <1>6, <1>7 DEF UNMAPPED_PPA, RSV_PPA, INVALID_LPN
<1>9. Beyond \subseteq Pages /\ \A p \in Pages : OutOfRange(p) <=> p \in Beyond
  BY DEF Beyond
<1> QED
  BY <1>1, <1>2, <1>3, <1>4, <1>5, <1>6, <1>7, <1>8, <1>9 DEF Geometry, NoPage, NoLine
-----------------------------------------------------------------------------
(* Write pointers and lines.                                               *)

\* The page a write pointer stands on, or would: p, with fr the free lines that
\* are left.  Its line is nowhere else, and is free from p on.
Opened(w, p, fr, st) ==
  /\ p \in Pages /\ p[1] \in Lines /\ p[2] \in Offs
  /\ fr \in Seq(Lines) /\ Distinct(fr)
  /\ p[1] \notin Elems(fr) \cup LeftLines
  /\ Elems(fr) \subseteq Elems(free)
  /\ \A v \in Writers : v # w => p[1] \notin Under(v)
  /\ \A l \in Lines : l \in Elems(fr) \cup LeftLines \cup {p[1]} \/ \E v \in Writers \ {w} : l \in Under(v)
  /\ \A o \in Offs : st[<<p[1], o>>] = "FREE" <=> o >= p[2]
  /\ st[p] = "FREE"
  /\ ~noSpace => p \notin Beyond
  /\ wp[w] # NoPage => p = wp[w]

LEMMA OpenedHolds ==
  ASSUME Geometry, Types, Census, NEW st, OnLines(st), InRange,
         NEW w \in Writers, CanOpen(w)
  PROVE  Opened(w, PageOf(w), FreeLeft(w), st)
<1> DEFINE p  == PageOf(w)
           fr == FreeLeft(w)
<1>1. CASE wp[w] # NoPage
  <2>1. p = wp[w] /\ fr = free
    BY <1>1 DEF PageOf, FreeLeft
  <2>2. wp[w] \in Pages
    BY <1>1 DEF Types
  <2>3. p \in Pages /\ p[1] \in Lines /\ p[2] \in Offs /\ p = <<p[1], p[2]>>
    BY <2>1, <2>2 DEF Geometry
  <2>4. Under(w) = {p[1]}
    BY <1>1, <2>1 DEF Under
  <2>5. p[1] \notin Elems(free) \cup LeftLines /\ \A v \in Writers : v # w => p[1] \notin Under(v)
    BY <2>4 DEF Census
  <2>6. \A l \in Lines : l \in Elems(fr) \cup LeftLines \cup {p[1]} \/ \E v \in Writers \ {w} : l \in Under(v)
    BY <2>1, <2>4 DEF Census
  <2>7. \A o \in Offs : st[<<p[1], o>>] = "FREE" <=> o >= p[2]
    BY <1>1, <2>1 DEF OnLines
  <2>8. st[p] = "FREE"
    <3>1. p[2] >= p[2]
      BY <2>3 DEF Geometry
    <3> QED
      BY <2>3, <2>7, <3>1
  <2>9. ~noSpace => p \notin Beyond
    BY <2>1 DEF InRange
  <2> QED
    BY <2>1, <2>3, <2>5, <2>6, <2>7, <2>8, <2>9 DEF Opened, Types, Census
<1>2. CASE wp[w] = NoPage
  <2>1. p = <<Head(free), 0>> /\ fr = Tail(free) /\ free # <<>>
    BY <1>2 DEF PageOf, FreeLeft, CanOpen
  <2>2. /\ fr \in Seq(Lines) /\ Head(free) \in Lines /\ Head(free) \in Elems(free)
        /\ Elems(fr) = Elems(free) \ {Head(free)} /\ Distinct(fr)
    BY <2>1, TailElems DEF Types, Census
  <2>3. p \in Pages /\ p[1] = Head(free) /\ p[2] = 0 /\ 0 \in Offs
    BY <2>1, <2>2 DEF Geometry
  <2>4. Under(w) = {}
    BY <1>2 DEF Under
  <2>5. p[1] \notin Elems(fr) \cup LeftLines /\ \A v \in Writers : v # w => p[1] \notin Under(v)
    BY <2>2, <2>3 DEF Census
  <2>6. \A l \in Lines : l \in Elems(fr) \cup LeftLines \cup {p[1]} \/ \E v \in Writers \ {w} : l \in Under(v)
    BY <2>2, <2>3, <2>4 DEF Census
  <2>7. \A o \in Offs : st[<<p[1], o>>] = "FREE" /\ o >= 0
    BY <2>2, <2>3 DEF OnLines, Geometry
  <2>8. p \notin Beyond
    BY <2>1, <2>2 DEF Geometry
  <2> QED
    BY <1>2, <2>1, <2>2, <2>3, <2>5, <2>6, <2>7, <2>8 DEF Opened
<1> QED
  BY <1>1, <1>2

\* What a write at a write pointer keeps of the invariant: lists and write
\* pointers.
WriterMoved ==
  /\ free' \in Seq(Lines) /\ full' \subseteq Lines /\ victim' \subseteq Lines
  /\ wp' \in [Writers -> Pages \cup {NoPage}] /\ noSpace' \in BOOLEAN
  /\ halted' \in BOOLEAN
  /\ Census' /\ OnLines(status)'
  /\ ~noSpace' => \A v \in Writers : wp'[v] \notin Beyond

\* The pages of line l were written, and the counters tell whether one of them is
\* invalid; no other line has changed since st.
UsedUp(l, st) ==
  /\ \A k \in Lines \ {l}, o \in Offs : status'[<<k, o>>] = st[<<k, o>>]
  /\ NothingInvalid(l) <=> \A o \in Offs : status'[<<l, o>>] # "INVALID"
  /\ Mapping = "PAGE" => \A o \in Offs : status'[<<l, o>>] # "FREE"

\* get_new_wp and get_new_page.
LEMMA LeaveLineKeeps ==
  ASSUME Geometry, ns' = ns, Types, Census, InRange, JobOK, NEW st, OnLines(st),
         NEW w \in Writers, NEW p, Opened(w, p, FreeLeft(w), st),
         GcLines' = GcLines, ~noSpace, LeaveLine(w, p[1]), UsedUp(p[1], st)
  PROVE  /\ WriterMoved
         /\ LeftLines' = LeftLines \cup {p[1]}
         /\ \A v \in Writers \ {w} : wp'[v] = wp[v]
         /\ wp'[w] # NoPage => wp'[w][2] = 0
         /\ ~noSpace' => <<p[1], PgsPerLine - 1>> \notin Beyond
         /\ (NothingInvalid(p[1]) => full' = full \cup {p[1]} /\ victim' = victim)
         /\ (~NothingInvalid(p[1]) => full' = full /\ victim' = victim \cup {p[1]})
<1> DEFINE l0 == p[1]
           fr == FreeLeft(w)
<1>0. ns' = ns /\ Lines' = Lines /\ Offs' = Offs /\ Pages' = Pages /\ Mapping' = Mapping /\ Beyond' = Beyond
  BY NamespaceStays
<1>c. /\ \A l \in Lines \ {l0}, o \in Offs : status'[<<l, o>>] = st[<<l, o>>]
      /\ NothingInvalid(l0) <=> \A o \in Offs : status'[<<l0, o>>] # "INVALID"
      /\ Mapping = "PAGE" => \A o \in Offs : status'[<<l0, o>>] # "FREE"
  BY DEF UsedUp
<1>1. /\ p \in Pages /\ l0 \in Lines /\ fr \in Seq(Lines) /\ Distinct(fr)
      /\ l0 \notin Elems(fr) \cup LeftLines /\ Elems(fr) \subseteq Elems(free)
      /\ \A v \in Writers : v # w => l0 \notin Under(v)
      /\ \A l \in Lines : l \in Elems(fr) \cup LeftLines \cup {l0} \/ \E v \in Writers \ {w} : l \in Under(v)
  BY DEF Opened
<1>a. GcLines \subseteq Lines
  BY DEF GcLines, JobOK
<1>b. /\ \A l \in Elems(free), o \in Offs : st[<<l, o>>] = "FREE"
      /\ \A l \in full, o \in Offs : st[<<l, o>>] # "INVALID"
      /\ \A l \in victim \cup GcLines : \E o \in Offs : st[<<l, o>>] = "INVALID"
      /\ Mapping = "PAGE" => \A l \in LeftLines, o \in Offs : st[<<l, o>>] # "FREE"
  BY DEF OnLines
<1>2. /\ full' = (IF NothingInvalid(l0) THEN full \cup {l0} ELSE full)
      /\ victim' = (IF NothingInvalid(l0) THEN victim ELSE victim \cup {l0})
  BY DEF LeaveLine
<1>3. LeftLines' = LeftLines \cup {l0}
  BY <1>2 DEF LeftLines
<1>4. \A v \in Writers : v # w => wp'[v] = wp[v] /\ Under(v)' = Under(v)
  BY DEF LeaveLine, Types, Under
<1>5. \/ /\ fr = <<>> /\ free' = fr /\ wp' = [wp EXCEPT ![w] = NoPage] /\ noSpace' = TRUE /\ halted' = TRUE
         /\ Under(w)' = {}
      \/ /\ fr # <<>> /\ free' = Tail(fr) /\ wp' = [wp EXCEPT ![w] = <<Head(fr), 0>>]
         /\ noSpace' = (OutOfRange(<<l0, PgsPerLine - 1>>) \/ OutOfRange(<<Head(fr), 0>>))
         /\ halted' = halted
         /\ Head(fr) \in Lines /\ Head(fr) \in Elems(fr) /\ <<Head(fr), 0>> \in Pages
         /\ Elems(free)' = Elems(fr) \ {Head(fr)} /\ Distinct(free') /\ free' \in Seq(Lines)
         /\ Under(w)' = {Head(fr)}
  <2>1. CASE fr = <<>>
    BY <2>1 DEF LeaveLine, Types, Under
  <2>2. CASE fr # <<>>
    <3>1. /\ free' = Tail(fr) /\ wp' = [wp EXCEPT ![w] = <<Head(fr), 0>>]
          /\ noSpace' = (OutOfRange(<<l0, PgsPerLine - 1>>) \/ OutOfRange(<<Head(fr), 0>>))
          /\ halted' = halted
      BY <2>2 DEF LeaveLine
    <3>2. /\ Tail(fr) \in Seq(Lines) /\ Head(fr) \in Lines /\ Head(fr) \in Elems(fr)
          /\ Elems(Tail(fr)) = Elems(fr) \ {Head(fr)} /\ Distinct(Tail(fr))
      BY <1>1, <2>2, TailElems
    <3>3. Elems(free)' = Elems(Tail(fr))
      BY <3>1 DEF Elems
    <3>4. <<Head(fr), 0>> \in Pages
      BY <3>2 DEF Geometry
    <3>5. Under(w)' = {Head(fr)}
      <4>1. wp'[w] = <<Head(fr), 0>>
        BY <3>1 DEF Types
      <4> QED
        BY <4>1, <3>4 DEF Under, Geometry
    <3> QED
      BY <2>2, <3>1, <3>2, <3>3, <3>4, <3>5
  <2> QED
    BY <2>1, <2>2
<1>6. /\ free' \in Seq(Lines) /\ Distinct(free') /\ noSpace' \in BOOLEAN /\ halted' \in BOOLEAN
      /\ wp' \in [Writers -> Pages \cup {NoPage}]
      /\ Elems(free)' \subseteq Elems(fr)
      /\ Under(w)' \subseteq Elems(fr) /\ Under(w)' \cap Elems(free)' = {}
      /\ \A l \in Elems(fr) : l \in Elems(free)' \/ l \in Under(w)'
  <2>1. CASE fr = <<>>
    BY <1>1, <1>5, <2>1 DEF Types, Elems
  <2>2. CASE fr # <<>>
    <3>1. /\ free' = Tail(fr) /\ wp' = [wp EXCEPT ![w] = <<Head(fr), 0>>]
          /\ halted' = halted
          /\ noSpace' = (OutOfRange(<<l0, PgsPerLine - 1>>) \/ OutOfRange(<<Head(fr), 0>>))
          /\ Head(fr) \in Lines /\ Head(fr) \in Elems(fr) /\ <<Head(fr), 0>> \in Pages
          /\ Elems(free)' = Elems(fr) \ {Head(fr)} /\ Distinct(free') /\ free' \in Seq(Lines)
          /\ Under(w)' = {Head(fr)}
      BY <1>5, <2>2, Zenon
    <3>2. noSpace' \in BOOLEAN
      BY <3>1, Zenon
    <3>3. halted' \in BOOLEAN /\ wp' \in [Writers -> Pages \cup {NoPage}]
      BY <3>1 DEF Types
    <3> QED
      BY <3>1, <3>2, <3>3
  <2> QED
    BY <2>1, <2>2
<1>7. Census'
  <2>1. \A u, v \in Writers : u # v => Under(u)' \cap Under(v)' = {}
    BY <1>1, <1>4, <1>6 DEF Census
  <2>2. \A v \in Writers : Under(v)' \cap (Elems(free)' \cup LeftLines') = {}
    BY <1>1, <1>3, <1>4, <1>6 DEF Census
  <2>3. Elems(free)' \cap LeftLines' = {}
    BY <1>1, <1>3, <1>6 DEF Census
  <2>4. full' \cap victim' = {} /\ GcLines' \cap (full' \cup victim') = {}
    BY <1>1, <1>2 DEF Census, LeftLines
  <2>5. \A l \in Lines : l \in Elems(free)' \cup LeftLines' \/ \E v \in Writers : l \in Under(v)'
    BY <1>1, <1>3, <1>4, <1>6
  <2> QED
    BY <1>0, <1>6, <2>1, <2>2, <2>3, <2>4, <2>5 DEF Census
<1>8. wp'[w] # NoPage => wp'[w][2] = 0 /\ wp'[w][1] \in Elems(fr)
  BY <1>5 DEF Types
<1>9. ~noSpace' => (\A v \in Writers : wp'[v] \notin Beyond) /\ <<l0, PgsPerLine - 1>> \notin Beyond
  <2> SUFFICES ASSUME ~noSpace'
               PROVE  (\A v \in Writers : wp'[v] \notin Beyond) /\ <<l0, PgsPerLine - 1>> \notin Beyond
    OBVIOUS
  <2>1. /\ wp' = [wp EXCEPT ![w] = <<Head(fr), 0>>] /\ <<Head(fr), 0>> \in Pages
        /\ ~OutOfRange(<<l0, PgsPerLine - 1>>) /\ ~OutOfRange(<<Head(fr), 0>>)
    BY <1>5, Zenon
  <2>3. wp'[w] = <<Head(fr), 0>>
    <3>1. DOMAIN wp = Writers
      BY DEF Types
    <3> QED
      BY <1>c, <2>1, <3>1
  <2>2. <<l0, PgsPerLine - 1>> \in Pages
    BY <1>1 DEF Geometry
  <2> QED
    BY <1>4, <2>1, <2>2, <2>3 DEF Geometry, InRange
<1>10. \A l \in Elems(free)', o \in Offs : status'[<<l, o>>] = "FREE"
  <2>1. \A l \in Elems(fr) : l \in Lines \ {l0} /\ l \in Elems(free)
    <3>1. Elems(fr) \subseteq Lines
      BY <1>1 DEF Elems
    <3> QED
      BY <1>1, <3>1
  <2> SUFFICES ASSUME NEW l \in Elems(free)', NEW o \in Offs PROVE status'[<<l, o>>] = "FREE"
    OBVIOUS
  <2>2. l \in Elems(fr)
    BY <1>6
  <2>3. l \in Lines \ {l0} /\ l \in Elems(free)
    BY <2>1, <2>2
  <2> QED
    BY <1>b, <1>c, <2>3
<1>11. \A v \in Writers : wp'[v] # NoPage =>
         \A o \in Offs : status'[<<wp'[v][1], o>>] = "FREE" <=> o >= wp'[v][2]
  <2> SUFFICES ASSUME NEW v \in Writers, wp'[v] # NoPage, NEW o \in Offs
               PROVE  status'[<<wp'[v][1], o>>] = "FREE" <=> o >= wp'[v][2]
    OBVIOUS
  <2>1. CASE v = w
    <3>1. wp'[w][1] \in Elems(free) /\ wp'[w][1] \in Lines \ {l0} /\ wp'[w][2] = 0
      <4>1. Elems(fr) \subseteq Lines
        BY <1>1 DEF Elems
      <4> QED
        BY <1>1, <1>8, <2>1, <4>1
    <3>2. o >= 0
      BY DEF Geometry
    <3> QED
      BY <1>b, <1>c, <2>1, <3>1, <3>2
  <2>2. CASE v # w
    <3>1. wp'[v] = wp[v] /\ wp[v] \in Pages /\ wp[v][1] \in Under(v)
      BY <1>4, <2>2 DEF Types, Under
    <3>2. wp[v][1] \in Lines \ {l0}
      BY <1>1, <2>2, <3>1 DEF Geometry
    <3> QED
      BY <1>c, <3>1, <3>2 DEF OnLines
  <2> QED
    BY <2>1, <2>2
<1>12. \A l \in full', o \in Offs : status'[<<l, o>>] # "INVALID"
  <2> SUFFICES ASSUME NEW l \in full', NEW o \in Offs PROVE status'[<<l, o>>] # "INVALID"
    OBVIOUS
  <2>1. CASE l = l0
    <3>1. NothingInvalid(l0)
      BY <1>1, <1>2, <2>1 DEF LeftLines
    <3> QED
      BY <1>c, <2>1, <3>1
  <2>2. CASE l # l0
    <3>1. l \in full /\ l \in Lines
      BY <1>2, <2>2 DEF Types
    <3> QED
      BY <1>b, <1>c, <2>2, <3>1
  <2> QED
    BY <2>1, <2>2
<1>13. \A l \in (victim \cup GcLines)' : \E o \in Offs : status'[<<l, o>>] = "INVALID"
  <2> SUFFICES ASSUME NEW l \in (victim \cup GcLines)' PROVE \E o \in Offs : status'[<<l, o>>] = "INVALID"
    OBVIOUS
  <2>1. CASE l = l0
    <3>1. ~NothingInvalid(l0)
      BY <1>1, <1>2, <2>1 DEF LeftLines
    <3> QED
      BY <1>c, <2>1, <3>1
  <2>2. CASE l # l0
    <3>1. l \in victim \cup GcLines
      BY <1>2, <2>2
    <3>2. l \in Lines
      BY <1>a, <3>1 DEF Types
    <3> QED
      BY <1>b, <1>c, <2>2, <3>1, <3>2
  <2> QED
    BY <2>1, <2>2
<1>14. Mapping = "PAGE" => \A l \in LeftLines', o \in Offs : status'[<<l, o>>] # "FREE"
  <2> SUFFICES ASSUME Mapping = "PAGE", NEW l \in LeftLines', NEW o \in Offs PROVE status'[<<l, o>>] # "FREE"
    OBVIOUS
  <2>1. CASE l = l0
    BY <1>c, <2>1
  <2>2. CASE l # l0
    <3>1. l \in LeftLines
      BY <1>3, <2>2
    <3>2. l \in Lines
      BY <1>a, <3>1 DEF Types, LeftLines
    <3> QED
      BY <1>b, <1>c, <2>2, <3>1, <3>2
  <2> QED
    BY <2>1, <2>2
<1>15. full' \subseteq Lines /\ victim' \subseteq Lines
  BY <1>1, <1>2 DEF Types
<1>16. OnLines(status)'
  BY <1>0, <1>10, <1>11, <1>12, <1>13, <1>14 DEF OnLines
<1>17. WriterMoved
  BY <1>6, <1>7, <1>9, <1>15, <1>16 DEF WriterMoved
<1> QED
  BY <1>2, <1>3, <1>4, <1>8, <1>9, <1>17

\* Of all pages, p goes to another state v.
Turns(st, st2, p, v) == st[p] # v /\ st2 = [st EXCEPT ![p] = v]

\* The counts of its line change, of no other.
LEMMA CountPage ==
  ASSUME Geometry, NEW st \in [Pages -> Statuses], NEW p \in Pages, NEW v \in Statuses,
         NEW st2, Turns(st, st2, p, v), NEW l \in Lines
  PROVE  /\ l # p[1] => \A s : Count(Offs, st2, l, s) = Count(Offs, st, l, s)
         /\ l = p[1] => /\ Count(Offs, st2, l, v) = Count(Offs, st, l, v) + 1
                        /\ Count(Offs, st2, l, st[p]) = Count(Offs, st, l, st[p]) - 1
                        /\ \A s : s # v /\ s # st[p] =>
                             Count(Offs, st2, l, s) = Count(Offs, st, l, s)
<1>1. /\ PgsPerLine \in Nat /\ Offs = 0 .. PgsPerLine - 1
      /\ p[1] \in Lines /\ p[2] \in Offs /\ p = <<p[1], p[2]>>
      /\ \A i \in Offs : <<l, i>> \in Pages
  BY DEF Geometry
<1>2. st[p] # v /\ st2[p] = v /\ \A q \in Pages : q # p => st2[q] = st[q]
  BY DEF Turns
<1>3. CASE l # p[1]
  <2>1. \A i \in Offs : st2[<<l, i>>] = st[<<l, i>>]
    <3> SUFFICES ASSUME NEW i \in Offs PROVE st2[<<l, i>>] = st[<<l, i>>]
      OBVIOUS
    <3>1. <<l, i>> # p
      BY <1>1, <1>3
    <3> QED
      BY <1>1, <1>2, <3>1
  <2> QED
    BY <1>3, <2>1, CountSame
<1>4. CASE l = p[1]
  <2> DEFINE o == p[2]
  <2>1. o \in Offs /\ st[<<l, o>>] = st[p] /\ st2[<<l, o>>] = v /\ st[<<l, o>>] # v
    BY <1>1, <1>2, <1>4
  <2>2. \A i \in Offs \ {o} : st2[<<l, i>>] = st[<<l, i>>]
    <3> SUFFICES ASSUME NEW i \in Offs \ {o} PROVE st2[<<l, i>>] = st[<<l, i>>]
      OBVIOUS
    <3>1. <<l, i>> # p
      BY <1>1
    <3> QED
      BY <1>1, <1>2, <3>1
  <2> HIDE DEF o
  <2>3. Moves(Offs, st, st2, l, o, v)
    BY <2>1, <2>2 DEF Moves
  <2>4. /\ Count(Offs, st2, l, v) = Count(Offs, st, l, v) + 1
        /\ Count(Offs, st2, l, st[<<l, o>>]) = Count(Offs, st, l, st[<<l, o>>]) - 1
        /\ \A s : s # v /\ s # st[<<l, o>>] => Count(Offs, st2, l, s) = Count(Offs, st, l, s)
    BY <1>1, <2>3, CountMoves
  <2> QED
    BY <1>4, <2>1, <2>4
<1> QED
  BY <1>3, <1>4

\* What counts say of a line.
LEMMA CountFacts ==
  ASSUME Geometry, NEW st \in [Pages -> Statuses], NEW l \in Lines
  PROVE  /\ Count(Offs, st, l, "FREE") + Count(Offs, st, l, "VALID")
              + Count(Offs, st, l, "INVALID") = PgsPerLine
         /\ \A s : /\ Count(Offs, st, l, s) \in 0 .. PgsPerLine
                   /\ Count(Offs, st, l, s) = 0 <=> \A o \in Offs : st[<<l, o>>] # s
                   /\ Count(Offs, st, l, s) = PgsPerLine <=> \A o \in Offs : st[<<l, o>>] = s
<1>1. /\ PgsPerLine \in Nat /\ Offs = 0 .. PgsPerLine - 1
      /\ \A i \in Offs : st[<<l, i>>] \in Statuses
  BY DEF Geometry
<1>2. Count(Offs, st, l, "FREE") + Count(Offs, st, l, "VALID")
        + Count(Offs, st, l, "INVALID") = PgsPerLine
  BY <1>1, CountSum
<1>3. \A s : /\ Count(Offs, st, l, s) \in 0 .. PgsPerLine
             /\ Count(Offs, st, l, s) = 0 <=> \A o \in Offs : st[<<l, o>>] # s
             /\ Count(Offs, st, l, s) = PgsPerLine <=> \A o \in Offs : st[<<l, o>>] = s
  BY <1>1, CountType, CountExtremes
<1> QED
  BY <1>2, <1>3

\* A line all of whose pages were written has as many valid pages as pages
\* exactly when none is invalid.
LEMMA WrittenOut ==
  ASSUME Geometry, NEW st \in [Pages -> Statuses], NEW l \in Lines,
         \A o \in Offs : st[<<l, o>>] # "FREE"
  PROVE  Count(Offs, st, l, "VALID") + 0 = PgsPerLine
           <=> \A o \in Offs : st[<<l, o>>] # "INVALID"
<1> DEFINE C(s) == Count(Offs, st, l, s)
<1>1. /\ C("FREE") + C("VALID") + C("INVALID") = PgsPerLine
      /\ \A s : /\ C(s) \in 0 .. PgsPerLine
                /\ C(s) = 0 <=> \A o \in Offs : st[<<l, o>>] # s
  BY CountFacts
<1>2. PgsPerLine \in Nat
  BY DEF Geometry
<1> HIDE DEF C
<1>3. C("FREE") = 0
  BY <1>1
<1>4. C("VALID") + 0 = PgsPerLine <=> C("INVALID") = 0
  BY <1>1, <1>2, <1>3
<1>5. C("VALID") + 0 = PgsPerLine <=> \A o \in Offs : st[<<l, o>>] # "INVALID"
  BY <1>1, <1>4
<1> QED
  BY <1>5 DEF C

\* advance_write_pointer after a page was written, page mapping.
LEMMA AdvanceKeeps ==
  ASSUME Geometry, ns' = ns, Types, Census, InRange, JobOK, Mapping = "PAGE",
         NEW st \in [Pages -> Statuses], OnLines(st),
         NEW w \in Writers, NEW p, Opened(w, p, FreeLeft(w), st),
         GcLines' = GcLines, ~noSpace, Advance(w, p),
         status' = [st EXCEPT ![p] = "VALID"],
         vpc'[p[1]] = Count(Offs, status', p[1], "VALID"), rpc'[p[1]] = 0
  PROVE  /\ WriterMoved
         /\ LeftLines' = IF p[2] = PgsPerLine - 1 THEN LeftLines \cup {p[1]} ELSE LeftLines
         /\ p[2] = PgsPerLine - 1 => \A o \in Offs : status'[<<p[1], o>>] # "FREE"
<1>0. Lines' = Lines /\ Offs' = Offs /\ Pages' = Pages /\ Mapping' = Mapping
  BY NamespaceStays
<1>1. /\ p \in Pages /\ p[1] \in Lines /\ p[2] \in Offs /\ p = <<p[1], p[2]>>
      /\ PgsPerLine \in Nat \ {0} /\ Offs = 0 .. PgsPerLine - 1
      /\ p[1] \notin LeftLines /\ st[p] = "FREE"
      /\ \A o \in Offs : st[<<p[1], o>>] = "FREE" <=> o >= p[2]
  BY DEF Opened, Geometry
<1>2. /\ status' \in [Pages -> Statuses]
      /\ status'[p] = "VALID"
      /\ \A q \in Pages : q # p => status'[q] = st[q]
  BY <1>1 DEF Statuses
<1>3. \A l \in Lines \ {p[1]}, o \in Offs : status'[<<l, o>>] = st[<<l, o>>]
  <2> SUFFICES ASSUME NEW l \in Lines \ {p[1]}, NEW o \in Offs PROVE status'[<<l, o>>] = st[<<l, o>>]
    OBVIOUS
  <2>1. <<l, o>> \in Pages /\ <<l, o>> # p
    BY <1>1 DEF Geometry
  <2> QED
    BY <1>2, <2>1
<1>4. \A o \in Offs : o # p[2] => status'[<<p[1], o>>] = st[<<p[1], o>>]
  BY <1>1, <1>2 DEF Geometry
<1>5. \A o \in Offs : status'[<<p[1], o>>] = "FREE" <=> o >= p[2] + 1
  BY <1>1, <1>2, <1>4
<1>6. CASE p[2] = PgsPerLine - 1
  <2>1. LeaveLine(w, p[1])
    BY <1>6 DEF Advance
  <2>2. \A o \in Offs : status'[<<p[1], o>>] # "FREE"
    BY <1>1, <1>5, <1>6
  <2>3. NothingInvalid(p[1]) <=> \A o \in Offs : status'[<<p[1], o>>] # "INVALID"
    <3>1. NothingInvalid(p[1]) <=> Count(Offs, status', p[1], "VALID") + 0 = PgsPerLine
      BY DEF NothingInvalid
    <3>2. status' \in [Pages -> Statuses] /\ p[1] \in Lines
      BY <1>1, <1>2
    <3> QED
      BY <2>2, <3>1, <3>2, WrittenOut
  <2>4. UsedUp(p[1], st)
    BY <1>3, <2>2, <2>3 DEF UsedUp
  <2>5. WriterMoved /\ LeftLines' = LeftLines \cup {p[1]}
    BY <2>1, <2>4, LeaveLineKeeps
  <2> QED
    BY <1>6, <2>2, <2>5
<1>7. CASE p[2] # PgsPerLine - 1
  <2> DEFINE next == <<p[1], p[2] + 1>>
  <2>1. /\ wp' = [wp EXCEPT ![w] = next] /\ free' = FreeLeft(w)
        /\ noSpace' = (OutOfRange(p) \/ OutOfRange(next))
        /\ full' = full /\ victim' = victim /\ halted' = halted
    BY <1>7 DEF Advance, NextPage
  <2>2. p[2] + 1 \in Offs /\ next \in Pages /\ next # NoPage
    BY <1>1, <1>7 DEF Geometry
  <2>3. noSpace' \in BOOLEAN
    BY <2>1, Zenon
  <2>4. LeftLines' = LeftLines
    BY <2>1 DEF LeftLines
  <2>5. wp' \in [Writers -> Pages \cup {NoPage}] /\ wp'[w] = next /\ \A v \in Writers \ {w} : wp'[v] = wp[v]
    BY <2>1, <2>2 DEF Types
  <2>6. ~noSpace' => \A v \in Writers : wp'[v] \notin Beyond
    <3>1. ~noSpace' => ~OutOfRange(next)
      BY <2>1, Zenon
    <3>2. ~noSpace' => next \notin Beyond
      BY <2>2, <3>1 DEF Beyond
    <3>3. \A v \in Writers \ {w} : wp'[v] \notin Beyond
      BY <2>5 DEF InRange
    <3> HIDE DEF next
    <3> QED
      BY <2>5, <3>2, <3>3
  <2>7. Under(w)' = {p[1]} /\ \A v \in Writers \ {w} : Under(v)' = Under(v)
    BY <2>2, <2>5 DEF Under
  <2>8. Elems(free)' = Elems(FreeLeft(w)) /\ free' \in Seq(Lines) /\ Distinct(free')
    BY <2>1 DEF Opened, Elems
  <2>9. Census'
    <3>1. \A u, v \in Writers : u # v => Under(u)' \cap Under(v)' = {}
      BY <2>7 DEF Census, Opened
    <3>2. \A v \in Writers : Under(v)' \cap (Elems(free)' \cup LeftLines') = {}
      BY <2>4, <2>7, <2>8 DEF Census, Opened
    <3>3. Elems(free)' \cap LeftLines' = {}
      BY <2>4, <2>8 DEF Census, Opened
    <3>4. full' \cap victim' = {} /\ GcLines' \cap (full' \cup victim') = {}
      BY <2>1 DEF Census
    <3>5. \A l \in Lines : l \in Elems(free)' \cup LeftLines' \/ \E v \in Writers : l \in Under(v)'
      BY <2>4, <2>7, <2>8 DEF Opened
    <3> QED
      BY <1>0, <2>8, <3>1, <3>2, <3>3, <3>4, <3>5 DEF Census
  <2>10. OnLines(status)'
    <3>1. \A l \in Elems(free)', o \in Offs : status'[<<l, o>>] = "FREE"
      <4>1. \A l \in Elems(FreeLeft(w)) : l \in Lines \ {p[1]} /\ l \in Elems(free)
        <5>1. Elems(FreeLeft(w)) \subseteq Lines
          BY DEF Elems, Opened
        <5> QED
          BY <5>1 DEF Opened
      <4> SUFFICES ASSUME NEW l \in Elems(free)', NEW o \in Offs PROVE status'[<<l, o>>] = "FREE"
        OBVIOUS
      <4>2. l \in Lines \ {p[1]} /\ l \in Elems(free)
        BY <2>8, <4>1
      <4> QED
        BY <1>3, <4>2 DEF OnLines
    <3>2. ASSUME NEW v \in Writers, wp'[v] # NoPage, NEW o \in Offs
          PROVE  status'[<<wp'[v][1], o>>] = "FREE" <=> o >= wp'[v][2]
      <4>1. CASE v = w
        BY <1>5, <2>5, <4>1
      <4>2. CASE v # w
        <5>1. wp'[v] = wp[v] /\ wp[v] \in Pages /\ wp[v][1] \in Lines
          BY <2>5, <3>2, <4>2 DEF Types, Geometry
        <5>2. wp[v][1] # p[1]
          BY <3>2, <4>2, <5>1 DEF Opened, Under
        <5> QED
          BY <1>3, <3>2, <5>1, <5>2 DEF OnLines
      <4> QED
        BY <4>1, <4>2
    <3>3. \A l \in LeftLines : l \in Lines \ {p[1]}
      <4>1. GcLines \subseteq Lines
        BY DEF GcLines, JobOK
      <4> QED
        BY <1>1, <4>1 DEF LeftLines, Types
    <3>4. \A l \in full, o \in Offs : status'[<<l, o>>] # "INVALID"
      <4> SUFFICES ASSUME NEW l \in full, NEW o \in Offs PROVE status'[<<l, o>>] # "INVALID"
        OBVIOUS
      <4>1. l \in Lines \ {p[1]} /\ st[<<l, o>>] # "INVALID"
        BY <3>3 DEF LeftLines, OnLines
      <4> QED
        BY <1>3, <4>1
    <3>5. \A l \in victim \cup GcLines : \E o \in Offs : status'[<<l, o>>] = "INVALID"
      <4> SUFFICES ASSUME NEW l \in victim \cup GcLines
                   PROVE  \E o \in Offs : status'[<<l, o>>] = "INVALID"
        OBVIOUS
      <4>1. l \in Lines \ {p[1]} /\ \E o \in Offs : st[<<l, o>>] = "INVALID"
        BY <3>3 DEF LeftLines, OnLines
      <4> QED
        BY <1>3, <4>1
    <3>6. \A l \in LeftLines, o \in Offs : status'[<<l, o>>] # "FREE"
      <4> SUFFICES ASSUME NEW l \in LeftLines, NEW o \in Offs PROVE status'[<<l, o>>] # "FREE"
        OBVIOUS
      <4>1. l \in Lines \ {p[1]} /\ st[<<l, o>>] # "FREE"
        BY <3>3 DEF OnLines
      <4> QED
        BY <1>3, <4>1
    <3> QED
      BY <1>0, <2>1, <2>4, <3>1, <3>2, <3>4, <3>5, <3>6 DEF OnLines
  <2> QED
    BY <1>7, <2>1, <2>3, <2>4, <2>5, <2>6, <2>8, <2>9, <2>10 DEF WriterMoved, Types
<1> QED
  BY <1>6, <1>7
-----------------------------------------------------------------------------
(* Tables.                                                                 *)

\* The tables and what they agree on.
Tables(mt, rm, st) ==
  /\ mt \in [Lpns -> Pages \cup {UNMAPPED_PPA, RSV_PPA}]
  /\ rm \in [Pages -> Lpns \cup {INVALID_LPN}]
  /\ st \in [Pages -> Statuses]
  /\ Agree(Lpns, Pages, Beyond, mt, rm, st)

\* PutPage at a free page within the tables.
LEMMA PutPageKeeps ==
  ASSUME Geometry, ns' = ns, NEW mt, NEW rm, NEW st, Tables(mt, rm, st), NEW vp,
         vp = [l \in Lines |-> Count(Offs, st, l, "VALID")],
         NEW lpn \in Lpns, NEW p \in Pages, st[p] = "FREE", p \notin Beyond, mt[lpn] \notin Pages,
         PutPage(lpn, p, mt, rm, st, vp)
  PROVE  /\ maptbl' = [mt EXCEPT ![lpn] = p] /\ status' = [st EXCEPT ![p] = "VALID"]
         /\ Tables(maptbl, rmap, status)'
         /\ vpc' = [l \in Lines |-> Count(Offs, status', l, "VALID")]
         /\ \A l \in Lines : Count(Offs, status', l, "INVALID") = Count(Offs, st, l, "INVALID")
         /\ \A l \in Lines : Count(Offs, status', l, "FREE")
                               = IF l = p[1] THEN Count(Offs, st, l, "FREE") - 1
                                             ELSE Count(Offs, st, l, "FREE")
<1>0. Lines' = Lines /\ Offs' = Offs /\ Pages' = Pages /\ Lpns' = Lpns /\ Beyond' = Beyond
  BY NamespaceStays
<1>1. /\ maptbl' = [mt EXCEPT ![lpn] = p] /\ rmap' = [rm EXCEPT ![p] = lpn]
      /\ status' = [st EXCEPT ![p] = "VALID"] /\ vpc' = [vp EXCEPT ![p[1]] = @ + 1]
  BY DEF PutPage, SetRmap, MarkValid, CountValid, Geometry
<1>2. /\ mt \in [Lpns -> Pages \cup {UNMAPPED_PPA, RSV_PPA}]
      /\ rm \in [Pages -> Lpns \cup {INVALID_LPN}]
      /\ st \in [Pages -> Statuses]
      /\ Agree(Lpns, Pages, Beyond, mt, rm, st)
  BY DEF Tables
<1>3. Agree(Lpns, Pages, Beyond, maptbl', rmap', status')
  <2>1. DOMAIN mt = Lpns /\ DOMAIN rm = Pages /\ DOMAIN st = Pages /\ st[p] # "VALID"
    BY <1>2
  <2>2. Agree(Lpns, Pages, Beyond, [mt EXCEPT ![lpn] = p], [rm EXCEPT ![p] = lpn],
              [st EXCEPT ![p] = "VALID"])
    BY <1>2, <2>1, AgreePut DEF Geometry
  <2> QED
    BY <1>1, <2>2
<1>4. /\ maptbl' \in [Lpns -> Pages \cup {UNMAPPED_PPA, RSV_PPA}]
      /\ rmap' \in [Pages -> Lpns \cup {INVALID_LPN}]
      /\ status' \in [Pages -> Statuses]
  BY <1>1, <1>2 DEF Statuses
<1>5. Tables(maptbl, rmap, status)'
  <2>1. Agree(Lpns, Pages, Beyond, maptbl, rmap, status)'
    BY <1>0, <1>3 DEF Agree
  <2> QED
    BY <1>0, <1>4, <2>1 DEF Tables
<1>6. ASSUME NEW l \in Lines
      PROVE  /\ Count(Offs, status', l, "VALID") = IF l = p[1] THEN Count(Offs, st, l, "VALID") + 1
                                                              ELSE Count(Offs, st, l, "VALID")
             /\ Count(Offs, status', l, "INVALID") = Count(Offs, st, l, "INVALID")
             /\ Count(Offs, status', l, "FREE") = IF l = p[1] THEN Count(Offs, st, l, "FREE") - 1
                                                             ELSE Count(Offs, st, l, "FREE")
  <2> DEFINE st2 == status'
  <2>1. Turns(st, st2, p, "VALID")
    BY <1>1 DEF Turns
  <2> HIDE DEF st2
  <2>2. "VALID" \in Statuses
    BY DEF Statuses
  <2>3. /\ l # p[1] => \A s : Count(Offs, st2, l, s) = Count(Offs, st, l, s)
        /\ l = p[1] => /\ Count(Offs, st2, l, "VALID") = Count(Offs, st, l, "VALID") + 1
                       /\ Count(Offs, st2, l, st[p]) = Count(Offs, st, l, st[p]) - 1
                       /\ \A s : s # "VALID" /\ s # st[p] =>
                            Count(Offs, st2, l, s) = Count(Offs, st, l, s)
    BY <1>2, <2>1, <2>2, CountPage
  <2>4. st[p] = "FREE"
    OBVIOUS
  <2> QED
    BY <2>3, <2>4 DEF st2
<1>7. vpc' = [l \in Lines |-> Count(Offs, status', l, "VALID")]
  <2>1. p[1] \in Lines
    BY DEF Geometry
  <2>2. /\ vpc' = [vp EXCEPT ![p[1]] = @ + 1] /\ DOMAIN vp = Lines
        /\ \A l \in Lines : vp[l] = Count(Offs, st, l, "VALID")
    BY <1>1
  <2>3. \A l \in Lines : vpc'[l] = Count(Offs, status', l, "VALID")
    BY <1>6, <2>1, <2>2
  <2>4. vpc' = [l \in Lines |-> vpc'[l]]
    BY <2>2
  <2> QED
    BY <2>3, <2>4
<1> QED
  BY <1>1, <1>5, <1>6, <1>7

-----------------------------------------------------------------------------
(* Writing a page, page mapping.                                           *)

\* No line with a reserved page is left, in whichever place p's line is.
LEMMA ReservedStay ==
  ASSUME Geometry, rpc' = rpc, status' \in [Pages -> Statuses], NEW p \in Pages,
         rpc = [l \in Lines |-> IF l \in LeftLines THEN Count(Offs, status, l, "FREE") ELSE 0],
         p[1] \notin LeftLines,
         LeftLines' = IF p[2] = PgsPerLine - 1 THEN LeftLines \cup {p[1]} ELSE LeftLines,
         p[2] = PgsPerLine - 1 => \A o \in Offs : status'[<<p[1], o>>] # "FREE",
         \A l \in Lines : l # p[1] =>
           Count(Offs, status', l, "FREE") = Count(Offs, status, l, "FREE")
  PROVE  rpc' = [l \in Lines |-> IF l \in LeftLines' THEN Count(Offs, status', l, "FREE") ELSE 0]
<1>1. ASSUME NEW l \in Lines
      PROVE  rpc'[l] = IF l \in LeftLines' THEN Count(Offs, status', l, "FREE") ELSE 0
  <2>1. CASE l = p[1]
    <3>1. rpc'[l] = 0
      BY <2>1
    <3>2. l \in LeftLines' => \A o \in Offs : status'[<<l, o>>] # "FREE"
      BY <2>1
    <3>3. Count(Offs, status', l, "FREE") = 0 <=> \A o \in Offs : status'[<<l, o>>] # "FREE"
      <4> DEFINE st2 == status'
      <4>1. st2 \in [Pages -> Statuses]
        OBVIOUS
      <4> HIDE DEF st2
      <4>2. \A s : Count(Offs, st2, l, s) = 0 <=> \A o \in Offs : st2[<<l, o>>] # s
        BY <4>1, CountFacts
      <4> QED
        BY <4>2 DEF st2
    <3> QED
      BY <3>1, <3>2, <3>3
  <2>2. CASE l # p[1]
    BY <2>2
  <2> QED
    BY <2>1, <2>2
<1>2. rpc' = [l \in Lines |-> rpc'[l]]
  OBVIOUS
<1> QED
  BY <1>1, <1>2

LEMMA WritePageKeeps ==
  ASSUME FtlInv, ns' = ns, NEW z \in Zones, WritePage(z)
  PROVE  FtlInv'
<1>0. Lines' = Lines /\ Zones' = Zones /\ Offs' = Offs /\ Pages' = Pages /\ Lpns' = Lpns
      /\ Beyond' = Beyond /\ PgsPerLine' = PgsPerLine /\ Mapping' = Mapping
  BY NamespaceStays
<1>1. /\ Types /\ Census /\ Counted(status, vpc, ipc, rpc) /\ OnLines(status) /\ InRange
      /\ Agree(Lpns, Pages, Beyond, maptbl, rmap, status)
      /\ JobOK /\ PageZones
  BY DEF FtlInv
<1>2. Geometry
  BY <1>1, GeometryHolds DEF Types
<1> DEFINE lpn == <<z, written[z]>>
           p   == PageOf("USER")
<1>3. /\ Mapping = "PAGE" /\ job = Idle /\ ~noSpace /\ written[z] < PgsPerLine /\ CanOpen("USER")
      /\ PutPage(lpn, p, maptbl, rmap, status, vpc) /\ ipc' = ipc /\ rpc' = rpc
      /\ Advance("USER", p) /\ written' = [written EXCEPT ![z] = @ + 1]
  BY DEF WritePage, CanWrite
<1>4. /\ credits' \in Int /\ refill' \in 0 .. PgsPerLine
      /\ job' = [Idle EXCEPT !.kind = "collect"] \/ job' = Idle
  BY <1>1 DEF WritePage, Charge, Types
<1>5. /\ job'.kind \in {"idle", "collect"} /\ job'.at = NoPage /\ job'.first = NoLine
      /\ job' \in [kind : JobKinds, at : (Zones \X (0 .. PgsPerLine)) \cup {NoPage},
                   first : Lines \cup {NoLine}]
      /\ job.kind = "idle"
  BY <1>3, <1>4 DEF Idle, JobKinds
<1>6. GcLines' = {} /\ GcLines = {}
  BY <1>5 DEF GcLines
<1>7. written[z] \in Offs /\ lpn \in Lpns
  BY <1>1, <1>2, <1>3 DEF Types, Geometry
<1>8. Opened("USER", p, FreeLeft("USER"), status)
  BY <1>1, <1>2, <1>3, OpenedHolds DEF Writers
<1>9. p \in Pages /\ p[1] \in Lines /\ status[p] = "FREE" /\ p \notin Beyond /\ p[1] \notin LeftLines
  BY <1>3, <1>8 DEF Opened
<1>10. maptbl[lpn] \notin Pages
  BY <1>1, <1>3, <1>5, <1>7, <1>2 DEF PageZones, Resetting, Types, Geometry
<1>11. Tables(maptbl, rmap, status)
  BY <1>1 DEF Types, Tables
<1>12. /\ vpc = [l \in Lines |-> Count(Offs, status, l, "VALID")]
       /\ ipc = [l \in Lines |-> Count(Offs, status, l, "INVALID")]
       /\ rpc = [l \in Lines |-> IF l \in LeftLines THEN Count(Offs, status, l, "FREE") ELSE 0]
  BY <1>1 DEF Counted
<1>13. /\ maptbl' = [maptbl EXCEPT ![lpn] = p] /\ status' = [status EXCEPT ![p] = "VALID"]
       /\ Tables(maptbl, rmap, status)'
       /\ vpc' = [l \in Lines |-> Count(Offs, status', l, "VALID")]
       /\ \A l \in Lines : Count(Offs, status', l, "INVALID") = Count(Offs, status, l, "INVALID")
       /\ \A l \in Lines : Count(Offs, status', l, "FREE")
                             = IF l = p[1] THEN Count(Offs, status, l, "FREE") - 1
                                           ELSE Count(Offs, status, l, "FREE")
  <2> HIDE DEF p, lpn
  <2> QED
    BY <1>2, <1>3, <1>7, <1>9, <1>10, <1>11, <1>12, PutPageKeeps
<1>14. vpc'[p[1]] = Count(Offs, status', p[1], "VALID") /\ rpc'[p[1]] = 0
  BY <1>3, <1>9, <1>12, <1>13
<1>15. /\ WriterMoved
       /\ LeftLines' = IF p[2] = PgsPerLine - 1 THEN LeftLines \cup {p[1]} ELSE LeftLines
       /\ p[2] = PgsPerLine - 1 => \A o \in Offs : status'[<<p[1], o>>] # "FREE"
  <2>1. status \in [Pages -> Statuses] /\ "USER" \in Writers /\ GcLines' = GcLines
    BY <1>1, <1>6 DEF Types, Writers
  <2> HIDE DEF p, lpn
  <2> QED
    BY <1>1, <1>2, <1>3, <1>8, <1>13, <1>14, <2>1, AdvanceKeeps
<1>16. Types'
  <2>1. written' \in [Zones -> 0 .. PgsPerLine]
    BY <1>1, <1>2, <1>3 DEF Types, Geometry
  <2> QED
    BY <1>0, <1>1, <1>4, <1>5, <1>13, <1>15, <2>1 DEF Types, Tables, WriterMoved
<1>17. Counted(status, vpc, ipc, rpc)'
  <2>1. ipc' = [l \in Lines |-> Count(Offs, status', l, "INVALID")]
    BY <1>3, <1>12, <1>13
  <2>2. status' \in [Pages -> Statuses]
    BY <1>0, <1>16 DEF Types
  <2>3. rpc' = [l \in Lines |-> IF l \in LeftLines' THEN Count(Offs, status', l, "FREE") ELSE 0]
    <3> HIDE DEF p, lpn
    <3> QED
      BY <1>2, <1>3, <1>9, <1>12, <1>13, <1>15, <2>2, ReservedStay
  <2> QED
    BY <1>0, <1>13, <2>1, <2>3 DEF Counted
<1>18. JobOK'
  BY <1>5 DEF JobOK
<1>19. PageZones'
  <2> SUFFICES ASSUME NEW y \in Zones, NEW i \in Offs
               PROVE  maptbl'[<<y, i>>] \in Pages <=> i < written'[y]
    BY <1>0, <1>5 DEF PageZones, Resetting
  <2>1. <<y, i>> \in Lpns /\ i \in Nat /\ written[y] \in Nat
    BY <1>1, <1>2 DEF Geometry, Types
  <2>2. maptbl[<<y, i>>] \in Pages <=> i < written[y]
    BY <1>1, <1>3, <1>5 DEF PageZones, Resetting
  <2>3. CASE <<y, i>> = lpn
    BY <1>1, <1>3, <1>9, <1>13, <2>1, <2>3 DEF Types
  <2>4. CASE <<y, i>> # lpn
    BY <1>1, <1>3, <1>13, <2>1, <2>2, <2>4 DEF Types
  <2> QED
    BY <2>3, <2>4
<1>20. LineZones'
  BY <1>0, <1>3 DEF LineZones
<1>21. InRange'
  BY <1>0, <1>3, <1>15 DEF InRange, WriterMoved
<1> QED
  BY <1>13, <1>15, <1>16, <1>17, <1>18, <1>19, <1>20, <1>21 DEF FtlInv, Tables, WriterMoved

-----------------------------------------------------------------------------
(* Steps that leave pages and lines alone.                                 *)

JobType == [kind : JobKinds, at : (Zones \X (0 .. PgsPerLine)) \cup {NoPage},
            first : Lines \cup {NoLine}]

\* The lists and the pages stay; the job, the credits and the flags change.
LEMMA JobStep ==
  ASSUME FtlInv, ns' = ns, UNCHANGED <<tables, rpc, lines, wp, written>>, GcLines' = GcLines,
         noSpace' \in BOOLEAN, noSpace => noSpace', halted' \in BOOLEAN,
         credits' \in Int, refill' \in 0 .. PgsPerLine, job' \in JobType,
         JobOK', PageZones', LineZones'
  PROVE  FtlInv'
<1>0. Lines' = Lines /\ Zones' = Zones /\ Offs' = Offs /\ Pages' = Pages /\ Lpns' = Lpns
      /\ Beyond' = Beyond /\ PgsPerLine' = PgsPerLine /\ Mapping' = Mapping
  BY NamespaceStays
<1>1. /\ Types /\ Census /\ Counted(status, vpc, ipc, rpc) /\ OnLines(status) /\ InRange
      /\ Agree(Lpns, Pages, Beyond, maptbl, rmap, status)
  BY DEF FtlInv
<1>2. /\ maptbl' = maptbl /\ rmap' = rmap /\ status' = status
      /\ vpc' = vpc /\ ipc' = ipc /\ rpc' = rpc
      /\ free' = free /\ full' = full /\ victim' = victim /\ wp' = wp /\ written' = written
  BY DEF tables, lines
<1>3. LeftLines' = LeftLines /\ Elems(free)' = Elems(free) /\ \A w \in Writers : Under(w)' = Under(w)
  BY <1>2 DEF LeftLines, Elems, Under
<1>4. Types'
  BY <1>0, <1>1, <1>2 DEF Types, JobType
<1>5. Census'
  BY <1>0, <1>1, <1>2, <1>3 DEF Census, Distinct
<1>6. Counted(status, vpc, ipc, rpc)'
  BY <1>0, <1>1, <1>2, <1>3 DEF Counted
<1>7. OnLines(status)'
  BY <1>0, <1>1, <1>2, <1>3 DEF OnLines
<1>8. InRange'
  BY <1>0, <1>1, <1>2, <1>3 DEF InRange
<1>9. Agree(Lpns, Pages, Beyond, maptbl, rmap, status)'
  BY <1>0, <1>1, <1>2
<1> QED
  BY <1>4, <1>5, <1>6, <1>7, <1>8, <1>9 DEF FtlInv

LEMMA CreditsKeep ==
  ASSUME FtlInv, ns' = ns, RefillCredits \/ NoVictim
  PROVE  FtlInv'
<1>1. /\ Types /\ Geometry /\ PageZones /\ LineZones /\ job.kind = "collect"
  BY GeometryHolds DEF FtlInv, Types, RefillCredits, NoVictim
<1>2. /\ UNCHANGED <<tables, rpc, lines, wp, written>> /\ job' = Idle
      /\ noSpace' = noSpace /\ halted' = halted
      /\ credits' \in Int /\ refill' \in 0 .. PgsPerLine
  BY <1>1 DEF RefillCredits, NoVictim, Types, Geometry
<1>3. job'.kind = "idle" /\ job' \in JobType /\ GcLines' = {} /\ GcLines = {}
  BY <1>1, <1>2 DEF Idle, JobType, JobKinds, GcLines
<1>4. \A z \in Zones : ~Resetting(z) /\ ~Resetting(z)'
  BY <1>1, <1>3 DEF Resetting
<1>5. /\ Lines' = Lines /\ Zones' = Zones /\ Offs' = Offs /\ Pages' = Pages
      /\ PgsPerLine' = PgsPerLine /\ Mapping' = Mapping
      /\ maptbl' = maptbl /\ status' = status /\ written' = written /\ wp' = wp
      /\ full' = full /\ victim' = victim
  BY <1>2, NamespaceStays DEF tables, lines
<1>6. JobOK'
  BY <1>3 DEF JobOK
<1>7. PageZones'
  BY <1>1, <1>2, <1>4, <1>5 DEF PageZones
<1>8. LineZones'
  BY <1>1, <1>3, <1>4, <1>5 DEF LineZones, ZoneAt
<1> QED
  BY <1>1, <1>2, <1>3, <1>6, <1>7, <1>8, JobStep DEF Types

\* submit_internal_write skips a page, or finds no line to write to.
LEMMA SkipKeeps ==
  ASSUME FtlInv, ns' = ns, SkipPage \/ MoveAsserts
  PROVE  FtlInv'
<1>1. /\ Types /\ Geometry /\ JobOK /\ PageZones /\ LineZones
      /\ job.kind = "gc" /\ job.at[2] < PgsPerLine
  BY GeometryHolds DEF FtlInv, Types, SkipPage, MoveAsserts, InVictim
<1>2. /\ UNCHANGED <<tables, rpc, lines, wp, flow, written>>
      /\ noSpace' \in BOOLEAN /\ (noSpace => noSpace') /\ halted' \in BOOLEAN
      /\ job' = job \/ (job' = [job EXCEPT !.at = <<job.at[1], job.at[2] + 1>>] /\ status[job.at] # "VALID")
  BY <1>1 DEF SkipPage, MoveAsserts, AssertCurline, NextInVictim, Types
<1>3. /\ Lines' = Lines /\ Zones' = Zones /\ Offs' = Offs /\ Pages' = Pages
      /\ PgsPerLine' = PgsPerLine /\ Mapping' = Mapping
      /\ maptbl' = maptbl /\ status' = status /\ written' = written /\ wp' = wp
      /\ full' = full /\ victim' = victim /\ credits' = credits /\ refill' = refill
  BY <1>2, NamespaceStays DEF tables, lines, flow
<1>4. job.at \in Lines \X (0 .. PgsPerLine) /\ job.at = <<job.at[1], job.at[2]>>
  BY <1>1 DEF JobOK
<1>5. /\ job'.kind = "gc" /\ job' \in JobType /\ job'.at \in Lines \X (0 .. PgsPerLine)
      /\ job'.at[1] = job.at[1]
  <2>1. <<job.at[1], job.at[2] + 1>> \in Lines \X (0 .. PgsPerLine)
    BY <1>1, <1>4 DEF Geometry
  <2>2. job \in JobType /\ job.kind = "gc"
    BY <1>1 DEF Types, JobType
  <2>3. CASE job' = job
    BY <1>4, <2>2, <2>3
  <2>4. CASE job' = [job EXCEPT !.at = <<job.at[1], job.at[2] + 1>>]
    <3> DEFINE a == <<job.at[1], job.at[2] + 1>>
    <3>1. a \in Lines \X (0 .. PgsPerLine) /\ a[1] = job.at[1] /\ Zones = Lines
      BY <1>1, <2>1 DEF Geometry
    <3> HIDE DEF a
    <3>2. job'.kind = "gc" /\ job'.at = a /\ job' \in JobType
      BY <2>2, <2>4, <3>1 DEF a, JobType
    <3> QED
      BY <3>1, <3>2
  <2> QED
    BY <1>2, <2>3, <2>4
<1>6. GcLines' = GcLines
  BY <1>1, <1>5 DEF GcLines
<1>7. JobOK'
  <2>1. \A o \in Offs : o < job'.at[2] => status[<<job.at[1], o>>] # "VALID"
    <3> SUFFICES ASSUME NEW o \in Offs, o < job'.at[2] PROVE status[<<job.at[1], o>>] # "VALID"
      OBVIOUS
    <3>1. job.at[2] \in Nat /\ o \in Nat
      BY <1>1, <1>4 DEF Geometry
    <3>2. CASE o < job.at[2]
      BY <1>1, <3>2 DEF JobOK
    <3>3. CASE ~(o < job.at[2])
      <4>1. job' # job
        BY <3>3
      <4>2. job'.at[2] = job.at[2] + 1 /\ status[job.at] # "VALID"
        BY <1>2, <1>1, <4>1 DEF Types
      <4> QED
        BY <1>4, <3>1, <3>3, <4>2
    <3> QED
      BY <3>2, <3>3
  <2> QED
    BY <1>3, <1>5, <2>1 DEF JobOK
<1>8. \A z \in Zones : ~Resetting(z) /\ ~Resetting(z)'
  BY <1>1, <1>5 DEF Resetting
<1>9. PageZones'
  BY <1>1, <1>2, <1>3, <1>8 DEF PageZones
<1>10. LineZones'
  BY <1>1, <1>3 DEF LineZones
<1>11. credits' \in Int /\ refill' \in 0 .. PgsPerLine
  BY <1>1, <1>3 DEF Types
<1> QED
  BY <1>2, <1>5, <1>6, <1>7, <1>9, <1>10, <1>11, JobStep

LEMMA StartResetKeeps ==
  ASSUME Supported, FtlInv, ns' = ns, NEW z \in Zones, StartReset(z)
  PROVE  FtlInv'
<1>1. Types /\ Geometry /\ PageZones /\ LineZones
  BY GeometryHolds DEF FtlInv, Types
<1>2. /\ UNCHANGED <<tables, rpc, lines, wp, noSpace, flow, written, halted>>
      /\ job = Idle /\ written[z] > 0
      /\ Mapping = "PAGE" \/ (Mapping = "ZONE" /\ written[z] = PgsPerLine)
      /\ job' = [kind |-> "reset", at |-> <<z, 0>>, first |-> NoLine]
  BY <1>1 DEF StartReset, Supported, Types, Mapping, Geometry
<1>3. /\ Lines' = Lines /\ Zones' = Zones /\ Offs' = Offs /\ Pages' = Pages
      /\ PgsPerLine' = PgsPerLine /\ Mapping' = Mapping
      /\ maptbl' = maptbl /\ status' = status /\ written' = written /\ wp' = wp
      /\ full' = full /\ victim' = victim /\ credits' = credits /\ refill' = refill
      /\ noSpace' = noSpace
  BY <1>2, NamespaceStays DEF tables, lines, flow
<1>4. /\ job.kind = "idle" /\ job'.kind = "reset" /\ job'.at = <<z, 0>> /\ job'.first = NoLine
      /\ job'.at[1] = z /\ job'.at[2] = 0
      /\ job' \in JobType /\ <<z, 0>> \in Lines \X (0 .. PgsPerLine)
  BY <1>1, <1>2 DEF Idle, JobType, JobKinds, Geometry
<1>5. GcLines' = GcLines
  BY <1>4 DEF GcLines
<1>6. JobOK'
  BY <1>3, <1>4 DEF JobOK
<1>7. \A y \in Zones : ~Resetting(y) /\ (Resetting(y)' <=> y = z)
  BY <1>4 DEF Resetting
<1>8. PageZones'
  <2>1. \A i \in Offs : ~(i < 0)
    BY <1>1 DEF Geometry
  <2> QED
    BY <1>1, <1>3, <1>4, <1>7, <2>1 DEF PageZones
<1>9. LineZones'
  <2> SUFFICES ASSUME Mapping = "ZONE" PROVE LineZones'
    BY <1>3 DEF LineZones
  <2>1. victim = {}
    BY <1>1, <1>4 DEF LineZones
  <2>2. PICK l \in full : ZoneAt(z, l)
    BY <1>1, <1>2, <1>7 DEF LineZones, Types
  <2>3. \A i \in Offs : maptbl[<<z, i>>] = <<l, i>>
    <3>1. written[z] = PgsPerLine
      BY <1>2
    <3>2. \A i \in Offs : i < PgsPerLine
      BY <1>1 DEF Geometry
    <3> QED
      BY <2>2, <3>1, <3>2 DEF ZoneAt
  <2>4. ZoneLeaves(z, 0)'
    <3>1. l \in Lines
      BY <1>1 DEF Types
    <3>2. 0 < PgsPerLine /\ 0 # PgsPerLine /\ \A i \in Offs : ~(i < 0)
      BY <1>1 DEF Geometry
    <3>3. \A i \in Offs : IF i < 0 THEN status'[<<l, i>>] = "INVALID" ELSE maptbl'[<<z, i>>] = <<l, i>>
      BY <1>3, <2>3, <3>2
    <3> QED
      BY <1>3, <1>4, <2>1, <3>1, <3>2, <3>3 DEF ZoneLeaves
  <2>5. ASSUME NEW y \in Zones, y # z
        PROVE  IF written[y] = 0 THEN \A i \in Offs : maptbl[<<y, i>>] \notin Pages
               ELSE \E m \in full : ZoneAt(y, m)
    BY <1>1, <1>7 DEF LineZones
  <2>6. \A y \in Zones, m \in full : ZoneAt(y, m) => ZoneAt(y, m)'
    BY <1>3 DEF ZoneAt
  <2>7. \A y \in Zones : IF Resetting(y)' THEN ZoneLeaves(y, 0)'
          ELSE IF written'[y] = 0 THEN \A i \in Offs' : maptbl'[<<y, i>>] \notin Pages'
          ELSE \E m \in full' : ZoneAt(y, m)'
    BY <1>3, <1>7, <2>4, <2>5, <2>6
  <2>8. wp' = wp /\ job'.kind # "gc" /\ job'.at[2] = 0
    BY <1>3, <1>4
  <2> QED
    BY <1>1, <1>3, <1>4, <2>7, <2>8 DEF LineZones
<1>10. credits' \in Int /\ refill' \in 0 .. PgsPerLine /\ halted' \in BOOLEAN /\ noSpace' \in BOOLEAN
  BY <1>1, <1>2, <1>3 DEF Types
<1> QED
  BY <1>2, <1>3, <1>4, <1>5, <1>6, <1>8, <1>9, <1>10, JobStep

-----------------------------------------------------------------------------
(* Collection: the victim, and what is moved out of it.                    *)

\* select_victim_line.
LEMMA SelectKeeps ==
  ASSUME FtlInv, ns' = ns, SelectVictim
  PROVE  FtlInv'
<1>0. Lines' = Lines /\ Zones' = Zones /\ Offs' = Offs /\ Pages' = Pages /\ Lpns' = Lpns
      /\ Beyond' = Beyond /\ PgsPerLine' = PgsPerLine /\ Mapping' = Mapping
  BY NamespaceStays
<1>1. /\ Types /\ Census /\ Counted(status, vpc, ipc, rpc) /\ OnLines(status) /\ InRange
      /\ Agree(Lpns, Pages, Beyond, maptbl, rmap, status)
      /\ PageZones /\ LineZones /\ Geometry
  BY GeometryHolds DEF FtlInv, Types
<1>2. PICK v \in victim : /\ victim' = victim \ {v} /\ refill' = ipc[v] + rpc[v]
                          /\ job' = [kind |-> "gc", at |-> <<v, 0>>, first |-> NoLine]
  BY DEF SelectVictim
<1>3. /\ maptbl' = maptbl /\ rmap' = rmap /\ status' = status
      /\ vpc' = vpc /\ ipc' = ipc /\ rpc' = rpc /\ credits' = credits /\ halted' = halted
      /\ free' = free /\ full' = full /\ wp' = wp /\ written' = written /\ noSpace' = noSpace
      /\ job.kind = "collect"
  BY DEF SelectVictim, tables
<1>4. v \in Lines /\ GcLines = {} /\ GcLines' = {v} /\ job'.kind = "gc" /\ job'.at = <<v, 0>>
      /\ job'.at[2] = 0 /\ job'.at[1] = v
  BY <1>1, <1>2, <1>3 DEF GcLines, Types
<1>5. LeftLines' = LeftLines /\ Elems(free)' = Elems(free) /\ \A w \in Writers : Under(w)' = Under(w)
  BY <1>2, <1>3, <1>4 DEF LeftLines, Elems, Under
<1>6. refill' \in 0 .. PgsPerLine
  <2>1. /\ ipc[v] = Count(Offs, status, v, "INVALID")
        /\ rpc[v] = Count(Offs, status, v, "FREE")
    BY <1>1, <1>2, <1>4 DEF Counted, LeftLines
  <2>2. status \in [Pages -> Statuses]
    BY <1>1 DEF Types
  <2>3. /\ Count(Offs, status, v, "FREE") + Count(Offs, status, v, "VALID")
             + Count(Offs, status, v, "INVALID") = PgsPerLine
        /\ \A s : Count(Offs, status, v, s) \in 0 .. PgsPerLine
    BY <1>1, <1>4, <2>2, CountFacts
  <2>4. PgsPerLine \in Nat
    BY <1>1 DEF Geometry
  <2> QED
    BY <1>2, <2>1, <2>3, <2>4
<1>7. Types'
  <2>1. job' \in JobType /\ victim' \subseteq Lines
    BY <1>1, <1>2, <1>4 DEF JobType, JobKinds, Geometry, Types
  <2> QED
    BY <1>0, <1>1, <1>3, <1>6, <2>1 DEF Types, JobType
<1>8. Census'
  <2>1. full' \cap victim' = {} /\ GcLines' \cap (full' \cup victim') = {}
    BY <1>1, <1>2, <1>3, <1>4 DEF Census
  <2> QED
    BY <1>0, <1>1, <1>3, <1>5, <2>1 DEF Census, Distinct
<1>9. Counted(status, vpc, ipc, rpc)'
  BY <1>0, <1>1, <1>3, <1>5 DEF Counted
<1>10. OnLines(status)'
  <2>1. (victim \cup GcLines)' = victim \cup GcLines
    BY <1>2, <1>4
  <2> QED
    BY <1>0, <1>1, <1>3, <1>5, <2>1 DEF OnLines
<1>11. InRange'
  BY <1>0, <1>1, <1>3, <1>5 DEF InRange
<1>12. Agree(Lpns, Pages, Beyond, maptbl, rmap, status)'
  BY <1>0, <1>1, <1>3
<1>13. JobOK'
  <2>1. \A o \in Offs : ~(o < 0)
    BY <1>1 DEF Geometry
  <2>2. <<v, 0>> \in Lines \X (0 .. PgsPerLine)
    BY <1>1, <1>4 DEF Geometry
  <2> QED
    BY <1>0, <1>4, <2>1, <2>2 DEF JobOK
<1>14. \A z \in Zones : ~Resetting(z) /\ ~Resetting(z)'
  BY <1>3, <1>4 DEF Resetting
<1>15. PageZones'
  BY <1>0, <1>1, <1>3, <1>14 DEF PageZones
<1>16. LineZones'
  <2>1. Mapping # "ZONE"
    BY <1>1, <1>2, <1>3 DEF LineZones
  <2> QED
    BY <1>0, <2>1 DEF LineZones
<1> QED
  BY <1>7, <1>8, <1>9, <1>10, <1>11, <1>12, <1>13, <1>15, <1>16 DEF FtlInv

-----------------------------------------------------------------------------
(* Writing a page, zone mapping.                                           *)

\* Charge, and that a write is no part of a reset or a collection.
LEMMA ChargeKeeps ==
  ASSUME Types, Geometry, ns' = ns, job = Idle, Charge
  PROVE  /\ credits' \in Int /\ refill' \in 0 .. PgsPerLine /\ job' \in JobType
         /\ job.kind = "idle" /\ job'.kind \in {"idle", "collect"}
         /\ GcLines = {} /\ GcLines' = {} /\ JobOK'
         /\ \A z \in Zones : ~Resetting(z) /\ ~Resetting(z)'
<1>1. /\ credits' \in Int /\ refill' \in 0 .. PgsPerLine
      /\ job' = [Idle EXCEPT !.kind = "collect"] \/ job' = Idle
  BY DEF Charge, Types
<1>2. /\ job.kind = "idle" /\ job'.kind \in {"idle", "collect"} /\ job' \in JobType
  BY <1>1 DEF Idle, JobKinds, JobType
<1>3. GcLines = {} /\ GcLines' = {} /\ JobOK'
  BY <1>2 DEF GcLines, JobOK
<1> QED
  BY <1>1, <1>2, <1>3 DEF Resetting

\* The first page of a zone.
LEMMA ReserveKeeps ==
  ASSUME FtlInv, ns' = ns, NEW z \in Zones, ReserveZone(z)
  PROVE  FtlInv'
<1>0. Lines' = Lines /\ Zones' = Zones /\ Offs' = Offs /\ Pages' = Pages /\ Lpns' = Lpns
      /\ Beyond' = Beyond /\ PgsPerLine' = PgsPerLine /\ Mapping' = Mapping
  BY NamespaceStays
<1>1. /\ Types /\ Census /\ Counted(status, vpc, ipc, rpc) /\ OnLines(status) /\ InRange
      /\ Agree(Lpns, Pages, Beyond, maptbl, rmap, status)
      /\ JobOK /\ LineZones /\ Geometry
  BY GeometryHolds DEF FtlInv, Types
<1> DEFINE mt == [lpn \in Lpns |-> IF lpn[1] = z THEN RSV_PPA ELSE maptbl[lpn]]
<1>2. PICK p :
      /\ p = PageOf("USER") /\ Mapping = "ZONE" /\ job = Idle /\ ~noSpace /\ CanOpen("USER") /\ Charge
      /\ maptbl[<<z, 0>>] \notin Pages
      /\ PutPage(<<z, 0>>, p, mt, rmap, status, vpc)
      /\ rpc' = [rpc EXCEPT ![p[1]] = @ + (PgsPerLine - 1)] /\ ipc' = ipc
      /\ LeaveLine("USER", p[1]) /\ written' = [written EXCEPT ![z] = 1]
  <2>1. \E p : p = PageOf("USER")
    OBVIOUS
  <2> QED
    BY <2>1 DEF ReserveZone, CanWrite, mapped
<1>3. /\ credits' \in Int /\ refill' \in 0 .. PgsPerLine /\ job' \in JobType
      /\ job.kind = "idle" /\ job'.kind \in {"idle", "collect"}
      /\ GcLines = {} /\ GcLines' = {} /\ JobOK'
      /\ \A y \in Zones : ~Resetting(y) /\ ~Resetting(y)'
  BY <1>1, <1>2, ChargeKeeps
<1>4. /\ 0 \in Offs /\ <<z, 0>> \in Lpns /\ PgsPerLine \in Nat \ {0} /\ Offs = 0 .. PgsPerLine - 1
  BY <1>1 DEF Geometry
<1>5. Opened("USER", p, FreeLeft("USER"), status)
  BY <1>1, <1>2, OpenedHolds DEF Writers
<1>6. /\ p \in Pages /\ p[1] \in Lines /\ status[p] = "FREE" /\ p \notin Beyond
      /\ p[1] \notin LeftLines
  BY <1>2, <1>5 DEF Opened
<1>7. p[2] = 0 /\ p = <<p[1], 0>> /\ \A o \in Offs : status[<<p[1], o>>] = "FREE"
  <2>1. wp["USER"] # NoPage => wp["USER"][2] = 0
    BY <1>1, <1>2 DEF LineZones
  <2>2. p[2] = 0
    BY <1>2, <2>1 DEF PageOf
  <2>3. \A o \in Offs : o >= 0
    BY <1>4
  <2>4. \A o \in Offs : status[<<p[1], o>>] = "FREE" <=> o >= p[2]
    BY <1>5 DEF Opened
  <2> QED
    BY <1>1, <1>6, <2>2, <2>3, <2>4 DEF Geometry
<1>8. written[z] = 0 /\ \A i \in Offs : maptbl[<<z, i>>] \notin Pages
  <2>1. CASE written[z] = 0
    BY <1>1, <1>2, <1>3, <2>1 DEF LineZones
  <2>2. CASE written[z] # 0
    <3>1. PICK l \in full : ZoneAt(z, l)
      BY <1>1, <1>2, <1>3, <2>2 DEF LineZones
    <3>2. 0 < written[z]
      BY <1>1, <2>2 DEF Types, Geometry
    <3>3. maptbl[<<z, 0>>] = <<l, 0>> /\ l \in Lines
      BY <1>1, <1>4, <3>1, <3>2 DEF ZoneAt, Types
    <3> QED
      BY <1>1, <1>2, <1>4, <3>3 DEF Geometry
  <2> QED
    BY <2>1, <2>2
<1>9. Tables(mt, rmap, status) /\ mt[<<z, 0>>] \notin Pages
  <2>1. mt \in [Lpns -> Pages \cup {UNMAPPED_PPA, RSV_PPA}]
    BY <1>1 DEF Types
  <2>2. \A lpn \in Lpns : mt[lpn] = maptbl[lpn] \/ (maptbl[lpn] \notin Pages /\ mt[lpn] \notin Pages)
    <3> SUFFICES ASSUME NEW lpn \in Lpns, lpn[1] = z
                 PROVE  maptbl[lpn] \notin Pages /\ mt[lpn] \notin Pages
      OBVIOUS
    <3>1. lpn = <<z, lpn[2]>> /\ lpn[2] \in Offs
      BY <1>1 DEF Geometry
    <3> QED
      BY <1>1, <1>8, <3>1 DEF Geometry
  <2>3. mt[<<z, 0>>] = RSV_PPA
    BY <1>4
  <2> HIDE DEF mt
  <2>4. Agree(Lpns, Pages, Beyond, mt, rmap, status)
    BY <1>1, <2>2, AgreeQuiet DEF Geometry
  <2> QED
    BY <1>1, <2>1, <2>3, <2>4 DEF Tables, Types, Geometry
<1>10. /\ vpc = [l \in Lines |-> Count(Offs, status, l, "VALID")]
       /\ ipc = [l \in Lines |-> Count(Offs, status, l, "INVALID")]
       /\ rpc = [l \in Lines |-> IF l \in LeftLines THEN Count(Offs, status, l, "FREE") ELSE 0]
  BY <1>1 DEF Counted
<1>11. /\ maptbl' = [mt EXCEPT ![<<z, 0>>] = p] /\ status' = [status EXCEPT ![p] = "VALID"]
       /\ Tables(maptbl, rmap, status)'
       /\ vpc' = [l \in Lines |-> Count(Offs, status', l, "VALID")]
       /\ \A l \in Lines : Count(Offs, status', l, "INVALID") = Count(Offs, status, l, "INVALID")
       /\ \A l \in Lines : Count(Offs, status', l, "FREE")
                             = IF l = p[1] THEN Count(Offs, status, l, "FREE") - 1
                                           ELSE Count(Offs, status, l, "FREE")
  <2> DEFINE z0 == <<z, 0>>
  <2>1. z0 \in Lpns /\ PutPage(z0, p, mt, rmap, status, vpc) /\ mt[z0] \notin Pages
    BY <1>2, <1>4, <1>9
  <2>2. Tables(mt, rmap, status) /\ Geometry /\ p \in Pages /\ status[p] = "FREE" /\ p \notin Beyond
    BY <1>1, <1>6, <1>9
  <2> HIDE DEF mt, z0
  <2>3. /\ maptbl' = [mt EXCEPT ![z0] = p] /\ status' = [status EXCEPT ![p] = "VALID"]
        /\ Tables(maptbl, rmap, status)'
        /\ vpc' = [l \in Lines |-> Count(Offs, status', l, "VALID")]
        /\ \A l \in Lines : Count(Offs, status', l, "INVALID") = Count(Offs, status, l, "INVALID")
        /\ \A l \in Lines : Count(Offs, status', l, "FREE")
                              = IF l = p[1] THEN Count(Offs, status, l, "FREE") - 1
                                            ELSE Count(Offs, status, l, "FREE")
    BY <1>10, <2>1, <2>2, PutPageKeeps
  <2> QED
    BY <2>3 DEF z0
<1>12. status' \in [Pages -> Statuses] /\ status \in [Pages -> Statuses]
  BY <1>0, <1>1, <1>11 DEF Tables, Types
<1>13. /\ \A l \in Lines \ {p[1]}, o \in Offs : status'[<<l, o>>] = status[<<l, o>>]
       /\ status'[p] = "VALID"
       /\ \A o \in Offs \ {0} : status'[<<p[1], o>>] = "FREE"
  <2>1. \A q \in Pages : q # p => status'[q] = status[q]
    BY <1>11, <1>12
  <2>2. \A l \in Lines, o \in Offs : <<l, o>> \in Pages
    BY <1>1 DEF Geometry
  <2>3. \A l \in Lines \ {p[1]}, o \in Offs : status'[<<l, o>>] = status[<<l, o>>]
    <3> SUFFICES ASSUME NEW l \in Lines \ {p[1]}, NEW o \in Offs
                 PROVE  status'[<<l, o>>] = status[<<l, o>>]
      OBVIOUS
    <3>1. <<l, o>> # p
      BY <1>7
    <3> QED
      BY <2>1, <2>2, <3>1
  <2>4. \A o \in Offs \ {0} : status'[<<p[1], o>>] = status[<<p[1], o>>]
    BY <1>6, <1>7, <2>1, <2>2
  <2> QED
    BY <1>6, <1>7, <1>11, <1>12, <2>3, <2>4
<1>14. rpc'[p[1]] = Count(Offs, status', p[1], "FREE")
  <2>1. Count(Offs, status, p[1], "FREE") = PgsPerLine
    <3> QED
      BY <1>1, <1>6, <1>7, <1>12, CountFacts
  <2>2. rpc[p[1]] = 0 /\ DOMAIN rpc = Lines
    BY <1>6, <1>10
  <2>3. rpc'[p[1]] = 0 + (PgsPerLine - 1)
    BY <1>2, <1>6, <2>2
  <2>4. Count(Offs, status', p[1], "FREE") = PgsPerLine - 1
    BY <1>6, <1>11, <2>1
  <2> QED
    BY <1>4, <2>3, <2>4
<1>15. UsedUp(p[1], status)
  <2>1. NothingInvalid(p[1]) <=> \A o \in Offs : status'[<<p[1], o>>] # "INVALID"
    <3> DEFINE st2 == status'
               l   == p[1]
    <3>1. st2 \in [Pages -> Statuses] /\ l \in Lines
      BY <1>6, <1>12
    <3>2. vpc'[l] = Count(Offs, st2, l, "VALID") /\ rpc'[l] = Count(Offs, st2, l, "FREE")
      BY <1>6, <1>11, <1>14
    <3> HIDE DEF st2, l
    <3>3. /\ Count(Offs, st2, l, "FREE") + Count(Offs, st2, l, "VALID")
               + Count(Offs, st2, l, "INVALID") = PgsPerLine
          /\ \A s : /\ Count(Offs, st2, l, s) \in 0 .. PgsPerLine
                    /\ Count(Offs, st2, l, s) = 0 <=> \A o \in Offs : st2[<<l, o>>] # s
      BY <1>1, <3>1, CountFacts
    <3>4. vpc'[l] + rpc'[l] = PgsPerLine <=> Count(Offs, st2, l, "INVALID") = 0
      BY <1>4, <3>2, <3>3
    <3> QED
      BY <3>3, <3>4 DEF NothingInvalid, st2, l
  <2> QED
    BY <1>2, <1>13, <2>1 DEF UsedUp
<1>16. /\ WriterMoved
       /\ LeftLines' = LeftLines \cup {p[1]}
       /\ \A v \in Writers \ {"USER"} : wp'[v] = wp[v]
       /\ wp'["USER"] # NoPage => wp'["USER"][2] = 0
       /\ ~noSpace' => <<p[1], PgsPerLine - 1>> \notin Beyond
       /\ (NothingInvalid(p[1]) => full' = full \cup {p[1]} /\ victim' = victim)
  <2>1. "USER" \in Writers /\ GcLines' = GcLines
    BY <1>3 DEF Writers
  <2> QED
    BY <1>1, <1>2, <1>5, <1>15, <2>1, LeaveLineKeeps
<1>17. full' = full \cup {p[1]} /\ victim' = {} /\ p[1] \notin full
  <2>1. NothingInvalid(p[1])
    <3>1. \A o \in Offs : status'[<<p[1], o>>] # "INVALID"
      <4> QED
        BY <1>7, <1>13
    <3> QED
      BY <1>15, <3>1 DEF UsedUp
  <2>2. victim = {}
    BY <1>1, <1>2, <1>3 DEF LineZones
  <2> QED
    BY <1>6, <1>16, <2>1, <2>2 DEF LeftLines
<1>18. /\ \A i \in Offs : maptbl'[<<z, i>>] = IF i = 0 THEN p ELSE RSV_PPA
       /\ \A y \in Zones \ {z}, i \in Offs : maptbl'[<<y, i>>] = maptbl[<<y, i>>]
  <2>1. \A y \in Zones, i \in Offs : <<y, i>> \in Lpns
    BY <1>1 DEF Geometry
  <2> QED
    BY <1>4, <1>11, <2>1
<1> HIDE DEF mt
<1>19. Types'
  <2>1. written' \in [Zones -> 0 .. PgsPerLine]
    BY <1>1, <1>2, <1>4 DEF Types
  <2> QED
    BY <1>0, <1>1, <1>3, <1>11, <1>16, <2>1 DEF Types, Tables, WriterMoved, JobType
<1>20. Counted(status, vpc, ipc, rpc)'
  <2>1. ipc' = [l \in Lines |-> Count(Offs, status', l, "INVALID")]
    BY <1>2, <1>10, <1>11
  <2>2. \A l \in Lines : rpc'[l] = IF l \in LeftLines' THEN Count(Offs, status', l, "FREE") ELSE 0
    BY <1>2, <1>6, <1>10, <1>11, <1>14, <1>16
  <2>3. rpc' = [l \in Lines |-> IF l \in LeftLines' THEN Count(Offs, status', l, "FREE") ELSE 0]
    <3>1. rpc' = [l \in Lines |-> rpc'[l]]
      BY <1>2, <1>10
    <3> QED
      BY <2>2, <3>1
  <2> QED
    BY <1>0, <1>11, <2>1, <2>3 DEF Counted
<1>21. InRange'
  <2> SUFFICES ASSUME ~noSpace'
               PROVE  /\ \A w \in Writers : wp'[w] \notin Beyond
                      /\ \A l \in LeftLines', o \in Offs : <<l, o>> \notin Beyond
    BY <1>0 DEF InRange
  <2>1. \A o \in Offs : <<p[1], o>> \notin Beyond
    <3>1. PgsPerLine - 1 \in Offs /\ \A o \in Offs : o <= PgsPerLine - 1
      BY <1>4
    <3> QED
      BY <1>1, <1>6, <1>16, <3>1 DEF Geometry
  <2>2. \A l \in LeftLines, o \in Offs : <<l, o>> \notin Beyond
    BY <1>1, <1>2 DEF InRange
  <2> QED
    BY <1>16, <2>1, <2>2 DEF WriterMoved
<1>22. PageZones'
  BY <1>0, <1>2 DEF PageZones
<1>23. LineZones'
  <2>1. wp'["GC"] = NoPage /\ (wp'["USER"] # NoPage => wp'["USER"][2] = 0)
    BY <1>1, <1>2, <1>16 DEF LineZones, Writers
  <2>2. ZoneAt(z, p[1])' /\ written'[z] = 1
    <3>1. written'[z] = 1
      BY <1>1, <1>2 DEF Types
    <3>2. \A i \in Offs : i < 1 <=> i = 0
      BY <1>4
    <3>3. \A i \in Offs : IF i < 1 THEN maptbl'[<<z, i>>] = <<p[1], i>>
                          ELSE maptbl'[<<z, i>>] = RSV_PPA /\ status'[<<p[1], i>>] = "FREE"
      BY <1>7, <1>13, <1>18, <3>2
    <3> QED
      BY <1>0, <3>1, <3>3 DEF ZoneAt
  <2>3. ASSUME NEW y \in Zones, y # z
        PROVE  /\ written'[y] = written[y]
               /\ IF written[y] = 0 THEN \A i \in Offs : maptbl'[<<y, i>>] \notin Pages
                  ELSE \E m \in full' : ZoneAt(y, m)'
    <3>1. written'[y] = written[y]
      BY <1>1, <1>2, <2>3 DEF Types
    <3>2. CASE written[y] = 0
      BY <1>1, <1>2, <1>3, <1>18, <2>3, <3>1, <3>2 DEF LineZones
    <3>3. CASE written[y] # 0
      <4>1. PICK m \in full : ZoneAt(y, m)
        BY <1>1, <1>2, <1>3, <3>3 DEF LineZones
      <4>2. m \in Lines \ {p[1]} /\ m \in full'
        BY <1>1, <1>17, <4>1 DEF Types
      <4>3. ZoneAt(y, m)'
        BY <1>0, <1>13, <1>18, <2>3, <3>1, <4>1, <4>2 DEF ZoneAt
      <4> QED
        BY <3>1, <3>3, <4>2, <4>3
    <3> QED
      BY <3>2, <3>3
  <2>4. \A y \in Zones : IF written'[y] = 0 THEN \A i \in Offs : maptbl'[<<y, i>>] \notin Pages
                         ELSE \E m \in full' : ZoneAt(y, m)'
    <3> SUFFICES ASSUME NEW y \in Zones
                 PROVE  IF written'[y] = 0 THEN \A i \in Offs : maptbl'[<<y, i>>] \notin Pages
                        ELSE \E m \in full' : ZoneAt(y, m)'
      OBVIOUS
    <3>1. CASE y = z
      BY <1>17, <2>2, <3>1
    <3>2. CASE y # z
      BY <2>3, <3>2
    <3> QED
      BY <3>1, <3>2
  <2> QED
    BY <1>0, <1>3, <1>17, <2>1, <2>4 DEF LineZones
<1> QED
  BY <1>3, <1>11, <1>16, <1>19, <1>20, <1>21, <1>22, <1>23 DEF FtlInv, Tables, WriterMoved

\* A later page of a zone.
LEMMA WriteReservedKeeps ==
  ASSUME FtlInv, ns' = ns, NEW z \in Zones, WriteReserved(z)
  PROVE  FtlInv'
<1>0. Lines' = Lines /\ Zones' = Zones /\ Offs' = Offs /\ Pages' = Pages /\ Lpns' = Lpns
      /\ Beyond' = Beyond /\ PgsPerLine' = PgsPerLine /\ Mapping' = Mapping
  BY NamespaceStays
<1>1. /\ Types /\ Census /\ Counted(status, vpc, ipc, rpc) /\ OnLines(status) /\ InRange
      /\ Agree(Lpns, Pages, Beyond, maptbl, rmap, status)
      /\ JobOK /\ LineZones /\ Geometry
  BY GeometryHolds DEF FtlInv, Types
<1>2. PICK lpn, p :
      /\ lpn = <<z, written[z]>> /\ p = NextPage(maptbl[<<z, written[z] - 1>>])
      /\ Mapping = "ZONE" /\ job = Idle /\ ~noSpace /\ Charge
      /\ written[z] < PgsPerLine /\ written[z] > 0
      /\ PutPage(lpn, p, maptbl, rmap, status, vpc)
      /\ rpc' = [rpc EXCEPT ![p[1]] = @ - 1] /\ ipc' = ipc
      /\ written' = [written EXCEPT ![z] = @ + 1]
  <2>1. \E lpn, p : lpn = <<z, written[z]>> /\ p = NextPage(maptbl[<<z, written[z] - 1>>])
    OBVIOUS
  <2> QED
    BY <2>1 DEF WriteReserved, CanWrite
<1>3. /\ free' = free /\ full' = full /\ victim' = victim /\ wp' = wp
      /\ noSpace' = noSpace /\ halted' = halted
  BY DEF WriteReserved, lines
<1>4. /\ credits' \in Int /\ refill' \in 0 .. PgsPerLine /\ job' \in JobType
      /\ job.kind = "idle" /\ job'.kind \in {"idle", "collect"}
      /\ GcLines = {} /\ GcLines' = {} /\ JobOK'
      /\ \A y \in Zones : ~Resetting(y) /\ ~Resetting(y)'
  BY <1>1, <1>2, ChargeKeeps
<1>5. PICK l \in full : ZoneAt(z, l)
  <2>1. written[z] # 0
    BY <1>1, <1>2 DEF Types, Geometry
  <2> QED
    BY <1>1, <1>2, <1>4, <2>1 DEF LineZones
<1>6. PICK k \in Offs : k = written[z] /\ k - 1 \in Offs /\ k # 0
  BY <1>1, <1>2 DEF Types, Geometry
<1>7. p = <<l, k>> /\ maptbl[lpn] = RSV_PPA /\ status[p] = "FREE" /\ lpn = <<z, k>>
  <2>1. k - 1 < written[z] /\ ~(k < written[z]) /\ (k - 1) + 1 = k
    BY <1>1, <1>6 DEF Geometry
  <2>2. maptbl[<<z, k - 1>>] = <<l, k - 1>>
    BY <1>5, <1>6, <2>1 DEF ZoneAt
  <2>3. p = <<l, k>>
    BY <1>2, <1>6, <2>1, <2>2 DEF NextPage
  <2> QED
    BY <1>2, <1>5, <1>6, <2>1, <2>3 DEF ZoneAt
<1>8. /\ p \in Pages /\ p[1] = l /\ p[2] = k /\ l \in Lines /\ lpn \in Lpns
      /\ l \in LeftLines /\ p \notin Beyond /\ maptbl[lpn] \notin Pages
  <2>1. l \in Lines /\ l \in LeftLines
    BY <1>1, <1>5 DEF Types, LeftLines
  <2> QED
    BY <1>1, <1>2, <1>6, <1>7, <2>1 DEF Geometry, InRange
<1>9. Tables(maptbl, rmap, status) /\ status \in [Pages -> Statuses]
  BY <1>1 DEF Types, Tables
<1>10. /\ vpc = [m \in Lines |-> Count(Offs, status, m, "VALID")]
       /\ ipc = [m \in Lines |-> Count(Offs, status, m, "INVALID")]
       /\ rpc = [m \in Lines |-> IF m \in LeftLines THEN Count(Offs, status, m, "FREE") ELSE 0]
  BY <1>1 DEF Counted
<1>11. /\ maptbl' = [maptbl EXCEPT ![lpn] = p] /\ status' = [status EXCEPT ![p] = "VALID"]
       /\ Tables(maptbl, rmap, status)'
       /\ vpc' = [m \in Lines |-> Count(Offs, status', m, "VALID")]
       /\ \A m \in Lines : Count(Offs, status', m, "INVALID") = Count(Offs, status, m, "INVALID")
       /\ \A m \in Lines : Count(Offs, status', m, "FREE")
                             = IF m = p[1] THEN Count(Offs, status, m, "FREE") - 1
                                           ELSE Count(Offs, status, m, "FREE")
  BY <1>1, <1>2, <1>7, <1>8, <1>9, <1>10, PutPageKeeps
<1>12. /\ status'[p] = "VALID"
       /\ \A m \in Lines, o \in Offs : m # l \/ o # k => status'[<<m, o>>] = status[<<m, o>>]
  <2>1. \A q \in Pages : q # p => status'[q] = status[q]
    BY <1>11, <1>9
  <2> SUFFICES ASSUME NEW m \in Lines, NEW o \in Offs, m # l \/ o # k
               PROVE  status'[<<m, o>>] = status[<<m, o>>]
    BY <1>8, <1>9, <1>11
  <2>2. <<m, o>> # p /\ <<m, o>> \in Pages
    BY <1>1, <1>7 DEF Geometry
  <2> QED
    BY <2>1, <2>2
<1>13. /\ maptbl'[<<z, k>>] = p
       /\ \A y \in Zones, i \in Offs : y # z \/ i # k => maptbl'[<<y, i>>] = maptbl[<<y, i>>]
  <2>1. DOMAIN maptbl = Lpns
    BY <1>1 DEF Types
  <2>2. \A y \in Zones, i \in Offs : <<y, i>> \in Lpns /\ (y # z \/ i # k => <<y, i>> # lpn)
    BY <1>1, <1>7 DEF Geometry
  <2> QED
    BY <1>7, <1>8, <1>11, <2>1, <2>2
<1>14. LeftLines' = LeftLines /\ Elems(free)' = Elems(free) /\ \A w \in Writers : Under(w)' = Under(w)
  BY <1>3, <1>4 DEF LeftLines, Elems, Under
<1>15. Types'
  <2>1. written' \in [Zones -> 0 .. PgsPerLine]
    <3>1. written \in [Zones -> 0 .. PgsPerLine]
      BY <1>1 DEF Types
    <3>2. written[z] + 1 \in 0 .. PgsPerLine
      BY <1>1, <1>6 DEF Geometry
    <3> QED
      BY <1>2, <3>1, <3>2
  <2> QED
    BY <1>0, <1>1, <1>3, <1>4, <1>11, <2>1 DEF Types, Tables, JobType
<1>16. Census'
  BY <1>0, <1>1, <1>3, <1>4, <1>14 DEF Census, Distinct
<1>17. Counted(status, vpc, ipc, rpc)'
  <2>1. ipc' = [m \in Lines |-> Count(Offs, status', m, "INVALID")]
    BY <1>2, <1>10, <1>11
  <2>2. \A m \in Lines : rpc'[m] = IF m \in LeftLines' THEN Count(Offs, status', m, "FREE") ELSE 0
    BY <1>2, <1>8, <1>10, <1>11, <1>14
  <2>3. rpc' = [m \in Lines |-> IF m \in LeftLines' THEN Count(Offs, status', m, "FREE") ELSE 0]
    <3>1. rpc' = [m \in Lines |-> rpc'[m]]
      BY <1>2, <1>10
    <3> QED
      BY <2>2, <3>1
  <2> QED
    BY <1>0, <1>11, <2>1, <2>3 DEF Counted
<1>18. OnLines(status)'
  <2>1. \A m \in Elems(free), o \in Offs : status'[<<m, o>>] = "FREE"
    <3> SUFFICES ASSUME NEW m \in Elems(free), NEW o \in Offs PROVE status'[<<m, o>>] = "FREE"
      OBVIOUS
    <3>1. m \in Lines /\ m # l
      BY <1>1, <1>8 DEF Census, Types, Elems
    <3>2. status[<<m, o>>] = "FREE"
      BY <1>1 DEF OnLines
    <3> QED
      BY <1>12, <3>1, <3>2
  <2>2. ASSUME NEW w \in Writers, wp[w] # NoPage, NEW o \in Offs
        PROVE  status'[<<wp[w][1], o>>] = "FREE" <=> o >= wp[w][2]
    <3>1. wp[w] \in Pages /\ wp[w][1] \in Under(w)
      BY <1>1, <2>2 DEF Types, Under
    <3>2. wp[w][1] \in Lines \ {l}
      BY <1>1, <1>8, <3>1 DEF Census, Geometry
    <3> QED
      BY <1>1, <1>12, <2>2, <3>2 DEF OnLines
  <2>3. \A m \in full, o \in Offs : status'[<<m, o>>] # "INVALID"
    <3> SUFFICES ASSUME NEW m \in full, NEW o \in Offs PROVE status'[<<m, o>>] # "INVALID"
      OBVIOUS
    <3>1. m \in Lines /\ status[<<m, o>>] # "INVALID"
      BY <1>1 DEF Types, OnLines
    <3>2. CASE m = l /\ o = k
      BY <1>7, <1>12, <3>2
    <3>3. CASE ~(m = l /\ o = k)
      BY <1>12, <3>1, <3>3
    <3> QED
      BY <3>2, <3>3
  <2>4. victim = {} /\ GcLines' = {}
    BY <1>1, <1>2, <1>4 DEF LineZones
  <2> QED
    BY <1>0, <1>2, <1>3, <1>14, <2>1, <2>2, <2>3, <2>4 DEF OnLines
<1>19. InRange'
  BY <1>0, <1>1, <1>3, <1>14 DEF InRange
<1>20. PageZones'
  BY <1>0, <1>2 DEF PageZones
<1>21. LineZones'
  <2>1. written'[z] = k + 1 /\ \A y \in Zones \ {z} : written'[y] = written[y]
    BY <1>1, <1>2, <1>6 DEF Types
  <2>2. ZoneAt(z, l)'
    <3>1. ASSUME NEW i \in Offs
          PROVE  IF i < k + 1 THEN maptbl'[<<z, i>>] = <<l, i>>
                 ELSE maptbl'[<<z, i>>] = RSV_PPA /\ status'[<<l, i>>] = "FREE"
      <4>1. i \in Int /\ k \in Int
        BY <1>1 DEF Geometry
      <4>2. CASE i = k
        BY <1>7, <1>13, <4>1, <4>2
      <4>3. CASE i # k
        <5>1. IF i < k THEN maptbl[<<z, i>>] = <<l, i>>
              ELSE maptbl[<<z, i>>] = RSV_PPA /\ status[<<l, i>>] = "FREE"
          BY <1>5, <1>6 DEF ZoneAt
        <5>2. maptbl'[<<z, i>>] = maptbl[<<z, i>>] /\ status'[<<l, i>>] = status[<<l, i>>]
          BY <1>8, <1>12, <1>13, <4>3
        <5> QED
          BY <4>1, <4>3, <5>1, <5>2
      <4> QED
        BY <4>2, <4>3
    <3> QED
      BY <1>0, <2>1, <3>1 DEF ZoneAt
  <2>3. ASSUME NEW y \in Zones
        PROVE  IF written'[y] = 0 THEN \A i \in Offs : maptbl'[<<y, i>>] \notin Pages
               ELSE \E m \in full : ZoneAt(y, m)'
    <3>1. CASE y = z
      <4>1. k + 1 # 0
        BY <1>1 DEF Geometry
      <4> QED
        BY <2>1, <2>2, <3>1, <4>1
    <3>2. CASE y # z /\ written[y] = 0
      BY <1>1, <1>2, <1>4, <1>13, <2>1, <3>2 DEF LineZones
    <3>3. CASE y # z /\ written[y] # 0
      <4>1. PICK m \in full : ZoneAt(y, m)
        BY <1>1, <1>2, <1>4, <3>3 DEF LineZones
      <4>2. m # l
        <5> SUFFICES ASSUME m = l PROVE FALSE
          OBVIOUS
        <5>1. 0 \in Offs /\ 0 < written[y] /\ 0 < written[z]
          <6>1. 0 \in Offs
            BY <1>1 DEF Geometry
          <6>2. written[y] \in 0 .. PgsPerLine /\ written[z] \in 0 .. PgsPerLine
            BY <1>1 DEF Types
          <6>3. written[z] # 0
            BY <1>6
          <6> QED
            BY <3>3, <6>1, <6>2, <6>3
        <5>2. maptbl[<<y, 0>>] = <<l, 0>> /\ maptbl[<<z, 0>>] = <<l, 0>>
          BY <1>5, <4>1, <5>1 DEF ZoneAt
        <5>3. <<l, 0>> \in Pages /\ <<y, 0>> \in Lpns /\ <<z, 0>> \in Lpns /\ <<y, 0>> # <<z, 0>>
          BY <1>1, <1>8, <3>3, <5>1 DEF Geometry
        <5> QED
          BY <1>1, <5>2, <5>3 DEF Agree
      <4>3. m \in Lines
        BY <1>1 DEF Types
      <4>4. ZoneAt(y, m)'
        BY <1>0, <1>12, <1>13, <2>1, <3>3, <4>1, <4>2, <4>3 DEF ZoneAt
      <4> QED
        BY <2>1, <3>3, <4>4
    <3> QED
      BY <3>1, <3>2, <3>3
  <2>4. victim = {} /\ wp["GC"] = NoPage /\ (wp["USER"] # NoPage => wp["USER"][2] = 0)
    BY <1>1, <1>2, <1>4 DEF LineZones
  <2> QED
    BY <1>0, <1>3, <1>4, <2>3, <2>4 DEF LineZones
<1> QED
  BY <1>4, <1>11, <1>15, <1>16, <1>17, <1>18, <1>19, <1>20, <1>21 DEF FtlInv, Tables

-----------------------------------------------------------------------------
(* A page loses its data.                                                  *)

\* The tables after logical page lpn is taken from page old.
Dropped(lpn, old, mt, rm, st, vp, ip) ==
  /\ old = maptbl[lpn]
  /\ mt = [maptbl EXCEPT ![lpn] = UNMAPPED_PPA]
  /\ rm = SetRmap(rmap, old, INVALID_LPN)
  /\ st = [status EXCEPT ![old] = "INVALID"]
  /\ vp = [vpc EXCEPT ![old[1]] = @ - 1]
  /\ ip = [ipc EXCEPT ![old[1]] = @ + 1]

LEMMA DropKeeps ==
  ASSUME Geometry, Types, Counted(status, vpc, ipc, rpc),
         Agree(Lpns, Pages, Beyond, maptbl, rmap, status),
         NEW lpn \in Lpns, NEW old \in Pages, NEW mt, NEW rm, NEW st, NEW vp, NEW ip,
         Dropped(lpn, old, mt, rm, st, vp, ip)
  PROVE  /\ status[old] = "VALID"
         /\ Tables(mt, rm, st)
         /\ vp = [l \in Lines |-> Count(Offs, st, l, "VALID")]
         /\ ip = [l \in Lines |-> Count(Offs, st, l, "INVALID")]
         /\ \A l \in Lines : Count(Offs, st, l, "FREE") = Count(Offs, status, l, "FREE")
<1>1. old = maptbl[lpn]
  BY DEF Dropped
<1>2. status[old] = "VALID" /\ old \notin Beyond
  <2>1. INVALID_LPN \notin Lpns
    BY DEF Geometry
  <2> QED
    BY <1>1, <2>1 DEF Agree
<1>3. /\ mt = [maptbl EXCEPT ![lpn] = UNMAPPED_PPA] /\ rm = [rmap EXCEPT ![old] = INVALID_LPN]
      /\ st = [status EXCEPT ![old] = "INVALID"]
      /\ vp = [vpc EXCEPT ![old[1]] = @ - 1] /\ ip = [ipc EXCEPT ![old[1]] = @ + 1]
  BY <1>2 DEF Dropped, SetRmap, Geometry
<1>4. /\ mt \in [Lpns -> Pages \cup {UNMAPPED_PPA, RSV_PPA}]
      /\ rm \in [Pages -> Lpns \cup {INVALID_LPN}]
      /\ st \in [Pages -> Statuses]
  BY <1>3 DEF Types, Statuses
<1>5. Tables(mt, rm, st)
  <2>1. Takes(lpn, old, maptbl, rmap, status, mt, rm, st)
    BY <1>1, <1>3 DEF Takes
  <2>2. DOMAIN maptbl = Lpns /\ DOMAIN rmap = Pages /\ DOMAIN status = Pages
    BY DEF Types
  <2>3. INVALID_LPN \notin Lpns /\ UNMAPPED_PPA \notin Pages
    BY DEF Geometry
  <2>4. Agree(Lpns, Pages, Beyond, mt, rm, st)
    BY <2>1, <2>2, <2>3, AgreeDrop
  <2> QED
    BY <1>4, <2>4 DEF Tables
<1>6. old[1] \in Lines
  BY DEF Geometry
<1>7. ASSUME NEW l \in Lines
      PROVE  /\ Count(Offs, st, l, "VALID") = IF l = old[1] THEN Count(Offs, status, l, "VALID") - 1
                                                           ELSE Count(Offs, status, l, "VALID")
             /\ Count(Offs, st, l, "INVALID") = IF l = old[1] THEN Count(Offs, status, l, "INVALID") + 1
                                                             ELSE Count(Offs, status, l, "INVALID")
             /\ Count(Offs, st, l, "FREE") = Count(Offs, status, l, "FREE")
  <2>1. Turns(status, st, old, "INVALID")
    BY <1>2, <1>3 DEF Turns
  <2>2. "INVALID" \in Statuses /\ status \in [Pages -> Statuses]
    BY DEF Statuses, Types
  <2>3. /\ l # old[1] => \A s : Count(Offs, st, l, s) = Count(Offs, status, l, s)
        /\ l = old[1] => /\ Count(Offs, st, l, "INVALID") = Count(Offs, status, l, "INVALID") + 1
                         /\ Count(Offs, st, l, status[old]) = Count(Offs, status, l, status[old]) - 1
                         /\ \A s : s # "INVALID" /\ s # status[old] =>
                              Count(Offs, st, l, s) = Count(Offs, status, l, s)
    BY <2>1, <2>2, CountPage
  <2> QED
    BY <1>2, <2>3
<1>8. /\ vpc = [l \in Lines |-> Count(Offs, status, l, "VALID")]
      /\ ipc = [l \in Lines |-> Count(Offs, status, l, "INVALID")]
  BY DEF Counted
<1>9. vp = [l \in Lines |-> Count(Offs, st, l, "VALID")]
  <2>1. DOMAIN vp = Lines /\ \A l \in Lines : vp[l] = Count(Offs, st, l, "VALID")
    BY <1>3, <1>6, <1>7, <1>8
  <2>2. vp = [l \in Lines |-> vp[l]]
    BY <1>3, <1>8
  <2> QED
    BY <2>1, <2>2
<1>10. ip = [l \in Lines |-> Count(Offs, st, l, "INVALID")]
  <2>1. DOMAIN ip = Lines /\ \A l \in Lines : ip[l] = Count(Offs, st, l, "INVALID")
    BY <1>3, <1>6, <1>7, <1>8
  <2>2. ip = [l \in Lines |-> ip[l]]
    BY <1>3, <1>8
  <2> QED
    BY <2>1, <2>2
<1> QED
  BY <1>2, <1>5, <1>7, <1>9, <1>10

\* internal_write of a page of the victim.
LEMMA MoveKeeps ==
  ASSUME FtlInv, ns' = ns, MovePage
  PROVE  FtlInv'
<1>0. Lines' = Lines /\ Zones' = Zones /\ Offs' = Offs /\ Pages' = Pages /\ Lpns' = Lpns
      /\ Beyond' = Beyond /\ PgsPerLine' = PgsPerLine /\ Mapping' = Mapping
  BY NamespaceStays
<1>1. /\ Types /\ Census /\ Counted(status, vpc, ipc, rpc) /\ OnLines(status) /\ InRange
      /\ Agree(Lpns, Pages, Beyond, maptbl, rmap, status)
      /\ JobOK /\ PageZones /\ LineZones /\ Geometry
  BY GeometryHolds DEF FtlInv, Types
<1>2. PICK lpn, old, mt, rm, st, vp, ip :
      /\ lpn = rmap[job.at] /\ lpn \in Lpns /\ old \in Pages
      /\ Dropped(lpn, old, mt, rm, st, vp, ip)
      /\ job.kind = "gc" /\ job.at[2] < PgsPerLine /\ status[job.at] = "VALID"
      /\ ipc' = ip /\ rpc' = rpc
      /\ \/ /\ noSpace
            /\ maptbl' = mt /\ rmap' = rm /\ status' = st /\ vpc' = vp
            /\ UNCHANGED <<lines, wp, noSpace, halted>>
         \/ /\ ~noSpace
            /\ CanOpen("GC")
            /\ PutPage(lpn, PageOf("GC"), mt, rm, st, vp)
            /\ Advance("GC", PageOf("GC"))
  <2>1. \E lpn, old, mt, rm, st, vp, ip :
          /\ lpn = rmap[job.at] /\ old = maptbl[lpn] /\ mt = [maptbl EXCEPT ![lpn] = UNMAPPED_PPA]
          /\ rm = SetRmap(rmap, old, INVALID_LPN) /\ st = [status EXCEPT ![old] = "INVALID"]
          /\ vp = [vpc EXCEPT ![old[1]] = @ - 1] /\ ip = [ipc EXCEPT ![old[1]] = @ + 1]
    OBVIOUS
  <2> QED
    BY <2>1 DEF MovePage, InVictim, Dropped, mapped
<1>3. /\ job' = [job EXCEPT !.at = <<job.at[1], job.at[2] + 1>>]
      /\ credits' = credits /\ refill' = refill /\ written' = written
  BY DEF MovePage, NextInVictim, flow
<1>4. /\ job.at[1] \in Lines /\ job.at[2] \in Offs /\ job.at \in Pages
      /\ job.at = <<job.at[1], job.at[2]>>
  BY <1>1, <1>2 DEF JobOK, Geometry
<1>5. PICK v \in Lines, k \in Offs : job.at = <<v, k>>
  BY <1>4
<1>6. /\ job'.kind = "gc" /\ job' \in JobType /\ job'.at = <<v, k + 1>> /\ job'.at \in Lines \X (0 .. PgsPerLine)
  <2>1. job \in JobType
    BY <1>1 DEF Types, JobType
  <2>2. <<v, k + 1>> \in Lines \X (0 .. PgsPerLine) /\ Zones = Lines
    BY <1>1 DEF Geometry
  <2>3. job' = [job EXCEPT !.at = <<v, k + 1>>]
    BY <1>3, <1>5
  <2> QED
    BY <1>2, <2>1, <2>2, <2>3 DEF JobType
<1>7. GcLines = {v} /\ GcLines' = {v} /\ v \in LeftLines
  BY <1>2, <1>5, <1>6 DEF GcLines, LeftLines
<1>8. \A z \in Zones : ~Resetting(z) /\ ~Resetting(z)'
  BY <1>2, <1>6 DEF Resetting
<1>9. old = job.at
  <2>1. old = maptbl[lpn]
    BY <1>2 DEF Dropped
  <2> QED
    BY <1>1, <1>2, <1>4, <2>1 DEF Agree, Geometry
<1>10. /\ Tables(mt, rm, st)
       /\ vp = [l \in Lines |-> Count(Offs, st, l, "VALID")]
       /\ ip = [l \in Lines |-> Count(Offs, st, l, "INVALID")]
       /\ \A l \in Lines : Count(Offs, st, l, "FREE") = Count(Offs, status, l, "FREE")
  BY <1>1, <1>2, DropKeeps
<1>11. /\ mt = [maptbl EXCEPT ![lpn] = UNMAPPED_PPA] /\ st = [status EXCEPT ![old] = "INVALID"]
       /\ maptbl[lpn] = old
  BY <1>2 DEF Dropped
<1>12. /\ st \in [Pages -> Statuses] /\ st[<<v, k>>] = "INVALID"
       /\ \A l \in Lines, o \in Offs : l # v \/ o # k => st[<<l, o>>] = status[<<l, o>>]
  <2>1. st \in [Pages -> Statuses] /\ st[<<v, k>>] = "INVALID"
    BY <1>1, <1>2, <1>5, <1>9, <1>10, <1>11 DEF Tables, Types
  <2>2. ASSUME NEW l \in Lines, NEW o \in Offs, l # v \/ o # k
        PROVE  st[<<l, o>>] = status[<<l, o>>]
    <3>1. <<l, o>> \in Pages /\ <<l, o>> # old
      BY <1>1, <1>5, <1>9, <2>2 DEF Geometry
    <3> QED
      BY <1>1, <1>11, <3>1 DEF Types
  <2> QED
    BY <2>1, <2>2
<1>13. Mapping = "PAGE"
  BY <1>1, <1>2 DEF LineZones, Geometry
<1>14. OnLines(st)
  <2>1. \A l \in Elems(free), o \in Offs : st[<<l, o>>] = "FREE"
    <3> SUFFICES ASSUME NEW l \in Elems(free), NEW o \in Offs PROVE st[<<l, o>>] = "FREE"
      OBVIOUS
    <3>1. l \in Lines /\ l # v
      BY <1>1, <1>7 DEF Census, Types, Elems
    <3> QED
      BY <1>1, <1>12, <3>1 DEF OnLines
  <2>2. ASSUME NEW w \in Writers, wp[w] # NoPage, NEW o \in Offs
        PROVE  st[<<wp[w][1], o>>] = "FREE" <=> o >= wp[w][2]
    <3>1. wp[w] \in Pages /\ wp[w][1] \in Under(w)
      BY <1>1, <2>2 DEF Types, Under
    <3>2. wp[w][1] \in Lines /\ wp[w][1] # v
      BY <1>1, <1>7, <3>1 DEF Census, Geometry
    <3> QED
      BY <1>1, <1>12, <2>2, <3>2 DEF OnLines
  <2>3. \A l \in full, o \in Offs : st[<<l, o>>] # "INVALID"
    <3> SUFFICES ASSUME NEW l \in full, NEW o \in Offs PROVE st[<<l, o>>] # "INVALID"
      OBVIOUS
    <3>1. l \in Lines /\ l # v
      BY <1>1, <1>7 DEF Census, Types
    <3>2. status[<<l, o>>] # "INVALID"
      BY <1>1 DEF OnLines
    <3> QED
      BY <1>12, <3>1, <3>2
  <2>4. \A l \in victim \cup GcLines : \E o \in Offs : st[<<l, o>>] = "INVALID"
    <3> SUFFICES ASSUME NEW l \in victim \cup GcLines PROVE \E o \in Offs : st[<<l, o>>] = "INVALID"
      OBVIOUS
    <3>1. CASE l = v
      BY <1>12, <3>1
    <3>2. CASE l # v
      <4>1. l \in Lines
        BY <1>1, <1>7 DEF Types
      <4>2. PICK o \in Offs : status[<<l, o>>] = "INVALID"
        BY <1>1 DEF OnLines
      <4> QED
        BY <1>12, <3>2, <4>1, <4>2
    <3> QED
      BY <3>1, <3>2
  <2>5. \A l \in LeftLines, o \in Offs : st[<<l, o>>] # "FREE"
    <3> SUFFICES ASSUME NEW l \in LeftLines, NEW o \in Offs PROVE st[<<l, o>>] # "FREE"
      OBVIOUS
    <3>1. l \in Lines
      BY <1>1, <1>7 DEF Types, LeftLines
    <3>2. status[<<l, o>>] # "FREE"
      BY <1>1, <1>13 DEF OnLines
    <3>3. CASE l = v /\ o = k
      BY <1>12, <3>3
    <3>4. CASE ~(l = v /\ o = k)
      BY <1>12, <3>1, <3>2, <3>4
    <3> QED
      BY <3>3, <3>4
  <2> QED
    BY <2>1, <2>2, <2>3, <2>4, <2>5 DEF OnLines
<1>15. \A o \in Offs : o < k + 1 => st[<<v, o>>] # "VALID"
  <2> SUFFICES ASSUME NEW o \in Offs, o < k + 1 PROVE st[<<v, o>>] # "VALID"
    OBVIOUS
  <2>1. CASE o = k
    BY <1>12, <2>1
  <2>2. CASE o # k
    <3>1. o < k
      BY <1>1, <2>2 DEF Geometry
    <3>2. status[<<v, o>>] # "VALID"
      BY <1>1, <1>2, <1>5, <3>1 DEF JobOK
    <3> QED
      BY <1>12, <2>2, <3>2
  <2> QED
    BY <2>1, <2>2
<1>16. LineZones'
  BY <1>0, <1>13 DEF LineZones
<1>17. rpc = [l \in Lines |-> IF l \in LeftLines THEN Count(Offs, status, l, "FREE") ELSE 0]
  BY <1>1 DEF Counted
<1>18. CASE noSpace
  <2>1. /\ maptbl' = mt /\ rmap' = rm /\ status' = st /\ vpc' = vp
        /\ free' = free /\ full' = full /\ victim' = victim /\ wp' = wp
        /\ noSpace' = noSpace /\ halted' = halted
    BY <1>2, <1>18 DEF lines
  <2>2. LeftLines' = LeftLines /\ Elems(free)' = Elems(free) /\ \A w \in Writers : Under(w)' = Under(w)
    BY <1>7, <2>1 DEF LeftLines, Elems, Under
  <2>3. Types'
    BY <1>0, <1>1, <1>3, <1>6, <1>10, <2>1 DEF Types, Tables, JobType
  <2>4. Census'
    BY <1>0, <1>1, <1>7, <2>1, <2>2 DEF Census, Distinct
  <2>5. Counted(status, vpc, ipc, rpc)'
    BY <1>0, <1>2, <1>10, <1>17, <2>1, <2>2 DEF Counted
  <2>6. OnLines(status)'
    BY <1>0, <1>7, <1>14, <2>1, <2>2 DEF OnLines
  <2>7. InRange' /\ PageZones'
    BY <1>18, <2>1 DEF InRange, PageZones
  <2>8. Agree(Lpns, Pages, Beyond, maptbl, rmap, status)'
    BY <1>0, <1>10, <2>1 DEF Tables
  <2>9. JobOK'
    BY <1>0, <1>6, <1>15, <2>1 DEF JobOK
  <2> QED
    BY <1>16, <2>3, <2>4, <2>5, <2>6, <2>7, <2>8, <2>9 DEF FtlInv
<1>19. CASE ~noSpace
  <2>1. PICK p : p = PageOf("GC") /\ CanOpen("GC") /\ PutPage(lpn, p, mt, rm, st, vp) /\ Advance("GC", p)
    BY <1>2, <1>19
  <2>2. Opened("GC", p, FreeLeft("GC"), st)
    BY <1>1, <1>14, <2>1, OpenedHolds DEF Writers
  <2>3. p \in Pages /\ p[1] \in Lines /\ st[p] = "FREE" /\ p \notin Beyond /\ p[1] \notin LeftLines
    BY <1>19, <2>2 DEF Opened
  <2>4. mt[lpn] \notin Pages
    BY <1>1, <1>2, <1>11 DEF Types, Geometry
  <2>5. /\ maptbl' = [mt EXCEPT ![lpn] = p] /\ status' = [st EXCEPT ![p] = "VALID"]
        /\ Tables(maptbl, rmap, status)'
        /\ vpc' = [l \in Lines |-> Count(Offs, status', l, "VALID")]
        /\ \A l \in Lines : Count(Offs, status', l, "INVALID") = Count(Offs, st, l, "INVALID")
        /\ \A l \in Lines : Count(Offs, status', l, "FREE")
                              = IF l = p[1] THEN Count(Offs, st, l, "FREE") - 1
                                            ELSE Count(Offs, st, l, "FREE")
    BY <1>1, <1>2, <1>10, <2>1, <2>3, <2>4, PutPageKeeps
  <2>6. vpc'[p[1]] = Count(Offs, status', p[1], "VALID") /\ rpc'[p[1]] = 0
    BY <1>2, <1>17, <2>3, <2>5
  <2>7. "GC" \in Writers /\ GcLines' = GcLines
    BY <1>7 DEF Writers
  <2>8. /\ WriterMoved
        /\ LeftLines' = IF p[2] = PgsPerLine - 1 THEN LeftLines \cup {p[1]} ELSE LeftLines
        /\ p[2] = PgsPerLine - 1 => \A o \in Offs : status'[<<p[1], o>>] # "FREE"
    <3>1. Geometry /\ ns' = ns /\ Types /\ Census /\ InRange /\ JobOK
      BY <1>1
    <3>2. st \in [Pages -> Statuses] /\ status' = [st EXCEPT ![p] = "VALID"]
      BY <1>12, <2>5
    <3>3. Advance("GC", p)
      BY <2>1
    <3> QED
      BY <1>13, <1>14, <1>19, <2>2, <2>6, <2>7, <3>1, <3>2, <3>3, AdvanceKeeps
  <2>9. Types'
    BY <1>0, <1>1, <1>3, <1>6, <2>5, <2>8 DEF Types, Tables, WriterMoved, JobType
  <2>10. Counted(status, vpc, ipc, rpc)'
    <3>1. ipc' = [l \in Lines |-> Count(Offs, status', l, "INVALID")]
      BY <1>2, <1>10, <2>5
    <3>2. /\ status' \in [Pages -> Statuses]
          /\ \A l \in Lines : l # p[1] => Count(Offs, status', l, "FREE") = Count(Offs, status, l, "FREE")
      BY <1>0, <1>10, <2>5, <2>9 DEF Types
    <3>3. rpc' = [l \in Lines |-> IF l \in LeftLines' THEN Count(Offs, status', l, "FREE") ELSE 0]
      BY <1>1, <1>2, <1>17, <2>3, <2>8, <3>2, ReservedStay
    <3> QED
      BY <1>0, <2>5, <3>1, <3>3 DEF Counted
  <2>11. InRange'
    BY <1>0, <1>13, <2>8 DEF InRange, WriterMoved
  <2>12. PageZones'
    <3> SUFFICES ASSUME NEW y \in Zones, NEW i \in Offs
                 PROVE  maptbl'[<<y, i>>] \in Pages <=> i < written[y]
      BY <1>0, <1>3, <1>8 DEF PageZones
    <3>1. <<y, i>> \in Lpns /\ (maptbl[<<y, i>>] \in Pages <=> i < written[y])
      BY <1>1, <1>8, <1>13, <1>19 DEF PageZones, Geometry
    <3>2. DOMAIN maptbl = Lpns
      BY <1>1 DEF Types
    <3>3. CASE <<y, i>> = lpn
      BY <1>2, <1>11, <2>3, <2>5, <3>1, <3>2, <3>3
    <3>4. CASE <<y, i>> # lpn
      BY <1>11, <2>5, <3>1, <3>2, <3>4
    <3> QED
      BY <3>3, <3>4
  <2>13. JobOK'
    <3>1. ASSUME NEW o \in Offs, o < k + 1 PROVE status'[<<v, o>>] # "VALID"
      <4>1. <<v, o>> \in Pages /\ <<v, o>> # p
        BY <1>1, <1>7, <2>3 DEF Geometry
      <4>2. status'[<<v, o>>] = st[<<v, o>>]
        BY <1>12, <2>5, <4>1
      <4> QED
        BY <1>15, <3>1, <4>2
    <3> QED
      BY <1>0, <1>6, <3>1 DEF JobOK
  <2> QED
    BY <1>16, <2>5, <2>8, <2>9, <2>10, <2>11, <2>12, <2>13 DEF FtlInv, Tables, WriterMoved
<1> QED
  BY <1>18, <1>19

-----------------------------------------------------------------------------
(* Erase.                                                                  *)

\* erase_line and mark_line_free of a line without valid pages.
LEMMA EraseKeeps ==
  ASSUME Supported, Geometry, ns' = ns, Types, Census, Counted(status, vpc, ipc, rpc),
         OnLines(status), Agree(Lpns, Pages, Beyond, maptbl, rmap, status),
         NEW l \in Lines, l \in LeftLines, l \notin full, GcLines \subseteq {l}, GcLines' = {},
         \A o \in Offs : status[<<l, o>>] # "VALID",
         NEW c, EraseLine(l, c), full' = full, victim' = victim \ {l},
         maptbl' = maptbl, rmap' = rmap, wp' = wp
  PROVE  /\ free' \in Seq(Lines) /\ victim' \subseteq Lines /\ status' \in [Pages -> Statuses]
         /\ Census' /\ Counted(status, vpc, ipc, rpc)' /\ OnLines(status)'
         /\ Agree(Lpns, Pages, Beyond, maptbl, rmap, status)'
         /\ LeftLines' = LeftLines \ {l}
         /\ \A m \in Lines \ {l}, o \in Offs : status'[<<m, o>>] = status[<<m, o>>]
<1>0. Lines' = Lines /\ Offs' = Offs /\ Pages' = Pages /\ Lpns' = Lpns
      /\ Beyond' = Beyond /\ Mapping' = Mapping
  BY NamespaceStays
<1>1. status' = [p \in Pages |-> IF p[1] = l THEN "FREE" ELSE status[p]]
  <2>1. status' = [p \in Pages |-> IF p[1] = l /\ PlaneOf(p) = 0 THEN "FREE" ELSE status[p]]
    BY DEF EraseLine, EraseBlocks
  <2>2. \A p \in Pages : PlaneOf(p) = 0
    <3>1. PlsPerLun = 1
      BY DEF Supported, Types, PlsPerLun
    <3>2. \A p \in Pages : p[2] \in Nat
      BY DEF Geometry
    <3> QED
      BY <3>1, <3>2 DEF PlaneOf
  <2> QED
    BY <2>1, <2>2
<1>2. /\ \A m \in Lines, o \in Offs :
           status'[<<m, o>>] = IF m = l THEN "FREE" ELSE status[<<m, o>>]
      /\ status' \in [Pages -> Statuses]
  <2>1. \A m \in Lines, o \in Offs : <<m, o>> \in Pages
    BY DEF Geometry
  <2> QED
    BY <1>1, <2>1 DEF Types, Statuses
<1>3. /\ vpc' = [vpc EXCEPT ![l] = 0] /\ ipc' = [ipc EXCEPT ![l] = 0]
      /\ rpc' = [rpc EXCEPT ![l] = 0] /\ free' = Append(free, l)
  BY DEF EraseLine, ClearCounters, ToFreeList
<1>4. /\ free' \in Seq(Lines) /\ Elems(free)' = Elems(free) \cup {l} /\ Distinct(free')
      /\ l \notin Elems(free)
  <2>1. l \notin Elems(free)
    BY DEF Census
  <2>2. /\ Append(free, l) \in Seq(Lines) /\ Elems(Append(free, l)) = Elems(free) \cup {l}
        /\ Distinct(Append(free, l))
    BY <2>1, AppendElems DEF Types, Census
  <2>3. Elems(free)' = Elems(Append(free, l))
    BY <1>3 DEF Elems
  <2> QED
    BY <1>3, <2>1, <2>2, <2>3
<1>5. /\ LeftLines' = LeftLines \ {l} /\ \A w \in Writers : Under(w)' = Under(w) /\ l \notin Under(w)
  BY DEF LeftLines, Under, Census
<1>6. Census'
  <2>1. \A v, w \in Writers : v # w => Under(v)' \cap Under(w)' = {}
    BY <1>5 DEF Census
  <2>2. \A w \in Writers : Under(w)' \cap (Elems(free)' \cup LeftLines') = {}
    BY <1>4, <1>5 DEF Census
  <2>3. Elems(free)' \cap LeftLines' = {}
    BY <1>4, <1>5 DEF Census
  <2>4. full' \cap victim' = {}
    BY DEF Census
  <2>5. \A m \in Lines : m \in Elems(free)' \cup LeftLines' \/ \E w \in Writers : m \in Under(w)'
    BY <1>4, <1>5 DEF Census
  <2> QED
    BY <1>0, <1>4, <2>1, <2>2, <2>3, <2>4, <2>5 DEF Census
<1>7. Counted(status, vpc, ipc, rpc)'
  <2> DEFINE st2 == status'
  <2>1. /\ st2 \in [Pages -> Statuses] /\ \A o \in Offs : st2[<<l, o>>] = "FREE"
        /\ \A m \in Lines \ {l}, o \in Offs : st2[<<m, o>>] = status[<<m, o>>]
    BY <1>2
  <2> HIDE DEF st2
  <2>2. Count(Offs, st2, l, "VALID") = 0 /\ Count(Offs, st2, l, "INVALID") = 0
    <3>1. \A s : Count(Offs, st2, l, s) = 0 <=> \A o \in Offs : st2[<<l, o>>] # s
      BY <2>1, CountFacts
    <3> QED
      BY <2>1, <3>1
  <2>3. \A m \in Lines \ {l} : \A s : Count(Offs, st2, m, s) = Count(Offs, status, m, s)
    BY <2>1, CountSame
  <2>4. /\ vpc = [m \in Lines |-> Count(Offs, status, m, "VALID")]
        /\ ipc = [m \in Lines |-> Count(Offs, status, m, "INVALID")]
        /\ rpc = [m \in Lines |-> IF m \in LeftLines THEN Count(Offs, status, m, "FREE") ELSE 0]
    BY DEF Counted
  <2>5. vpc' = [m \in Lines |-> Count(Offs, st2, m, "VALID")]
    BY <1>3, <2>2, <2>3, <2>4
  <2>6. ipc' = [m \in Lines |-> Count(Offs, st2, m, "INVALID")]
    BY <1>3, <2>2, <2>3, <2>4
  <2>7. rpc' = [m \in Lines |-> IF m \in LeftLines' THEN Count(Offs, st2, m, "FREE") ELSE 0]
    BY <1>3, <1>5, <2>3, <2>4
  <2> QED
    BY <1>0, <2>5, <2>6, <2>7 DEF Counted, st2
<1>8. OnLines(status)'
  <2>1. \A m \in Elems(free)', o \in Offs : status'[<<m, o>>] = "FREE"
    <3> SUFFICES ASSUME NEW m \in Elems(free)', NEW o \in Offs PROVE status'[<<m, o>>] = "FREE"
      OBVIOUS
    <3>1. CASE m = l
      BY <1>2, <3>1
    <3>2. CASE m # l
      <4>1. m \in Elems(free)
        BY <1>4, <3>2
      <4>2. m \in Lines
        BY <4>1 DEF Types, Elems
      <4>3. status[<<m, o>>] = "FREE"
        BY <4>1 DEF OnLines
      <4> QED
        BY <1>2, <3>2, <4>2, <4>3
    <3> QED
      BY <3>1, <3>2
  <2>2. ASSUME NEW w \in Writers, wp[w] # NoPage, NEW o \in Offs
        PROVE  status'[<<wp[w][1], o>>] = "FREE" <=> o >= wp[w][2]
    <3>1. wp[w] \in Pages /\ wp[w][1] \in Under(w)
      BY <2>2 DEF Types, Under
    <3>2. wp[w][1] \in Lines /\ wp[w][1] # l
      BY <1>5, <3>1 DEF Geometry
    <3> QED
      BY <1>2, <2>2, <3>2 DEF OnLines
  <2>3. \A m \in full, o \in Offs : status'[<<m, o>>] # "INVALID"
    <3> SUFFICES ASSUME NEW m \in full, NEW o \in Offs PROVE status'[<<m, o>>] # "INVALID"
      OBVIOUS
    <3>1. m \in Lines /\ m # l /\ status[<<m, o>>] # "INVALID"
      BY DEF Types, OnLines
    <3> QED
      BY <1>2, <3>1
  <2>4. \A m \in victim' : \E o \in Offs : status'[<<m, o>>] = "INVALID"
    <3> SUFFICES ASSUME NEW m \in victim' PROVE \E o \in Offs : status'[<<m, o>>] = "INVALID"
      OBVIOUS
    <3>1. m \in Lines /\ m # l /\ \E o \in Offs : status[<<m, o>>] = "INVALID"
      BY DEF Types, OnLines
    <3> QED
      BY <1>2, <3>1
  <2>5. Mapping = "PAGE" => \A m \in LeftLines', o \in Offs : status'[<<m, o>>] # "FREE"
    <3> SUFFICES ASSUME Mapping = "PAGE", NEW m \in LeftLines', NEW o \in Offs
                 PROVE  status'[<<m, o>>] # "FREE"
      OBVIOUS
    <3>1. m \in Lines /\ m # l /\ m \in LeftLines
      BY <1>5 DEF Types, LeftLines
    <3>2. status[<<m, o>>] # "FREE"
      BY <3>1 DEF OnLines
    <3> QED
      BY <1>2, <3>1, <3>2
  <2> QED
    BY <1>0, <2>1, <2>2, <2>3, <2>4, <2>5 DEF OnLines
<1>9. Agree(Lpns, Pages, Beyond, maptbl, rmap, status)'
  <2> DEFINE st2 == status'
  <2>1. \A p \in Pages : st2[p] = "VALID" <=> status[p] = "VALID"
    <3> SUFFICES ASSUME NEW p \in Pages PROVE st2[p] = "VALID" <=> status[p] = "VALID"
      OBVIOUS
    <3>1. p = <<p[1], p[2]>> /\ p[2] \in Offs
      BY DEF Geometry
    <3> QED
      BY <1>1, <3>1
  <2> HIDE DEF st2
  <2>2. Agree(Lpns, Pages, Beyond, maptbl, rmap, st2)
    BY <2>1, AgreeQuiet DEF Geometry
  <2> QED
    BY <1>0, <2>2 DEF st2
<1> QED
  BY <1>2, <1>4, <1>5, <1>6, <1>7, <1>8, <1>9 DEF Types

\* The end of do_gc.
LEMMA FinishGcKeeps ==
  ASSUME Supported, FtlInv, ns' = ns, FinishGc
  PROVE  FtlInv'
<1>0. Lines' = Lines /\ Zones' = Zones /\ Offs' = Offs /\ Pages' = Pages /\ Lpns' = Lpns
      /\ Beyond' = Beyond /\ PgsPerLine' = PgsPerLine /\ Mapping' = Mapping
  BY NamespaceStays
<1>1. /\ Types /\ Census /\ Counted(status, vpc, ipc, rpc) /\ OnLines(status) /\ InRange
      /\ Agree(Lpns, Pages, Beyond, maptbl, rmap, status)
      /\ JobOK /\ PageZones /\ LineZones /\ Geometry
  BY GeometryHolds DEF FtlInv, Types
<1>2. PICK l : /\ l = job.at[1] /\ job.kind = "gc" /\ job.at[2] = PgsPerLine
               /\ EraseLine(l, TRUE)
  BY DEF FinishGc
<1>3. /\ credits' = credits + refill /\ job' = Idle /\ maptbl' = maptbl /\ rmap' = rmap
      /\ wp' = wp /\ noSpace' = noSpace /\ refill' = refill /\ written' = written
      /\ halted' = halted
  BY DEF FinishGc
<1>4. job'.kind = "idle" /\ job' \in JobType /\ GcLines' = {} /\ GcLines = {l}
  BY <1>2, <1>3 DEF Idle, JobType, JobKinds, GcLines
<1>5. l \in Lines /\ l \in LeftLines /\ l \notin full /\ l \notin victim
  BY <1>1, <1>2, <1>4 DEF JobOK, LeftLines, Census
<1>6. \A o \in Offs : status[<<l, o>>] # "VALID"
  <2>1. \A o \in Offs : o < PgsPerLine
    BY <1>1 DEF Geometry
  <2> QED
    BY <1>1, <1>2, <2>1 DEF JobOK
<1>7. full' = full /\ victim' = victim \ {l}
  BY <1>2, <1>5 DEF EraseLine, ToFreeList
<1>8. /\ free' \in Seq(Lines) /\ victim' \subseteq Lines /\ status' \in [Pages -> Statuses]
      /\ Census' /\ Counted(status, vpc, ipc, rpc)' /\ OnLines(status)'
      /\ Agree(Lpns, Pages, Beyond, maptbl, rmap, status)'
      /\ LeftLines' = LeftLines \ {l}
  BY <1>1, <1>2, <1>3, <1>4, <1>5, <1>6, <1>7, EraseKeeps
<1>9. Types'
  <2>1. credits' \in Int
    BY <1>1, <1>3 DEF Types, Geometry
  <2> QED
    BY <1>0, <1>1, <1>3, <1>4, <1>7, <1>8, <2>1 DEF Types, JobType
<1>10. InRange'
  BY <1>0, <1>1, <1>3, <1>8 DEF InRange
<1>11. JobOK'
  BY <1>4 DEF JobOK
<1>12. \A z \in Zones : ~Resetting(z) /\ ~Resetting(z)'
  BY <1>2, <1>4 DEF Resetting
<1>13. PageZones'
  BY <1>0, <1>1, <1>3, <1>12 DEF PageZones
<1>14. LineZones'
  BY <1>0, <1>1, <1>2 DEF LineZones
<1> QED
  BY <1>8, <1>9, <1>10, <1>11, <1>13, <1>14 DEF FtlInv

-----------------------------------------------------------------------------
(* Reset.                                                                  *)

\* The first line of a reset is spent: it waits in the queue of victims and
\* holds no data.
LEMMA SpentLine ==
  ASSUME Geometry, Types, Census, Counted(status, vpc, ipc, rpc), OnLines(status),
         GcLines = {}, NEW l \in Lines, Spent(l), \E o \in Offs : status[<<l, o>>] = "INVALID"
  PROVE  /\ l \in victim /\ l \notin full
         /\ vpc[l] = 0 /\ \A o \in Offs : status[<<l, o>>] # "VALID"
<1>1. status \in [Pages -> Statuses] /\ PgsPerLine \in Nat \ {0}
  BY DEF Types, Geometry
<1>2. /\ Count(Offs, status, l, "FREE") + Count(Offs, status, l, "VALID")
           + Count(Offs, status, l, "INVALID") = PgsPerLine
      /\ \A s : /\ Count(Offs, status, l, s) \in 0 .. PgsPerLine
                /\ Count(Offs, status, l, s) = 0 <=> \A o \in Offs : status[<<l, o>>] # s
                /\ Count(Offs, status, l, s) = PgsPerLine <=> \A o \in Offs : status[<<l, o>>] = s
  BY <1>1, CountFacts
<1>3. /\ vpc[l] = Count(Offs, status, l, "VALID") /\ ipc[l] = Count(Offs, status, l, "INVALID")
      /\ rpc[l] = IF l \in LeftLines THEN Count(Offs, status, l, "FREE") ELSE 0
  BY DEF Counted
<1>4. \A w \in Writers : l \notin Under(w)
  <2> SUFFICES ASSUME NEW w \in Writers, l \in Under(w) PROVE FALSE
    OBVIOUS
  <2>1. wp[w] # NoPage /\ wp[w] \in Pages /\ wp[w][1] = l
    BY DEF Under, Types
  <2>2. wp[w][2] \in Offs /\ wp[w][2] >= wp[w][2]
    BY <2>1 DEF Geometry
  <2>3. status[<<l, wp[w][2]>>] = "FREE"
    BY <2>1, <2>2 DEF OnLines
  <2>4. l \notin LeftLines
    BY DEF Census
  <2>5. Count(Offs, status, l, "INVALID") = PgsPerLine
    BY <1>1, <1>2, <1>3, <2>4 DEF Spent
  <2>6. status[<<l, wp[w][2]>>] = "INVALID"
    BY <1>2, <2>2, <2>5
  <2> QED
    BY <2>3, <2>6
<1>5. l \notin Elems(free) /\ l \notin full
  BY DEF OnLines
<1>6. l \in victim
  BY <1>4, <1>5 DEF Census, LeftLines
<1>7. Count(Offs, status, l, "VALID") = 0
  <2>1. l \in LeftLines
    BY <1>6 DEF LeftLines
  <2>2. /\ Count(Offs, status, l, "FREE") \in Nat /\ Count(Offs, status, l, "VALID") \in Nat
        /\ Count(Offs, status, l, "INVALID") \in Nat
    BY <1>2
  <2> QED
    BY <1>1, <1>2, <1>3, <2>1, <2>2 DEF Spent
<1> QED
  BY <1>2, <1>3, <1>5, <1>6, <1>7

\* erase_linked_lines.
LEMMA EraseFirstKeeps ==
  ASSUME Supported, FtlInv, ns' = ns, job.kind \in {"reset", "erase"}, GcLines' = {},
         EraseFirst, maptbl' = maptbl, rmap' = rmap, wp' = wp
  PROVE  /\ free' \in Seq(Lines) /\ full' = full /\ victim' \subseteq Lines
         /\ status' \in [Pages -> Statuses]
         /\ Census' /\ Counted(status, vpc, ipc, rpc)' /\ OnLines(status)'
         /\ Agree(Lpns, Pages, Beyond, maptbl, rmap, status)'
         /\ LeftLines' \subseteq LeftLines
         /\ \A m \in Lines \ {job.first}, o \in Offs : status'[<<m, o>>] = status[<<m, o>>]
         /\ job.first = NoLine => victim' = victim
         /\ job.first # NoLine /\ Spent(job.first) => victim' = victim \ {job.first}
<1>0. Lines' = Lines /\ Offs' = Offs /\ Pages' = Pages /\ Lpns' = Lpns
      /\ Beyond' = Beyond /\ Mapping' = Mapping
  BY NamespaceStays
<1>1. /\ Types /\ Census /\ Counted(status, vpc, ipc, rpc) /\ OnLines(status)
      /\ Agree(Lpns, Pages, Beyond, maptbl, rmap, status)
      /\ JobOK /\ Geometry /\ GcLines = {}
  BY GeometryHolds DEF FtlInv, Types, GcLines
<1>2. CASE job.first # NoLine /\ Spent(job.first)
  <2>1. PICK l : l = job.first
    OBVIOUS
  <2>2. l \in Lines /\ Spent(l) /\ EraseLine(l, FALSE) /\ \E o \in Offs : status[<<l, o>>] = "INVALID"
    BY <1>1, <1>2, <2>1 DEF Types, EraseFirst, JobOK
  <2>3. /\ l \in victim /\ l \notin full /\ vpc[l] = 0
        /\ \A o \in Offs : status[<<l, o>>] # "VALID"
    BY <1>1, <2>2, SpentLine
  <2>4. full' = full /\ victim' = victim \ {l} /\ l \in LeftLines
    <3>1. 0 # PgsPerLine
      BY <1>1 DEF Geometry
    <3> QED
      BY <2>2, <2>3, <3>1 DEF EraseLine, ToFreeList, LeftLines
  <2>5. /\ free' \in Seq(Lines) /\ victim' \subseteq Lines /\ status' \in [Pages -> Statuses]
        /\ Census' /\ Counted(status, vpc, ipc, rpc)' /\ OnLines(status)'
        /\ Agree(Lpns, Pages, Beyond, maptbl, rmap, status)'
        /\ LeftLines' = LeftLines \ {l}
        /\ \A m \in Lines \ {l}, o \in Offs : status'[<<m, o>>] = status[<<m, o>>]
    BY <1>1, <2>2, <2>3, <2>4, EraseKeeps
  <2> QED
    BY <1>2, <2>1, <2>4, <2>5
<1>3. CASE ~(job.first # NoLine /\ Spent(job.first))
  <2>1. /\ status' = status /\ vpc' = vpc /\ ipc' = ipc /\ rpc' = rpc
        /\ free' = free /\ full' = full /\ victim' = victim
    BY <1>3 DEF EraseFirst, lines
  <2>2. LeftLines' = LeftLines /\ Elems(free)' = Elems(free) /\ \A w \in Writers : Under(w)' = Under(w)
    BY <1>1, <2>1 DEF LeftLines, Elems, Under
  <2>3. Census'
    BY <1>0, <1>1, <2>1, <2>2 DEF Census, Distinct
  <2>4. Counted(status, vpc, ipc, rpc)'
    BY <1>0, <1>1, <2>1, <2>2 DEF Counted
  <2>5. OnLines(status)'
    BY <1>0, <1>1, <2>1, <2>2 DEF OnLines
  <2> QED
    BY <1>0, <1>1, <1>3, <2>1, <2>2, <2>3, <2>4, <2>5 DEF Types
<1> QED
  BY <1>2, <1>3

LEMMA ResetEraseKeeps ==
  ASSUME Supported, FtlInv, ns' = ns, ResetErase
  PROVE  FtlInv'
<1>0. Lines' = Lines /\ Zones' = Zones /\ Offs' = Offs /\ Pages' = Pages /\ Lpns' = Lpns
      /\ Beyond' = Beyond /\ PgsPerLine' = PgsPerLine /\ Mapping' = Mapping
  BY NamespaceStays
<1>1. /\ Types /\ Census /\ Counted(status, vpc, ipc, rpc) /\ OnLines(status) /\ InRange
      /\ JobOK /\ PageZones /\ LineZones /\ Geometry
  BY GeometryHolds DEF FtlInv, Types
<1>2. /\ job.kind = "erase" /\ EraseFirst /\ job' = [job EXCEPT !.kind = "reset", !.first = NoLine]
      /\ maptbl' = maptbl /\ rmap' = rmap /\ wp' = wp /\ noSpace' = noSpace
      /\ credits' = credits /\ refill' = refill /\ written' = written /\ halted' = halted
  BY DEF ResetErase, flow
<1>3. /\ job'.kind = "reset" /\ job'.first = NoLine /\ job'.at = job.at /\ job' \in JobType
      /\ GcLines' = {} /\ GcLines = {}
  BY <1>1, <1>2 DEF Types, JobType, JobKinds, GcLines
<1>4. /\ free' \in Seq(Lines) /\ full' = full /\ victim' \subseteq Lines
      /\ status' \in [Pages -> Statuses]
      /\ Census' /\ Counted(status, vpc, ipc, rpc)' /\ OnLines(status)'
      /\ Agree(Lpns, Pages, Beyond, maptbl, rmap, status)'
      /\ LeftLines' \subseteq LeftLines
      /\ \A m \in Lines \ {job.first}, o \in Offs : status'[<<m, o>>] = status[<<m, o>>]
      /\ job.first # NoLine /\ Spent(job.first) => victim' = victim \ {job.first}
  BY <1>2, <1>3, EraseFirstKeeps
<1>5. Types'
  BY <1>0, <1>1, <1>2, <1>3, <1>4 DEF Types, JobType
<1>6. InRange'
  BY <1>0, <1>1, <1>2, <1>4 DEF InRange
<1>7. JobOK'
  BY <1>0, <1>1, <1>2, <1>3 DEF JobOK
<1>8. \A z \in Zones : Resetting(z)' <=> Resetting(z)
  BY <1>2, <1>3 DEF Resetting
<1>9. PageZones'
  BY <1>0, <1>1, <1>2, <1>3, <1>8 DEF PageZones
<1>10. LineZones'
  <2> SUFFICES ASSUME Mapping = "ZONE" PROVE LineZones'
    BY <1>0 DEF LineZones
  <2>1. PICK x \in Zones : x = job.at[1] /\ job.at[2] \in 0 .. PgsPerLine
    BY <1>1, <1>2 DEF JobOK, Geometry
  <2>2. Resetting(x) /\ \A z \in Zones : Resetting(z) => z = x
    BY <1>2, <2>1 DEF Resetting
  <2>3. ZoneLeaves(x, job.at[2])
    BY <1>1, <2>2 DEF LineZones
  <2>4. job.at[2] = PgsPerLine
    <3>1. ~(job.at[2] < PgsPerLine)
      BY <1>2, <2>3 DEF ZoneLeaves
    <3> QED
      BY <1>1, <2>1, <3>1 DEF Geometry
  <2>5. /\ victim = {job.first} /\ \A i \in Offs : status[<<job.first, i>>] = "INVALID"
        /\ \A i \in Offs : i < PgsPerLine => maptbl[<<x, i>>] \notin Pages
    BY <1>2, <2>3, <2>4 DEF ZoneLeaves
  <2>6. job.first \in Lines /\ job.first # NoLine /\ job.first \in LeftLines
    BY <1>1, <2>5 DEF Types, LeftLines, Geometry
  <2>7. Spent(job.first)
    <3> DEFINE l == job.first
    <3>1. status \in [Pages -> Statuses] /\ PgsPerLine \in Nat \ {0} /\ l \in Lines
      BY <1>1, <2>6 DEF Types, Geometry
    <3>2. \A i \in Offs : status[<<l, i>>] = "INVALID"
      BY <2>5
    <3>3. ipc[l] = Count(Offs, status, l, "INVALID") /\ rpc[l] = Count(Offs, status, l, "FREE")
      BY <1>1, <2>6 DEF Counted
    <3> HIDE DEF l
    <3>4. Count(Offs, status, l, "INVALID") = PgsPerLine /\ Count(Offs, status, l, "FREE") = 0
      <4>1. \A s : /\ Count(Offs, status, l, s) = 0 <=> \A o \in Offs : status[<<l, o>>] # s
                   /\ Count(Offs, status, l, s) = PgsPerLine <=> \A o \in Offs : status[<<l, o>>] = s
        BY <1>1, <3>1, CountFacts
      <4> QED
        BY <3>2, <4>1
    <3> QED
      BY <3>1, <3>3, <3>4 DEF Spent, l
  <2>8. victim' = {}
    BY <1>4, <2>5, <2>6, <2>7
  <2>9. ZoneLeaves(x, PgsPerLine)'
    <3>1. ~(PgsPerLine < PgsPerLine)
      BY <1>1 DEF Geometry
    <3> QED
      BY <1>0, <1>2, <1>3, <2>5, <2>8, <3>1 DEF ZoneLeaves
  <2>10. ASSUME NEW y \in Zones, y # x
         PROVE  IF written'[y] = 0 THEN \A i \in Offs : maptbl'[<<y, i>>] \notin Pages
                ELSE \E m \in full' : ZoneAt(y, m)'
    <3>1. CASE written[y] = 0
      BY <1>1, <1>2, <2>2, <2>10, <3>1 DEF LineZones
    <3>2. CASE written[y] # 0
      <4>1. PICK m \in full : ZoneAt(y, m)
        BY <1>1, <2>2, <2>10, <3>2 DEF LineZones
      <4>2. m \in Lines /\ m # job.first
        BY <1>1, <2>5 DEF Types, Census
      <4>3. ZoneAt(y, m)'
        BY <1>0, <1>2, <1>4, <4>1, <4>2 DEF ZoneAt
      <4> QED
        BY <1>2, <1>4, <3>2, <4>3
    <3> QED
      BY <3>1, <3>2
  <2>11. wp["GC"] = NoPage /\ (wp["USER"] # NoPage => wp["USER"][2] = 0)
    BY <1>1 DEF LineZones
  <2>12. \A y \in Zones : IF Resetting(y)' THEN ZoneLeaves(y, PgsPerLine)'
           ELSE IF written'[y] = 0 THEN \A i \in Offs : maptbl'[<<y, i>>] \notin Pages
           ELSE \E m \in full' : ZoneAt(y, m)'
    BY <1>8, <2>2, <2>9, <2>10
  <2>13. PgsPerLine' = job'.at[2]
    BY <1>0, <1>3, <2>4
  <2> QED
    BY <1>0, <1>2, <1>3, <2>11, <2>12, <2>13 DEF LineZones
<1> QED
  BY <1>4, <1>5, <1>6, <1>7, <1>9, <1>10 DEF FtlInv

LEMMA FinishResetKeeps ==
  ASSUME Supported, FtlInv, ns' = ns, FinishReset
  PROVE  FtlInv'
<1>0. Lines' = Lines /\ Zones' = Zones /\ Offs' = Offs /\ Pages' = Pages /\ Lpns' = Lpns
      /\ Beyond' = Beyond /\ PgsPerLine' = PgsPerLine /\ Mapping' = Mapping
  BY NamespaceStays
<1>1. /\ Types /\ Census /\ Counted(status, vpc, ipc, rpc) /\ OnLines(status) /\ InRange
      /\ JobOK /\ PageZones /\ LineZones /\ Geometry
  BY GeometryHolds DEF FtlInv, Types
<1>2. /\ job.kind = "reset" /\ ~InZone /\ EraseFirst /\ job' = Idle
      /\ written' = [written EXCEPT ![job.at[1]] = 0]
      /\ maptbl' = maptbl /\ rmap' = rmap /\ wp' = wp /\ noSpace' = noSpace
      /\ credits' = credits /\ refill' = refill /\ halted' = halted
  BY DEF FinishReset, flow
<1>3. job'.kind = "idle" /\ job' \in JobType /\ GcLines' = {}
  BY <1>2 DEF Idle, JobType, JobKinds, GcLines
<1>4. /\ free' \in Seq(Lines) /\ full' = full /\ victim' \subseteq Lines
      /\ status' \in [Pages -> Statuses]
      /\ Census' /\ Counted(status, vpc, ipc, rpc)' /\ OnLines(status)'
      /\ Agree(Lpns, Pages, Beyond, maptbl, rmap, status)'
      /\ LeftLines' \subseteq LeftLines
      /\ \A m \in Lines \ {job.first}, o \in Offs : status'[<<m, o>>] = status[<<m, o>>]
      /\ job.first = NoLine => victim' = victim
  BY <1>2, <1>3, EraseFirstKeeps
<1>5. PICK x \in Zones, k \in 0 .. PgsPerLine : job.at = <<x, k>> /\ job.at[1] = x /\ job.at[2] = k
  BY <1>1, <1>2 DEF JobOK, Geometry
<1>6. /\ Resetting(x) /\ \A z \in Zones \ {x} : ~Resetting(z)
      /\ \A z \in Zones : ~Resetting(z)'
  BY <1>2, <1>3, <1>5 DEF Resetting
<1>7. written' \in [Zones -> 0 .. PgsPerLine] /\ written'[x] = 0
      /\ \A y \in Zones \ {x} : written'[y] = written[y]
  BY <1>1, <1>2, <1>5 DEF Types, Geometry
<1>8. k \in Nat /\ (k < PgsPerLine => k \in Offs /\ maptbl[<<x, k>>] \notin Pages)
  BY <1>1, <1>2, <1>5 DEF InZone, mapped, Geometry
<1>9. Types'
  BY <1>0, <1>1, <1>2, <1>3, <1>4, <1>7 DEF Types, JobType
<1>10. InRange'
  BY <1>0, <1>1, <1>2, <1>4 DEF InRange
<1>11. JobOK'
  BY <1>3 DEF JobOK
<1>12. PageZones'
  <2> SUFFICES ASSUME Mapping = "PAGE", ~noSpace, NEW y \in Zones, NEW i \in Offs
               PROVE  maptbl[<<y, i>>] \in Pages <=> i < written'[y]
    BY <1>0, <1>2, <1>6 DEF PageZones
  <2>1. i \in Nat /\ i < PgsPerLine /\ written[x] \in Nat
    BY <1>1 DEF Geometry, Types
  <2>2. maptbl[<<y, i>>] \in Pages <=> i < written[y] /\ ~(Resetting(y) /\ i < k)
    BY <1>1, <1>5 DEF PageZones
  <2>3. CASE y # x
    BY <1>6, <1>7, <2>2, <2>3
  <2>4. CASE y = x
    <3>1. k < PgsPerLine => ~(k < written[x])
      BY <1>1, <1>5, <1>6, <1>8 DEF PageZones
    <3>2. ~(i < written[x] /\ ~(i < k))
      BY <1>1, <1>8, <2>1, <3>1 DEF Geometry
    <3>3. maptbl[<<y, i>>] \notin Pages
      BY <1>6, <2>2, <2>4, <3>2
    <3> QED
      BY <1>7, <2>1, <2>4, <3>3
  <2> QED
    BY <2>3, <2>4
<1>13. LineZones'
  <2> SUFFICES ASSUME Mapping = "ZONE" PROVE LineZones'
    BY <1>0 DEF LineZones
  <2>1. ZoneLeaves(x, k)
    BY <1>1, <1>5, <1>6 DEF LineZones
  <2>2. k = PgsPerLine
    <3> SUFFICES ASSUME k < PgsPerLine PROVE FALSE
      BY <1>1, <1>8 DEF Geometry
    <3>1. PICK l \in Lines : \A i \in Offs : IF i < k THEN status[<<l, i>>] = "INVALID"
                                                       ELSE maptbl[<<x, i>>] = <<l, i>>
      BY <2>1 DEF ZoneLeaves
    <3>2. ~(k < k) /\ k \in Offs
      BY <1>8
    <3>3. maptbl[<<x, k>>] = <<l, k>>
      BY <3>1, <3>2
    <3> QED
      BY <1>1, <1>8, <3>2, <3>3 DEF Geometry
  <2>3. /\ victim = {} /\ job.first = NoLine
        /\ \A i \in Offs : maptbl[<<x, i>>] \notin Pages
    <3>1. \A i \in Offs : i < PgsPerLine
      BY <1>1 DEF Geometry
    <3>2. \A i \in Offs : i < PgsPerLine => maptbl[<<x, i>>] \notin Pages
      BY <2>1, <2>2 DEF ZoneLeaves
    <3>3. victim = {} /\ job.first = NoLine
      BY <1>2, <2>1, <2>2 DEF ZoneLeaves
    <3> QED
      BY <3>1, <3>2, <3>3
  <2>4. victim' = {} /\ \A m \in Lines, o \in Offs : status'[<<m, o>>] = status[<<m, o>>]
    <3>1. job.first \notin Lines
      BY <1>1, <2>3 DEF Geometry
    <3> QED
      BY <1>4, <2>3, <3>1
  <2>5. ASSUME NEW y \in Zones
        PROVE  IF written'[y] = 0 THEN \A i \in Offs : maptbl'[<<y, i>>] \notin Pages
               ELSE \E m \in full' : ZoneAt(y, m)'
    <3>1. CASE y = x
      BY <1>2, <1>7, <2>3, <3>1
    <3>2. CASE y # x /\ written[y] = 0
      BY <1>1, <1>2, <1>6, <1>7, <3>2 DEF LineZones
    <3>3. CASE y # x /\ written[y] # 0
      <4>1. PICK m \in full : ZoneAt(y, m)
        BY <1>1, <1>6, <3>3 DEF LineZones
      <4>2. m \in Lines /\ written'[y] = written[y]
        BY <1>1, <1>7, <3>3 DEF Types
      <4>3. ZoneAt(y, m)'
        BY <1>0, <1>2, <2>4, <4>1, <4>2 DEF ZoneAt
      <4> QED
        BY <1>4, <3>3, <4>2, <4>3
    <3> QED
      BY <3>1, <3>2, <3>3
  <2>6. wp["GC"] = NoPage /\ (wp["USER"] # NoPage => wp["USER"][2] = 0)
    BY <1>1 DEF LineZones
  <2> QED
    BY <1>0, <1>2, <1>3, <1>6, <2>4, <2>5, <2>6 DEF LineZones
<1> QED
  BY <1>4, <1>9, <1>10, <1>11, <1>12, <1>13 DEF FtlInv

\* A line all of whose pages are valid is on the full list.
LEMMA ValidLine ==
  ASSUME Geometry, Types, Census, Counted(status, vpc, ipc, rpc), OnLines(status),
         GcLines = {}, NEW l \in Lines
  PROVE  /\ vpc[l] = PgsPerLine <=> \A o \in Offs : status[<<l, o>>] = "VALID"
         /\ vpc[l] = PgsPerLine => l \in full /\ l \notin victim
<1>1. status \in [Pages -> Statuses] /\ 0 \in Offs
  BY DEF Types, Geometry
<1>2. vpc[l] = PgsPerLine <=> \A o \in Offs : status[<<l, o>>] = "VALID"
  <2>1. vpc[l] = Count(Offs, status, l, "VALID")
    BY DEF Counted
  <2>2. \A s : Count(Offs, status, l, s) = PgsPerLine <=> \A o \in Offs : status[<<l, o>>] = s
    BY <1>1, CountFacts
  <2> QED
    BY <2>1, <2>2
<1>3. ASSUME vpc[l] = PgsPerLine PROVE l \in full /\ l \notin victim
  <2>1. \A o \in Offs : status[<<l, o>>] = "VALID"
    BY <1>2, <1>3
  <2>2. l \notin Elems(free) /\ l \notin victim
    BY <1>1, <2>1 DEF OnLines
  <2>3. \A w \in Writers : l \notin Under(w)
    <3> SUFFICES ASSUME NEW w \in Writers, l \in Under(w) PROVE FALSE
      OBVIOUS
    <3>1. wp[w] # NoPage /\ wp[w] \in Pages /\ wp[w][1] = l
      BY DEF Under, Types
    <3>2. wp[w][2] \in Offs /\ wp[w][2] >= wp[w][2]
      BY <3>1 DEF Geometry
    <3>3. status[<<l, wp[w][2]>>] = "FREE"
      BY <3>1, <3>2 DEF OnLines
    <3> QED
      BY <2>1, <3>2, <3>3
  <2> QED
    BY <2>2, <2>3 DEF Census, LeftLines
<1> QED
  BY <1>2, <1>3

\* mark_page_invalid of the pages of a zone, one after the other.
LEMMA ResetPageKeeps ==
  ASSUME FtlInv, ns' = ns, ResetPage
  PROVE  FtlInv'
<1>0. Lines' = Lines /\ Zones' = Zones /\ Offs' = Offs /\ Pages' = Pages /\ Lpns' = Lpns
      /\ Beyond' = Beyond /\ PgsPerLine' = PgsPerLine /\ Mapping' = Mapping
  BY NamespaceStays
<1>1. /\ Types /\ Census /\ Counted(status, vpc, ipc, rpc) /\ OnLines(status) /\ InRange
      /\ Agree(Lpns, Pages, Beyond, maptbl, rmap, status)
      /\ JobOK /\ PageZones /\ LineZones /\ Geometry
  BY GeometryHolds DEF FtlInv, Types
<1>2. PICK p : p = maptbl[job.at] /\ p \in Pages
  BY DEF ResetPage, InZone, mapped
<1>3. PICK l, st, vp, ip, mt, rm :
      /\ l = p[1] /\ st = status' /\ vp = vpc' /\ ip = ipc' /\ mt = maptbl' /\ rm = rmap'
      /\ Dropped(job.at, p, mt, rm, st, vp, ip)
      /\ IF vpc[l] = PgsPerLine THEN full' = full \ {l} /\ victim' = victim \cup {l}
                                ELSE full' = full /\ victim' = victim
      /\ job' = [kind  |-> IF ip[l] + rpc[l] = PgsPerLine THEN "erase" ELSE "reset",
                 at    |-> <<job.at[1], job.at[2] + 1>>,
                 first |-> IF job.first = NoLine THEN l ELSE job.first]
  BY <1>2 DEF ResetPage, Dropped
<1>4. /\ job.kind = "reset" /\ job.at[2] < PgsPerLine
      /\ rpc' = rpc /\ free' = free /\ wp' = wp /\ noSpace' = noSpace /\ halted' = halted
      /\ credits' = credits /\ refill' = refill /\ written' = written
  BY DEF ResetPage, InZone, flow
<1>5. PICK x \in Zones, k \in Offs : job.at = <<x, k>> /\ job.at[1] = x /\ job.at[2] = k
  BY <1>1, <1>4 DEF JobOK, Geometry
<1>6. job.at \in Lpns /\ l \in Lines /\ p[2] \in Offs /\ p = <<l, p[2]>>
  BY <1>1, <1>2, <1>3, <1>5 DEF Geometry
<1>7. /\ status[p] = "VALID" /\ Tables(mt, rm, st)
      /\ vp = [m \in Lines |-> Count(Offs, st, m, "VALID")]
      /\ ip = [m \in Lines |-> Count(Offs, st, m, "INVALID")]
      /\ \A m \in Lines : Count(Offs, st, m, "FREE") = Count(Offs, status, m, "FREE")
  BY <1>1, <1>2, <1>3, <1>6, DropKeeps
<1>8. /\ job'.kind \in {"reset", "erase"} /\ job'.at = <<x, k + 1>> /\ job'.at[1] = x
      /\ job'.at[2] = k + 1 /\ job'.at \in Lines \X (0 .. PgsPerLine)
      /\ job'.first = (IF job.first = NoLine THEN l ELSE job.first) /\ job'.first \in Lines
      /\ job' \in JobType
  <2>1. <<x, k + 1>> \in Lines \X (0 .. PgsPerLine) /\ Zones = Lines
    BY <1>1 DEF Geometry
  <2>2. (IF job.first = NoLine THEN l ELSE job.first) \in Lines
    BY <1>1, <1>6 DEF Types
  <2> QED
    BY <1>3, <1>5, <2>1, <2>2 DEF JobType, JobKinds
<1>9. GcLines = {} /\ GcLines' = {} /\ \A z \in Zones : (Resetting(z) <=> z = x) /\ (Resetting(z)' <=> z = x)
  BY <1>4, <1>5, <1>8 DEF GcLines, Resetting
<1>10. /\ \A m \in Lines \ {l}, o \in Offs : st[<<m, o>>] = status[<<m, o>>]
       /\ \A o \in Offs \ {p[2]} : st[<<l, o>>] = status[<<l, o>>]
       /\ st[<<l, p[2]>>] = "INVALID" /\ st \in [Pages -> Statuses]
       /\ status[<<l, p[2]>>] = "VALID"
  <2>1. st = [status EXCEPT ![p] = "INVALID"] /\ DOMAIN status = Pages
    BY <1>1, <1>3 DEF Dropped, Types
  <2>2. ASSUME NEW m \in Lines, NEW o \in Offs, m # l \/ o # p[2]
        PROVE  <<m, o>> \in Pages /\ <<m, o>> # p
    <3>1. <<m, o>> # <<l, p[2]>>
      BY <2>2
    <3> QED
      BY <1>1, <1>6, <3>1 DEF Geometry
  <2>3. st \in [Pages -> Statuses] /\ st[p] = "INVALID"
    BY <1>2, <1>7, <2>1 DEF Tables
  <2> QED
    BY <1>6, <1>7, <2>1, <2>2, <2>3
<1>11. \A m \in Lines, o \in Offs :
         /\ st[<<m, o>>] = "FREE" <=> status[<<m, o>>] = "FREE"
         /\ status[<<m, o>>] = "INVALID" => st[<<m, o>>] = "INVALID"
  <2> SUFFICES ASSUME NEW m \in Lines, NEW o \in Offs
               PROVE  /\ st[<<m, o>>] = "FREE" <=> status[<<m, o>>] = "FREE"
                      /\ status[<<m, o>>] = "INVALID" => st[<<m, o>>] = "INVALID"
    OBVIOUS
  <2>1. CASE m = l /\ o = p[2]
    BY <1>10, <2>1
  <2>2. CASE m # l \/ o # p[2]
    BY <1>10, <2>2
  <2> QED
    BY <2>1, <2>2
<1>12. /\ mt[<<x, k>>] = UNMAPPED_PPA
       /\ \A y \in Zones, i \in Offs : y # x \/ i # k => mt[<<y, i>>] = maptbl[<<y, i>>]
  <2>1. mt = [maptbl EXCEPT ![<<x, k>>] = UNMAPPED_PPA] /\ DOMAIN maptbl = Lpns
    BY <1>1, <1>3, <1>5 DEF Dropped, Types
  <2>2. \A y \in Zones, i \in Offs : <<y, i>> \in Lpns
    BY <1>1 DEF Geometry
  <2> QED
    BY <2>1, <2>2
<1>13. /\ vpc[l] = PgsPerLine <=> \A o \in Offs : status[<<l, o>>] = "VALID"
       /\ vpc[l] = PgsPerLine => l \in full /\ l \notin victim
  BY <1>1, <1>6, <1>9, ValidLine
<1>14. ASSUME Mapping = "ZONE"
       PROVE  /\ \A i \in Offs : IF i < k THEN status[<<l, i>>] = "INVALID" ELSE maptbl[<<x, i>>] = <<l, i>>
              /\ IF k = 0 THEN victim = {} /\ l \in full /\ job.first = NoLine
                          ELSE victim = {l} /\ job.first = l
              /\ \A i \in Offs : i < k => maptbl[<<x, i>>] \notin Pages
              /\ p = <<l, k>>
  <2>1. ZoneLeaves(x, k) /\ k < PgsPerLine
    BY <1>1, <1>4, <1>5, <1>9, <1>14 DEF LineZones
  <2>2. PICK m \in Lines :
          /\ \A i \in Offs : IF i < k THEN status[<<m, i>>] = "INVALID" ELSE maptbl[<<x, i>>] = <<m, i>>
          /\ IF k = 0 THEN victim = {} /\ m \in full /\ job.first = NoLine
                      ELSE victim = {m} /\ job.first = m
    BY <2>1 DEF ZoneLeaves
  <2>3. ~(k < k)
    BY <1>1 DEF Geometry
  <2>4. p = <<m, k>>
    BY <1>2, <1>5, <2>2, <2>3
  <2>5. m = l
    BY <1>3, <2>4
  <2> QED
    BY <2>1, <2>2, <2>4, <2>5 DEF ZoneLeaves
<1>15. Mapping = "ZONE" /\ k = 0 => \A o \in Offs : status[<<l, o>>] = "VALID"
  <2> SUFFICES ASSUME Mapping = "ZONE", k = 0, NEW o \in Offs PROVE status[<<l, o>>] = "VALID"
    OBVIOUS
  <2>1. ~(o < k)
    BY <1>1 DEF Geometry
  <2>2. maptbl[<<x, o>>] = <<l, o>>
    BY <1>14, <2>1
  <2>3. <<x, o>> \in Lpns /\ <<l, o>> \in Pages /\ INVALID_LPN \notin Lpns
    BY <1>1, <1>6 DEF Geometry
  <2> QED
    BY <1>1, <2>2, <2>3 DEF Agree
<1>16. l \in full => vpc[l] = PgsPerLine
  <2> SUFFICES ASSUME l \in full PROVE \A o \in Offs : status[<<l, o>>] = "VALID"
    BY <1>13
  <2>1. CASE Mapping = "PAGE"
    <3> SUFFICES ASSUME NEW o \in Offs PROVE status[<<l, o>>] = "VALID"
      OBVIOUS
    <3>1. status[<<l, o>>] \in Statuses
      BY <1>1, <1>6 DEF Types, Geometry
    <3>2. status[<<l, o>>] # "FREE" /\ status[<<l, o>>] # "INVALID"
      BY <1>1, <2>1 DEF OnLines, LeftLines
    <3> QED
      BY <3>1, <3>2 DEF Statuses
  <2>2. CASE Mapping = "ZONE"
    <3>1. k = 0
      BY <1>1, <1>14, <2>2 DEF Census
    <3> QED
      BY <1>15, <2>2, <3>1
  <2> QED
    BY <1>1, <2>1, <2>2 DEF Geometry
<1>17. /\ l \notin full' /\ full' = full \ {l}
       /\ victim' = victim \/ (victim' = victim \cup {l} /\ l \in full /\ vpc[l] = PgsPerLine)
       /\ full' \cup victim' = full \cup victim
  <2>1. CASE vpc[l] = PgsPerLine
    BY <1>3, <1>13, <2>1
  <2>2. CASE vpc[l] # PgsPerLine
    BY <1>3, <1>16, <2>2
  <2> QED
    BY <2>1, <2>2
<1>18. LeftLines' = LeftLines /\ Elems(free)' = Elems(free) /\ \A w \in Writers : Under(w)' = Under(w)
  BY <1>4, <1>9, <1>17 DEF LeftLines, Elems, Under
<1>19. Types'
  <2>1. full' \subseteq Lines /\ victim' \subseteq Lines
    BY <1>1, <1>6, <1>17 DEF Types
  <2> QED
    BY <1>0, <1>1, <1>3, <1>4, <1>7, <1>8, <2>1 DEF Types, Tables, JobType
<1>20. Census'
  <2>1. full' \cap victim' = {}
    BY <1>1, <1>17 DEF Census
  <2> QED
    BY <1>0, <1>1, <1>4, <1>9, <1>18, <2>1 DEF Census, Distinct
<1>21. Counted(status, vpc, ipc, rpc)'
  <2>1. rpc = [m \in Lines |-> IF m \in LeftLines THEN Count(Offs, status, m, "FREE") ELSE 0]
    BY <1>1 DEF Counted
  <2>2. rpc' = [m \in Lines |-> IF m \in LeftLines' THEN Count(Offs, st, m, "FREE") ELSE 0]
    BY <1>4, <1>7, <1>18, <2>1
  <2> QED
    BY <1>0, <1>3, <1>7, <2>2 DEF Counted
<1>22. OnLines(status)'
  <2>1. \A m \in Elems(free), o \in Offs : st[<<m, o>>] = "FREE"
    <3> SUFFICES ASSUME NEW m \in Elems(free), NEW o \in Offs PROVE st[<<m, o>>] = "FREE"
      OBVIOUS
    <3>1. m \in Lines
      BY <1>1 DEF Types, Elems
    <3>2. status[<<m, o>>] = "FREE"
      BY <1>1 DEF OnLines
    <3> QED
      BY <1>11, <3>1, <3>2
  <2>2. ASSUME NEW w \in Writers, wp[w] # NoPage, NEW o \in Offs
        PROVE  st[<<wp[w][1], o>>] = "FREE" <=> o >= wp[w][2]
    <3>1. wp[w][1] \in Lines
      BY <1>1, <2>2 DEF Types, Geometry
    <3>2. status[<<wp[w][1], o>>] = "FREE" <=> o >= wp[w][2]
      BY <1>1, <2>2 DEF OnLines
    <3> QED
      BY <1>11, <3>1, <3>2
  <2>3. \A m \in full', o \in Offs : st[<<m, o>>] # "INVALID"
    <3> SUFFICES ASSUME NEW m \in full', NEW o \in Offs PROVE st[<<m, o>>] # "INVALID"
      OBVIOUS
    <3>1. m \in Lines /\ m \in full /\ m # l
      BY <1>1, <1>17 DEF Types
    <3>2. status[<<m, o>>] # "INVALID"
      BY <1>1, <3>1 DEF OnLines
    <3> QED
      BY <1>10, <3>1, <3>2
  <2>4. \A m \in victim' : \E o \in Offs : st[<<m, o>>] = "INVALID"
    <3> SUFFICES ASSUME NEW m \in victim' PROVE \E o \in Offs : st[<<m, o>>] = "INVALID"
      OBVIOUS
    <3>1. CASE m = l
      BY <1>6, <1>10, <3>1
    <3>2. CASE m # l
      <4>1. m \in victim /\ m \in Lines
        BY <1>1, <1>17, <3>2 DEF Types
      <4>2. PICK o \in Offs : status[<<m, o>>] = "INVALID"
        BY <1>1, <4>1 DEF OnLines
      <4> QED
        BY <1>11, <4>1, <4>2
    <3> QED
      BY <3>1, <3>2
  <2>5. Mapping = "PAGE" => \A m \in LeftLines, o \in Offs : st[<<m, o>>] # "FREE"
    <3> SUFFICES ASSUME Mapping = "PAGE", NEW m \in LeftLines, NEW o \in Offs
                 PROVE  st[<<m, o>>] # "FREE"
      OBVIOUS
    <3>1. m \in Lines
      BY <1>1, <1>9 DEF Types, LeftLines
    <3>2. status[<<m, o>>] # "FREE"
      BY <1>1 DEF OnLines
    <3> QED
      BY <1>11, <3>1, <3>2
  <2> QED
    BY <1>0, <1>3, <1>4, <1>9, <1>18, <2>1, <2>2, <2>3, <2>4, <2>5 DEF OnLines
<1>23. InRange'
  BY <1>0, <1>1, <1>4, <1>18 DEF InRange
<1>24. Agree(Lpns, Pages, Beyond, maptbl, rmap, status)'
  BY <1>0, <1>3, <1>7 DEF Tables
<1>25. JobOK'
  <2>1. \E o \in Offs : st[<<job'.first, o>>] = "INVALID"
    <3>1. CASE job.first = NoLine
      BY <1>6, <1>8, <1>10, <3>1
    <3>2. CASE job.first # NoLine
      <4>1. job'.first = job.first /\ job.first \in Lines
        BY <1>8, <3>2
      <4>2. PICK o \in Offs : status[<<job.first, o>>] = "INVALID"
        BY <1>1, <1>4, <3>2 DEF JobOK
      <4> QED
        BY <1>11, <4>1, <4>2
    <3> QED
      BY <3>1, <3>2
  <2> QED
    BY <1>0, <1>3, <1>8, <2>1 DEF JobOK
<1>26. PageZones'
  <2> SUFFICES ASSUME Mapping = "PAGE", ~noSpace, NEW y \in Zones, NEW i \in Offs
               PROVE  mt[<<y, i>>] \in Pages <=> i < written[y] /\ ~(y = x /\ i < k + 1)
    BY <1>0, <1>3, <1>4, <1>8, <1>9 DEF PageZones
  <2>1. i \in Nat /\ k \in Nat
    BY <1>1 DEF Geometry
  <2>2. maptbl[<<y, i>>] \in Pages <=> i < written[y] /\ ~(y = x /\ i < k)
    BY <1>1, <1>5, <1>9 DEF PageZones
  <2>3. CASE y = x /\ i = k
    BY <1>1, <1>12, <2>1, <2>3 DEF Geometry
  <2>4. CASE ~(y = x /\ i = k)
    <3>1. mt[<<y, i>>] = maptbl[<<y, i>>]
      BY <1>12, <2>4
    <3>2. (y = x /\ i < k + 1) <=> (y = x /\ i < k)
      BY <2>1, <2>4
    <3> QED
      BY <2>2, <3>1, <3>2
  <2> QED
    BY <2>3, <2>4
<1>27. LineZones'
  <2> SUFFICES ASSUME Mapping = "ZONE" PROVE LineZones'
    BY <1>0 DEF LineZones
  <2>1. PgsPerLine \in Nat \ {0} /\ Offs = 0 .. PgsPerLine - 1 /\ k \in Nat
    BY <1>1 DEF Geometry
  <2>2. p[2] = k
    BY <1>14
  <2>3. victim' = {l} /\ job'.first = l
    <3>1. CASE k = 0
      <4>1. vpc[l] = PgsPerLine
        BY <1>13, <1>15, <3>1
      <4> QED
        BY <1>3, <1>8, <1>14, <3>1, <4>1
    <3>2. CASE k # 0
      BY <1>3, <1>8, <1>14, <3>2
    <3> QED
      BY <3>1, <3>2
  <2>4. \A i \in Offs : i < k + 1 => mt[<<x, i>>] \notin Pages /\ st[<<l, i>>] = "INVALID"
    <3> SUFFICES ASSUME NEW i \in Offs, i < k + 1
                 PROVE  mt[<<x, i>>] \notin Pages /\ st[<<l, i>>] = "INVALID"
      OBVIOUS
    <3>1. CASE i = k
      BY <1>1, <1>10, <1>12, <2>2, <3>1 DEF Geometry
    <3>2. CASE i # k
      <4>1. i < k
        BY <2>1, <3>2
      <4> QED
        BY <1>10, <1>12, <1>14, <2>2, <3>2, <4>1
    <3> QED
      BY <3>1, <3>2
  <2>5. \A i \in Offs : ~(i < k + 1) => mt[<<x, i>>] = <<l, i>>
    <3> SUFFICES ASSUME NEW i \in Offs, ~(i < k + 1) PROVE mt[<<x, i>>] = <<l, i>>
      OBVIOUS
    <3>1. i # k /\ ~(i < k)
      BY <2>1
    <3> QED
      BY <1>12, <1>14, <3>1
  <2>6. l \in LeftLines
    BY <1>9, <1>18, <2>3 DEF LeftLines
  <2>7. rpc[l] = Count(Offs, st, l, "FREE") /\ ip[l] = Count(Offs, st, l, "INVALID")
    BY <1>1, <1>6, <1>7, <2>6 DEF Counted
  <2>8. /\ Count(Offs, st, l, "FREE") + Count(Offs, st, l, "VALID")
             + Count(Offs, st, l, "INVALID") = PgsPerLine
        /\ \A s : /\ Count(Offs, st, l, s) \in 0 .. PgsPerLine
                  /\ Count(Offs, st, l, s) = 0 <=> \A o \in Offs : st[<<l, o>>] # s
                  /\ Count(Offs, st, l, s) = PgsPerLine <=> \A o \in Offs : st[<<l, o>>] = s
    BY <1>1, <1>6, <1>10, CountFacts
  <2>9. job'.kind = IF ip[l] + rpc[l] = PgsPerLine THEN "erase" ELSE "reset"
    BY <1>3
  <2>10. ZoneLeaves(x, k + 1)'
    <3>1. CASE k + 1 < PgsPerLine
      <4>1. k + 1 \in Offs /\ k + 1 # PgsPerLine /\ k + 1 # 0 /\ ~(k + 1 < k + 1)
        BY <2>1, <3>1
      <4>2. st[<<l, k + 1>>] = "VALID"
        <5>1. mt[<<x, k + 1>>] = <<l, k + 1>>
          BY <2>5, <4>1
        <5>2. <<x, k + 1>> \in Lpns /\ <<l, k + 1>> \in Pages /\ INVALID_LPN \notin Lpns
          BY <1>1, <1>6, <4>1 DEF Geometry
        <5> QED
          BY <1>7, <5>1, <5>2 DEF Agree, Tables
      <4>3. ip[l] + rpc[l] # PgsPerLine
        <5>1. Count(Offs, st, l, "VALID") # 0
          BY <2>8, <4>1, <4>2
        <5>2. /\ Count(Offs, st, l, "FREE") \in Nat /\ Count(Offs, st, l, "VALID") \in Nat
              /\ Count(Offs, st, l, "INVALID") \in Nat
          BY <2>8
        <5> QED
          BY <2>1, <2>7, <2>8, <5>1, <5>2
      <4>4. job'.kind = "reset"
        BY <2>9, <4>3
      <4>5. \A i \in Offs : IF i < k + 1 THEN st[<<l, i>>] = "INVALID" ELSE mt[<<x, i>>] = <<l, i>>
        BY <2>4, <2>5
      <4>6. \A i \in Offs : i < k + 1 => mt[<<x, i>>] \notin Pages
        BY <2>4
      <4> QED
        BY <1>0, <1>3, <1>6, <2>3, <4>1, <4>4, <4>5, <4>6 DEF ZoneLeaves
    <3>2. CASE ~(k + 1 < PgsPerLine)
      <4>1. k + 1 = PgsPerLine /\ \A i \in Offs : i < k + 1
        BY <2>1, <3>2
      <4>2. \A i \in Offs : st[<<l, i>>] = "INVALID" /\ mt[<<x, i>>] \notin Pages
        BY <2>4, <4>1
      <4>3. ip[l] = PgsPerLine /\ rpc[l] = 0
        <5>1. Count(Offs, st, l, "INVALID") = PgsPerLine
          BY <2>8, <4>2
        <5>2. Count(Offs, st, l, "FREE") = 0
          BY <2>8, <4>2
        <5> QED
          BY <2>7, <5>1, <5>2
      <4>4. job'.kind = "erase"
        BY <2>1, <2>9, <4>3
      <4> QED
        BY <1>0, <1>3, <2>3, <3>2, <4>1, <4>2, <4>4 DEF ZoneLeaves
    <3> QED
      BY <3>1, <3>2
  <2>11. ASSUME NEW y \in Zones, y # x
         PROVE  IF written'[y] = 0 THEN \A i \in Offs : maptbl'[<<y, i>>] \notin Pages
                ELSE \E m \in full' : ZoneAt(y, m)'
    <3>1. CASE written[y] = 0
      BY <1>1, <1>3, <1>4, <1>9, <1>12, <2>11, <3>1 DEF LineZones
    <3>2. CASE written[y] # 0
      <4>1. PICK m \in full : ZoneAt(y, m)
        BY <1>1, <1>9, <2>11, <3>2 DEF LineZones
      <4>2. m # l
        <5> SUFFICES ASSUME m = l PROVE FALSE
          OBVIOUS
        <5>1. k = 0
          BY <1>1, <1>14 DEF Census
        <5>2. 0 \in Offs /\ 0 < written[y] /\ ~(0 < k)
          BY <1>1, <2>1, <3>2, <5>1 DEF Types
        <5>3. maptbl[<<y, 0>>] = <<l, 0>> /\ maptbl[<<x, 0>>] = <<l, 0>>
          BY <1>14, <4>1, <5>2 DEF ZoneAt
        <5>4. <<l, 0>> \in Pages /\ <<y, 0>> \in Lpns /\ <<x, 0>> \in Lpns /\ <<y, 0>> # <<x, 0>>
          BY <1>1, <1>6, <2>11, <5>2 DEF Geometry
        <5> QED
          BY <1>1, <5>3, <5>4 DEF Agree
      <4>3. m \in Lines \ {l} /\ m \in full'
        BY <1>1, <1>17, <4>2 DEF Types
      <4>4. ZoneAt(y, m)'
        <5>1. \A i \in Offs : mt[<<y, i>>] = maptbl[<<y, i>>] /\ st[<<m, i>>] = status[<<m, i>>]
          BY <1>10, <1>12, <2>11, <4>3
        <5> QED
          BY <1>0, <1>3, <1>4, <4>1, <5>1 DEF ZoneAt
      <4> QED
        BY <1>4, <3>2, <4>3, <4>4
    <3> QED
      BY <3>1, <3>2
  <2>12. wp["GC"] = NoPage /\ (wp["USER"] # NoPage => wp["USER"][2] = 0)
    BY <1>1 DEF LineZones
  <2>13. \A y \in Zones : IF Resetting(y)' THEN ZoneLeaves(y, k + 1)'
           ELSE IF written'[y] = 0 THEN \A i \in Offs : maptbl'[<<y, i>>] \notin Pages
           ELSE \E m \in full' : ZoneAt(y, m)'
    BY <1>9, <2>10, <2>11
  <2>14. job'.kind # "gc" /\ job'.kind \in {"reset", "erase"} /\ job'.at[2] = k + 1
    BY <1>8
  <2> QED
    BY <1>0, <1>4, <2>12, <2>13, <2>14 DEF LineZones
<1> QED
  BY <1>19, <1>20, <1>21, <1>22, <1>23, <1>24, <1>25, <1>26, <1>27 DEF FtlInv

-----------------------------------------------------------------------------
(* The invariant holds.                                                    *)

LEMMA InitKeeps ==
  ASSUME Init
  PROVE  FtlInv
<1>1. Geometry
  BY GeometryHolds DEF Init
<1>2. PgsPerLine \in Nat \ {0} /\ Lines = 0 .. NrLines - 1 /\ NrLines \in Nat
  BY <1>1, NamespaceAssumption DEF Geometry, Init, NrLines
<1>3. /\ maptbl = [lpn \in Lpns |-> UNMAPPED_PPA] /\ rmap = [p \in Pages |-> INVALID_LPN]
      /\ status = [p \in Pages |-> "FREE"]
      /\ vpc = [l \in Lines |-> 0] /\ ipc = [l \in Lines |-> 0] /\ rpc = [l \in Lines |-> 0]
      /\ free = [i \in 1 .. NrLines |-> i - 1] /\ full = {} /\ victim = {}
      /\ wp = [w \in Writers |-> NoPage] /\ noSpace = FALSE /\ halted = FALSE
      /\ credits = PgsPerLine /\ refill = PgsPerLine /\ written = [z \in Zones |-> 0]
      /\ job = Idle /\ ns \in Namespaces
  BY DEF Init
<1>4. job.kind = "idle" /\ job \in JobType /\ GcLines = {} /\ LeftLines = {}
  BY <1>3 DEF Idle, JobType, JobKinds, GcLines, LeftLines
<1>5. free \in Seq(Lines) /\ Distinct(free) /\ Elems(free) = Lines
  <2>1. DOMAIN free = 1 .. NrLines /\ \A i \in 1 .. NrLines : free[i] = i - 1
    BY <1>3
  <2>2. \A i \in 1 .. NrLines : i - 1 \in Lines
    BY <1>2
  <2>3. free \in Seq(Lines)
    BY <1>2, <1>3, <2>2
  <2>4. Distinct(free)
    BY <2>1 DEF Distinct
  <2>5. Elems(free) \subseteq Lines
    BY <2>1, <2>2 DEF Elems
  <2>6. ASSUME NEW l \in Lines PROVE l \in Elems(free)
    <3>1. l + 1 \in 1 .. NrLines /\ (l + 1) - 1 = l
      BY <1>2
    <3> QED
      BY <2>1, <3>1 DEF Elems
  <2> QED
    BY <2>3, <2>4, <2>5, <2>6
<1>6. Types
  <2>1. /\ maptbl \in [Lpns -> Pages \cup {UNMAPPED_PPA, RSV_PPA}]
        /\ rmap \in [Pages -> Lpns \cup {INVALID_LPN}]
        /\ status \in [Pages -> Statuses]
        /\ wp \in [Writers -> Pages \cup {NoPage}]
    BY <1>3 DEF Statuses
  <2>2. /\ credits \in Int /\ refill \in 0 .. PgsPerLine
        /\ written \in [Zones -> 0 .. PgsPerLine]
    BY <1>2, <1>3
  <2> QED
    BY <1>3, <1>4, <1>5, <2>1, <2>2 DEF Types, JobType
<1>7. \A w \in Writers : Under(w) = {}
  BY <1>3 DEF Under
<1>8. Census
  BY <1>3, <1>4, <1>5, <1>7 DEF Census
<1>9. Counted(status, vpc, ipc, rpc)
  <2>1. \A l \in Lines, o \in Offs : status[<<l, o>>] = "FREE"
    BY <1>1, <1>3 DEF Geometry
  <2>2. \A l \in Lines : Count(Offs, status, l, "VALID") = 0 /\ Count(Offs, status, l, "INVALID") = 0
    <3> SUFFICES ASSUME NEW l \in Lines
                 PROVE  Count(Offs, status, l, "VALID") = 0 /\ Count(Offs, status, l, "INVALID") = 0
      OBVIOUS
    <3>1. \A s : Count(Offs, status, l, s) = 0 <=> \A o \in Offs : status[<<l, o>>] # s
      <4>1. status \in [Pages -> Statuses]
        BY <1>6 DEF Types
      <4> QED
        BY <1>1, <4>1, CountFacts
    <3> QED
      BY <2>1, <3>1
  <2> QED
    BY <1>3, <1>4, <2>2 DEF Counted
<1>10. OnLines(status)
  <2>1. \A l \in Lines, o \in Offs : status[<<l, o>>] = "FREE"
    BY <1>1, <1>3 DEF Geometry
  <2> QED
    BY <1>3, <1>4, <1>5, <2>1 DEF OnLines
<1>11. InRange
  BY <1>1, <1>3, <1>4 DEF InRange, Geometry
<1>12. Agree(Lpns, Pages, Beyond, maptbl, rmap, status)
  BY <1>1, <1>3 DEF Agree, Geometry
<1>13. JobOK
  BY <1>4 DEF JobOK
<1>14. \A z \in Zones, i \in Offs : maptbl[<<z, i>>] \notin Pages /\ ~Resetting(z) /\ written[z] = 0
  BY <1>1, <1>3, <1>4 DEF Geometry, Resetting
<1>15. PageZones
  <2>1. \A i \in Offs : ~(i < 0)
    BY <1>1 DEF Geometry
  <2> QED
    BY <1>14, <2>1 DEF PageZones
<1>16. LineZones
  <2>1. \A z \in Zones : ~Resetting(z) /\ written[z] = 0
    BY <1>3, <1>4 DEF Resetting
  <2>2. wp["GC"] = NoPage /\ wp["USER"] = NoPage
    BY <1>3 DEF Writers
  <2> QED
    BY <1>3, <1>4, <1>14, <2>1, <2>2 DEF LineZones
<1> QED
  BY <1>6, <1>8, <1>9, <1>10, <1>11, <1>12, <1>13, <1>15, <1>16 DEF FtlInv

\* A step, whatever becomes of the history variable.
FtlStep == (Step /\ ns' = ns) \/ UNCHANGED vars

LEMMA StepKeeps ==
  ASSUME Supported, FtlInv, FtlStep
  PROVE  FtlInv'
<1>1. CASE UNCHANGED vars
  <2>1. /\ ns' = ns /\ UNCHANGED <<tables, rpc, lines, wp, written>>
        /\ noSpace' = noSpace /\ halted' = halted /\ credits' = credits /\ refill' = refill
        /\ job' = job /\ status' = status /\ maptbl' = maptbl /\ full' = full /\ victim' = victim
        /\ wp' = wp /\ written' = written
    BY <1>1 DEF vars, tables, lines, flow
  <2>2. Types /\ JobOK /\ PageZones /\ LineZones
    BY DEF FtlInv
  <2>3. /\ Lines' = Lines /\ Zones' = Zones /\ Offs' = Offs /\ Pages' = Pages
        /\ PgsPerLine' = PgsPerLine /\ Mapping' = Mapping
    BY <2>1, NamespaceStays
  <2>4. GcLines' = GcLines /\ \A z \in Zones : Resetting(z)' <=> Resetting(z)
    BY <2>1 DEF GcLines, Resetting
  <2>5. JobOK'
    BY <2>1, <2>2, <2>3 DEF JobOK
  <2>6. PageZones'
    BY <2>1, <2>2, <2>3, <2>4 DEF PageZones
  <2>7. LineZones'
    BY <2>1, <2>2, <2>3, <2>4 DEF LineZones, ZoneLeaves, ZoneAt
  <2>8. /\ noSpace' \in BOOLEAN /\ halted' \in BOOLEAN /\ credits' \in Int
        /\ refill' \in 0 .. PgsPerLine /\ job' \in JobType
    BY <2>1, <2>2 DEF Types, JobType
  <2> QED
    BY <2>1, <2>4, <2>5, <2>6, <2>7, <2>8, JobStep
<1>2. ASSUME NEW z \in Zones, ns' = ns, WritePage(z) PROVE FtlInv'
  BY <1>2, WritePageKeeps
<1>3. ASSUME NEW z \in Zones, ns' = ns, ReserveZone(z) PROVE FtlInv'
  BY <1>3, ReserveKeeps
<1>4. ASSUME NEW z \in Zones, ns' = ns, WriteReserved(z) PROVE FtlInv'
  BY <1>4, WriteReservedKeeps
<1>5. ASSUME NEW z \in Zones, ns' = ns, StartReset(z) PROVE FtlInv'
  BY <1>5, StartResetKeeps
<1>6. ASSUME ns' = ns, Collect PROVE FtlInv'
  BY <1>6, CreditsKeep, SelectKeeps DEF Collect
<1>7. ASSUME ns' = ns, Gc PROVE FtlInv'
  BY <1>7, SkipKeeps, MoveKeeps, FinishGcKeeps DEF Gc
<1>8. ASSUME ns' = ns, Reset PROVE FtlInv'
  BY <1>8, ResetPageKeeps, ResetEraseKeeps, FinishResetKeeps DEF Reset
<1> QED
  BY <1>1, <1>2, <1>3, <1>4, <1>5, <1>6, <1>7, <1>8 DEF FtlStep, Step

-----------------------------------------------------------------------------
(* What the invariant says.                                                *)

LEMMA TypesOK ==
  ASSUME FtlInv, reused \in BOOLEAN
  PROVE  TypeOK
<1>1. Types /\ Counted(status, vpc, ipc, rpc) /\ Geometry
  BY GeometryHolds DEF FtlInv, Types
<1>2. \A l \in Lines : \A s : Count(Offs, status, l, s) \in 0 .. PgsPerLine
  <2>1. status \in [Pages -> Statuses]
    BY <1>1 DEF Types
  <2> QED
    BY <1>1, <2>1, CountFacts
<1>3. 0 \in 0 .. PgsPerLine
  BY <1>1 DEF Geometry
<1>4. /\ vpc \in [Lines -> 0 .. PgsPerLine] /\ ipc \in [Lines -> 0 .. PgsPerLine]
      /\ rpc \in [Lines -> 0 .. PgsPerLine]
  BY <1>1, <1>2, <1>3 DEF Counted
<1> QED
  BY <1>1, <1>4 DEF TypeOK, Types, Statuses

LEMMA AtMostOne ==
  ASSUME NEW S, \A x, y \in S : x = y
  PROVE  Cardinality(S) = IF S = {} THEN 0 ELSE 1
<1>1. CASE S = {}
  BY <1>1, FS_EmptySet
<1>2. CASE S # {}
  <2>1. PICK x : x \in S
    BY <1>2
  <2>2. S = {x}
    BY <2>1
  <2> QED
    BY <1>2, <2>2, FS_Singleton
<1> QED
  BY <1>1, <1>2

LEMMA CensusOK ==
  ASSUME FtlInv, reused \in BOOLEAN
  PROVE  LineCensus
<1>1. Types /\ Census
  BY DEF FtlInv
<1> SUFFICES ASSUME NEW l \in Lines PROVE Places(l) = 1
  BY TypesOK DEF LineCensus
<1> DEFINE A == {i \in DOMAIN free : free[i] = l}
           B == {n \in {"full"} : l \in full}
           C == {n \in {"victim"} : l \in victim}
           D == {w \in Writers : wp[w] # NoPage /\ wp[w][1] = l}
           E == {n \in {"gc"} : job.kind = "gc" /\ job.at[1] = l}
<1>2. Cardinality(A) = IF l \in Elems(free) THEN 1 ELSE 0
  <2>1. (\A x, y \in A : x = y) /\ (A = {} <=> l \notin Elems(free))
    BY <1>1 DEF Census, Distinct, Elems
  <2> HIDE DEF A
  <2> QED
    BY <2>1, AtMostOne
<1>3. Cardinality(B) = IF l \in full THEN 1 ELSE 0
  <2>1. (\A x, y \in B : x = y) /\ (B = {} <=> l \notin full)
    OBVIOUS
  <2> HIDE DEF B
  <2> QED
    BY <2>1, AtMostOne
<1>4. Cardinality(C) = IF l \in victim THEN 1 ELSE 0
  <2>1. (\A x, y \in C : x = y) /\ (C = {} <=> l \notin victim)
    OBVIOUS
  <2> HIDE DEF C
  <2> QED
    BY <2>1, AtMostOne
<1>5. Cardinality(D) = IF \E w \in Writers : l \in Under(w) THEN 1 ELSE 0
  <2>1. \A w \in Writers : w \in D <=> l \in Under(w)
    BY DEF Under
  <2>2. D \subseteq Writers
    OBVIOUS
  <2> HIDE DEF D
  <2>3. (\A x, y \in D : x = y) /\ (D = {} <=> ~\E w \in Writers : l \in Under(w))
    BY <1>1, <2>1, <2>2 DEF Census
  <2> QED
    BY <2>3, AtMostOne
<1>6. Cardinality(E) = IF l \in GcLines THEN 1 ELSE 0
  <2>1. (\A x, y \in E : x = y) /\ (E = {} <=> l \notin GcLines)
    BY DEF GcLines
  <2> HIDE DEF E
  <2> QED
    BY <2>1, AtMostOne
<1>7. Places(l) = Cardinality(A) + Cardinality(B) + Cardinality(C) + Cardinality(D) + Cardinality(E)
  BY DEF Places
<1> HIDE DEF A, B, C, D, E
<1> DEFINE under == \E w \in Writers : l \in Under(w)
<1>8. under => l \notin Elems(free) /\ l \notin full /\ l \notin victim /\ l \notin GcLines
  BY <1>1 DEF Census, LeftLines
<1>9. /\ l \in Elems(free) => l \notin full /\ l \notin victim /\ l \notin GcLines
      /\ l \in full => l \notin victim /\ l \notin GcLines
      /\ l \in victim => l \notin GcLines
  BY <1>1 DEF Census, LeftLines
<1>10. l \in Elems(free) \/ l \in full \/ l \in victim \/ l \in GcLines \/ under
  BY <1>1 DEF Census, LeftLines
<1>11. Cardinality(D) = IF under THEN 1 ELSE 0
  BY <1>5
<1> HIDE DEF under
<1> QED
  BY <1>2, <1>3, <1>4, <1>6, <1>7, <1>8, <1>9, <1>10, <1>11

LEMMA CountersOK ==
  ASSUME FtlInv
  PROVE  CountersMatchPages /\ ListsMatchCounters /\ MappingsAgree
<1>1. /\ Types /\ Counted(status, vpc, ipc, rpc) /\ OnLines(status) /\ Geometry
  BY GeometryHolds DEF FtlInv, Types
<1>2. \A l \in Lines : l \in LeftLines <=> l \in full \cup victim \/ (job.kind = "gc" /\ job.at[1] = l)
  BY DEF LeftLines, GcLines
<1>3. CountersMatchPages
  <2>1. ASSUME NEW l \in Lines, OnFreeList(l)
        PROVE  vpc[l] = 0 /\ ipc[l] = 0 /\ rpc[l] = 0 /\ l \notin LeftLines
    <3>1. l \in Elems(free) /\ l \notin LeftLines /\ \A o \in Offs : status[<<l, o>>] = "FREE"
      BY <2>1 DEF OnFreeList, Elems, FtlInv, Census, OnLines
    <3>2. Count(Offs, status, l, "VALID") = 0 /\ Count(Offs, status, l, "INVALID") = 0
      <4>1. status \in [Pages -> Statuses]
        BY <1>1 DEF Types
      <4> QED
        BY <1>1, <3>1, <4>1, CountFacts
    <3> QED
      BY <1>1, <3>1, <3>2 DEF Counted
  <2> QED
    BY <1>1, <1>2, <2>1 DEF CountersMatchPages, Counted, Count
<1>4. ASSUME NEW l \in full \cup victim
      PROVE  /\ vpc[l] + rpc[l] + ipc[l] = PgsPerLine
             /\ vpc[l] \in Nat /\ rpc[l] \in Nat /\ ipc[l] \in Nat
             /\ ipc[l] = 0 <=> \A o \in Offs : status[<<l, o>>] # "INVALID"
  <2>1. l \in Lines /\ l \in LeftLines /\ status \in [Pages -> Statuses]
    BY <1>1 DEF Types, LeftLines
  <2>2. /\ Count(Offs, status, l, "FREE") + Count(Offs, status, l, "VALID")
             + Count(Offs, status, l, "INVALID") = PgsPerLine
        /\ \A s : /\ Count(Offs, status, l, s) \in 0 .. PgsPerLine
                  /\ Count(Offs, status, l, s) = 0 <=> \A o \in Offs : status[<<l, o>>] # s
    BY <1>1, <2>1, CountFacts
  <2>3. /\ vpc[l] = Count(Offs, status, l, "VALID") /\ ipc[l] = Count(Offs, status, l, "INVALID")
        /\ rpc[l] = Count(Offs, status, l, "FREE")
    BY <1>1, <2>1 DEF Counted
  <2>4. PgsPerLine \in Nat
    BY <1>1 DEF Geometry
  <2> QED
    BY <2>2, <2>3, <2>4
<1>5. PgsPerLine \in Nat
  BY <1>1 DEF Geometry
<1>6. ASSUME NEW l \in full PROVE ipc[l] = 0 /\ vpc[l] + rpc[l] = PgsPerLine
  <2>1. ipc[l] = 0
    BY <1>1, <1>4 DEF OnLines
  <2> QED
    BY <1>4, <1>5, <2>1
<1>7. ASSUME NEW l \in victim PROVE ipc[l] > 0 /\ vpc[l] + rpc[l] < PgsPerLine
  <2>1. \E o \in Offs : status[<<l, o>>] = "INVALID"
    BY <1>1 DEF OnLines
  <2>2. l \in full \cup victim
    OBVIOUS
  <2>3. ipc[l] # 0
    BY <1>4, <2>1, <2>2
  <2> QED
    BY <1>4, <1>5, <2>2, <2>3
<1>8. MappingsAgree
  BY DEF FtlInv, Agree, MappingsAgree, mapped
<1> QED
  BY <1>3, <1>6, <1>7, <1>8 DEF ListsMatchCounters

-----------------------------------------------------------------------------
(* Room.  A namespace with room never meets an assertion, and is full only *)
(* when it uses pages beyond the tables; this needs that a collection      *)
(* starts while two lines are free, as the source has it                   *)
(* (gc_thres_lines_high, zns_ftl.c).                                       *)

\* Pages that can be written before another line has to be erased.
Left(w) == IF wp[w] = NoPage THEN 0 ELSE PgsPerLine - wp[w][2]
Room    == Len(free) * PgsPerLine + Left("USER") + Left("GC")

HostOnly == \A z \in Zones : written[z] # 0 => z \in ns.hostZones

\* A line was just begun by the host, or the page before the write pointer is
\* still valid.
JustWritten ==
  /\ wp["USER"] # NoPage
  /\ wp["USER"][2] # 0 => status[<<wp["USER"][1], wp["USER"][2] - 1>>] = "VALID"

\* Page mapping: two lines are left beside what the credits promise the host;
\* a collection takes no more than it gives back.
PageRoom ==
  Mapping = "PAGE" =>
    /\ job.kind \in {"idle", "reset", "erase"} => Room >= 2 * PgsPerLine + 1
    /\ job.kind = "collect" => Room >= 2 * PgsPerLine /\ credits <= 0 /\ JustWritten
    /\ job.kind # "gc" => Room >= credits + 2 * PgsPerLine
    /\ job.kind = "gc" =>
         /\ refill >= 1 /\ refill + vpc[job.at[1]] <= PgsPerLine
         /\ Room + PgsPerLine - (refill + vpc[job.at[1]]) >= 2 * PgsPerLine
         /\ Room + PgsPerLine - vpc[job.at[1]] >= credits + refill + 2 * PgsPerLine

\* Zone mapping: a full line is the line of a zone.
LineRoom == Mapping = "ZONE" => \A l \in full : status[<<l, 0>>] = "VALID"

RoomInv == ~noSpace /\ ~halted /\ HostOnly /\ PageRoom /\ LineRoom

\* After a step there is still room, unless a page beyond the tables was met.
RoomKept == ~halted' /\ (noSpace' => UsesBeyond') /\ (noSpace' \/ RoomInv')

-----------------------------------------------------------------------------
(* Counting.                                                               *)

LEMMA Successor ==
  ASSUME NEW n \in Nat, NEW P \in Nat
  PROVE  n * P \in Nat /\ (n + 1) * P = n * P + P
OBVIOUS

LEMMA OneLess ==
  ASSUME NEW r \in Int, NEW a \in Int, NEW b \in Int, NEW c \in Int,
         NEW r2, NEW a2 \in Int, NEW b2 \in Int,
         r = a + b + c, r2 = a2 + b2 + c, a2 + b2 = a + b - 1
  PROVE  r2 = r - 1
OBVIOUS

LEMMA TailRoom ==
  ASSUME NEW S, NEW s \in Seq(S), s # <<>>, NEW P \in Nat
  PROVE  /\ Len(s) \in Nat \ {0} /\ Tail(s) \in Seq(S) /\ Len(Tail(s)) = Len(s) - 1
         /\ Len(Tail(s)) * P = Len(s) * P - P
<1>1. /\ Len(s) \in Nat \ {0} /\ Tail(s) \in Seq(S) /\ Len(Tail(s)) = Len(s) - 1
  OBVIOUS
<1> DEFINE n == Len(s) - 1
<1>2. n \in Nat /\ Len(s) = n + 1
  BY <1>1
<1> HIDE DEF n
<1>3. (n + 1) * P = n * P + P /\ n * P \in Nat
  BY <1>2, Successor
<1> QED
  BY <1>1, <1>2, <1>3

\* A sequence without repetitions is as long as it has elements.
LEMMA LenDistinct ==
  ASSUME NEW S, NEW s \in Seq(S), Distinct(s)
  PROVE  IsFiniteSet(Elems(s)) /\ Cardinality(Elems(s)) = Len(s)
<1>1. Len(s) \in Nat /\ DOMAIN s = 1 .. Len(s)
  OBVIOUS
<1> DEFINE f == [i \in 1 .. Len(s) |-> s[i]]
<1>2. f \in Bijection(1 .. Len(s), Elems(s))
  <2>1. f \in [1 .. Len(s) -> Elems(s)]
    BY <1>1 DEF Elems
  <2>2. \A i, j \in 1 .. Len(s) : f[i] = f[j] => i = j
    BY <1>1 DEF Distinct
  <2>3. \A e \in Elems(s) : \E i \in 1 .. Len(s) : f[i] = e
    BY <1>1 DEF Elems
  <2> HIDE DEF f
  <2> QED
    BY <2>1, <2>2, <2>3 DEF Bijection, Injection, Surjection, IsInjective
<1>3. IsFiniteSet(1 .. Len(s)) /\ Cardinality(1 .. Len(s)) = Len(s)
  <2> DEFINE n == Len(s)
  <2>1. n \in Nat /\ n - 1 + 1 = n
    BY <1>1
  <2> HIDE DEF n
  <2>2. IsFiniteSet(1 .. n) /\ Cardinality(1 .. n) = n
    BY <2>1, FS_Interval
  <2> QED
    BY <2>2 DEF n
<1> QED
  BY <1>2, <1>3, FS_Bijection DEF ExistsBijection

LEMMA AddDisjoint ==
  ASSUME NEW S, NEW T, IsFiniteSet(S), IsFiniteSet(T), S \cap T = {}
  PROVE  IsFiniteSet(S \cup T) /\ Cardinality(S \cup T) = Cardinality(S) + Cardinality(T)
<1>1. Cardinality(S \cap T) = 0 /\ Cardinality(S) \in Nat /\ Cardinality(T) \in Nat
  BY FS_EmptySet, FS_CardinalityType
<1>2. /\ IsFiniteSet(S \cup T)
      /\ Cardinality(S \cup T) = Cardinality(S) + Cardinality(T) - Cardinality(S \cap T)
  BY FS_Union
<1> QED
  BY <1>1, <1>2

\* The sizes of a namespace with room.
LEMMA RoomyFacts ==
  ASSUME ns \in Namespaces, Roomy
  PROVE  /\ Geometry /\ NrLines \in Nat /\ IsFiniteSet(Lines) /\ Cardinality(Lines) = NrLines
         /\ ns.hostZones \subseteq Lines /\ IsFiniteSet(ns.hostZones)
         /\ Cardinality(ns.hostZones) \in Nat
         /\ Cardinality(ns.hostZones) + (IF Mapping = "PAGE" THEN 3 ELSE 1) <= NrLines
<1>1. Geometry
  BY GeometryHolds
<1>2. /\ NrLines \in Nat \ {0} /\ ns.hostZones \subseteq Lines /\ Lines = 0 .. NrLines - 1
  BY NamespaceAssumption DEF NrLines, Lines
<1>3. IsFiniteSet(Lines) /\ Cardinality(Lines) = NrLines
  <2> DEFINE n == NrLines
  <2>1. n \in Nat \ {0}
    BY <1>2
  <2> HIDE DEF n
  <2>2. IsFiniteSet(0 .. n - 1) /\ Cardinality(0 .. n - 1) = n
    BY <2>1, FS_Interval
  <2> QED
    BY <1>2, <2>2 DEF n
<1>4. IsFiniteSet(ns.hostZones) /\ Cardinality(ns.hostZones) \in Nat
  BY <1>2, <1>3, FS_Subset, FS_CardinalityType
<1> QED
  BY <1>1, <1>2, <1>3, <1>4 DEF Roomy

\* The places of the lines add up.
LEMMA LineCount ==
  ASSUME Types, Census, JobOK, IsFiniteSet(Lines), Cardinality(Lines) = NrLines
  PROVE  /\ IsFiniteSet(full) /\ Cardinality(full) \in Nat /\ Len(free) \in Nat
         /\ Cardinality(Under("USER")) = (IF wp["USER"] = NoPage THEN 0 ELSE 1)
         /\ Cardinality(Under("GC")) = (IF wp["GC"] = NoPage THEN 0 ELSE 1)
         /\ NrLines = Len(free) + Cardinality(full) + Cardinality(victim) + Cardinality(GcLines)
                        + Cardinality(Under("USER")) + Cardinality(Under("GC"))
<1> DEFINE A == Elems(free)
           U == Under("USER")
           G == Under("GC")
<1>1. IsFiniteSet(A) /\ Cardinality(A) = Len(free) /\ Len(free) \in Nat
  BY LenDistinct DEF Types, Census
<1>2. IsFiniteSet(full) /\ IsFiniteSet(victim)
  BY FS_Subset DEF Types
<1>3. IsFiniteSet(GcLines)
  BY FS_Singleton, FS_EmptySet DEF GcLines
<1>4. \A w \in Writers : /\ IsFiniteSet(Under(w))
                         /\ Cardinality(Under(w)) = IF wp[w] = NoPage THEN 0 ELSE 1
  BY FS_Singleton, FS_EmptySet DEF Under
<1>5. /\ IsFiniteSet(U) /\ IsFiniteSet(G)
      /\ Cardinality(U) = (IF wp["USER"] = NoPage THEN 0 ELSE 1)
      /\ Cardinality(G) = (IF wp["GC"] = NoPage THEN 0 ELSE 1)
  BY <1>4 DEF Writers
<1>6. /\ A \cap full = {} /\ (A \cup full) \cap victim = {} /\ (A \cup full \cup victim) \cap GcLines = {}
      /\ (A \cup full \cup victim \cup GcLines) \cap U = {}
      /\ (A \cup full \cup victim \cup GcLines \cup U) \cap G = {}
  <2>1. U \cap G = {} /\ U \cap (A \cup LeftLines) = {} /\ G \cap (A \cup LeftLines) = {}
    BY DEF Census, Writers
  <2> HIDE DEF U, G
  <2> QED
    BY <2>1 DEF Census, LeftLines
<1>7. Lines = A \cup full \cup victim \cup GcLines \cup U \cup G
  <2>1. \A l \in Lines : l \in A \cup full \cup victim \cup GcLines \cup U \cup G
    BY DEF Census, LeftLines, Writers
  <2>2. A \subseteq Lines /\ full \subseteq Lines /\ victim \subseteq Lines
    BY DEF Types, Elems
  <2>3. U \subseteq Lines /\ G \subseteq Lines
    BY DEF Types, Under, Writers, Pages
  <2>4. GcLines \subseteq Lines
    <3>1. job.kind = "gc" => job.at \in Lines \X (0 .. PgsPerLine)
      BY DEF JobOK
    <3>2. job.kind = "gc" => job.at[1] \in Lines
      BY <3>1
    <3> QED
      BY <3>2 DEF GcLines
  <2> QED
    BY <2>1, <2>2, <2>3, <2>4
<1> HIDE DEF A, U, G
<1> DEFINE S2 == A \cup full
           S3 == A \cup full \cup victim
           S4 == A \cup full \cup victim \cup GcLines
           S5 == A \cup full \cup victim \cup GcLines \cup U
<1>8. IsFiniteSet(S2) /\ Cardinality(S2) = Len(free) + Cardinality(full)
  BY <1>1, <1>2, <1>6, AddDisjoint
<1>9. IsFiniteSet(S3) /\ Cardinality(S3) = Cardinality(S2) + Cardinality(victim)
  BY <1>2, <1>6, <1>8, AddDisjoint
<1>10. IsFiniteSet(S4) /\ Cardinality(S4) = Cardinality(S3) + Cardinality(GcLines)
  BY <1>3, <1>6, <1>9, AddDisjoint
<1>11. IsFiniteSet(S5) /\ Cardinality(S5) = Cardinality(S4) + Cardinality(U)
  BY <1>5, <1>6, <1>10, AddDisjoint
<1>12. Cardinality(Lines) = Cardinality(S5) + Cardinality(G)
  BY <1>5, <1>6, <1>7, <1>11, AddDisjoint
<1>13. /\ Cardinality(full) \in Nat /\ Cardinality(victim) \in Nat /\ Cardinality(GcLines) \in Nat
       /\ Cardinality(U) \in Nat /\ Cardinality(G) \in Nat
  BY <1>2, <1>3, <1>5, FS_CardinalityType
<1>14. NrLines = Len(free) + Cardinality(full) + Cardinality(victim) + Cardinality(GcLines)
                   + Cardinality(U) + Cardinality(G)
  BY <1>1, <1>8, <1>9, <1>10, <1>11, <1>12, <1>13
<1> QED
  BY <1>1, <1>2, <1>5, <1>13, <1>14 DEF U, G

\* A page beyond the tables of a line that is in use.
LEMMA BeyondInUse ==
  ASSUME ns' = ns, NEW q \in Pages, OutOfRange(q), q[1] \notin Elems(free')
  PROVE  UsesBeyond'
<1>1. q \in Pages' /\ OutOfRange(q)'
  BY NamespaceStays DEF OutOfRange, PgIdx, NrLines, PgsPerLine, LineGroups, PgsPerRow
<1>2. ~OnFreeList(q[1])'
  BY DEF OnFreeList, Elems
<1> QED
  BY <1>1, <1>2 DEF UsesBeyond

\* A write pointer that moves on uses up one page.
LEMMA AdvanceRoom ==
  ASSUME Geometry, Types, Census', ns' = ns, NEW w \in Writers, CanOpen(w),
         Advance(w, PageOf(w)),
         PageOf(w)[2] = PgsPerLine - 1 => FreeLeft(w) # <<>>
  PROVE  /\ Room' = Room - 1 /\ (noSpace' => UsesBeyond') /\ (halted' = halted)
         /\ \A v \in Writers \ {w} : wp'[v] = wp[v]
         /\ wp'[w] # NoPage
         /\ IF PageOf(w)[2] = PgsPerLine - 1 THEN wp'[w][2] = 0 ELSE wp'[w] = NextPage(PageOf(w))
<1> DEFINE p  == PageOf(w)
           P  == PgsPerLine
           fr == FreeLeft(w)
<1>1. P \in Nat \ {0} /\ P' = P
  BY NamespaceStays DEF Geometry
<1>2. free \in Seq(Lines) /\ Len(free) \in Nat /\ Len(free) * P \in Nat
  <2>1. free \in Seq(Lines) /\ Len(free) \in Nat
    BY DEF Types
  <2> QED
    BY <1>1, <2>1, Successor
<1>3. /\ fr \in Seq(Lines) /\ p \in Pages /\ p[2] \in 0 .. P - 1 /\ p[1] \in Lines
      /\ Len(fr) * P = Len(free) * P - (IF wp[w] = NoPage THEN P ELSE 0)
      /\ Len(fr) * P \in Int
      /\ (IF wp[w] = NoPage THEN p[2] = 0 ELSE p = wp[w])
  <2>1. CASE wp[w] # NoPage
    <3>1. wp[w] \in Pages /\ fr = free /\ p = wp[w]
      BY <2>1 DEF Types, PageOf, FreeLeft
    <3> QED
      BY <1>1, <1>2, <2>1, <3>1 DEF Geometry
  <2>2. CASE wp[w] = NoPage
    <3>1. free # <<>> /\ fr = Tail(free) /\ p = <<Head(free), 0>>
      BY <2>2 DEF CanOpen, PageOf, FreeLeft
    <3>2. Head(free) \in Lines
      BY <1>2, <3>1
    <3>3. p \in Pages /\ 0 \in 0 .. P - 1
      <4>1. 0 \in Offs /\ \A l \in Lines, o \in Offs : <<l, o>> \in Pages
        BY <1>1 DEF Geometry
      <4> HIDE DEF p
      <4> QED
        BY <1>1, <3>1, <3>2, <4>1
    <3>4. fr \in Seq(Lines) /\ Len(fr) * P = Len(free) * P - P
      BY <1>1, <1>2, <3>1, TailRoom
    <3> QED
      BY <1>1, <1>2, <2>2, <3>1, <3>2, <3>3, <3>4
  <2> QED
    BY <2>1, <2>2
<1>4. \A l \in Lines : ~OutOfRange(<<l, 0>>)
  <2>0. 0 \in Offs /\ \A l \in Lines, o \in Offs : <<l, o>> \in Pages
    BY <1>1 DEF Geometry
  <2>1. \A l \in Lines : <<l, 0>> \in Pages /\ <<l, 0>> \notin Beyond
    <3>1. \A l \in Lines : <<l, 0>> \notin Beyond
      BY DEF Geometry
    <3> QED
      BY <2>0, <3>1
  <2> QED
    BY <2>1 DEF Geometry
<1>5. DOMAIN wp = Writers
  BY DEF Types
<1>6. /\ Len(free') * P + Left(w)' = Len(free) * P + Left(w) - 1
      /\ Left(w)' \in Int /\ Len(free') * P \in Int
      /\ (noSpace' => UsesBeyond') /\ halted' = halted
      /\ \A v \in Writers \ {w} : wp'[v] = wp[v]
      /\ wp'[w] # NoPage
      /\ IF p[2] = P - 1 THEN wp'[w][2] = 0 ELSE wp'[w] = NextPage(p)
  <2>0. Left(w) = (IF wp[w] = NoPage THEN 0 ELSE P - p[2]) /\ p[2] \in Nat
    BY <1>1, <1>3 DEF Left
  <2>1. CASE p[2] = P - 1
    <3>1. fr # <<>>
      BY <2>1
    <3>2. /\ wp' = [wp EXCEPT ![w] = <<Head(fr), 0>>] /\ free' = Tail(fr) /\ halted' = halted
          /\ (noSpace' <=> OutOfRange(<<p[1], P - 1>>) \/ OutOfRange(<<Head(fr), 0>>))
      BY <2>1, <3>1 DEF Advance, LeaveLine
    <3>3. Head(fr) \in Lines /\ <<Head(fr), 0>> \in Pages /\ <<p[1], P - 1>> \in Pages
      <4>1. Head(fr) \in Lines
        BY <1>3, <3>1
      <4>2. 0 \in Offs /\ P - 1 \in Offs /\ \A l \in Lines, o \in Offs : <<l, o>> \in Pages
        BY <1>1 DEF Geometry
      <4> QED
        BY <1>3, <4>1, <4>2
    <3>4. wp'[w] = <<Head(fr), 0>> /\ <<Head(fr), 0>> # NoPage
      BY <1>5, <3>2, <3>3 DEF Geometry
    <3>5. Left(w)' = P
      BY <1>1, <3>4 DEF Left, NoPage, UNMAPPED_PPA
    <3>6. Len(free') * P = Len(fr) * P - P
      BY <1>1, <1>3, <3>1, <3>2, TailRoom
    <3>7. noSpace' => UsesBeyond'
      <4>1. p[1] \in full' \cup victim'
        BY <2>1 DEF Advance, LeaveLine
      <4>2. p[1] \notin Elems(free')
        BY <4>1 DEF Census, LeftLines
      <4>3. noSpace' => OutOfRange(<<p[1], P - 1>>)
        BY <1>4, <3>2, <3>3
      <4>4. <<p[1], P - 1>>[1] = p[1]
        OBVIOUS
      <4> QED
        BY <3>3, <4>2, <4>3, <4>4, BeyondInUse
    <3>8. \A v \in Writers \ {w} : wp'[v] = wp[v]
      BY <1>5, <3>2
    <3>9. Len(free') * P + Left(w)' = Len(free) * P + Left(w) - 1
      <4>1. CASE wp[w] = NoPage
        <5>1. P = 1 /\ Left(w) = 0
          BY <1>1, <1>3, <2>0, <2>1, <4>1
        <5> QED
          BY <1>2, <1>3, <3>5, <3>6, <4>1, <5>1
      <4>2. CASE wp[w] # NoPage
        <5>1. Left(w) = 1
          BY <1>1, <2>0, <2>1, <4>2
        <5> QED
          BY <1>1, <1>2, <1>3, <3>5, <3>6, <4>2, <5>1
      <4> QED
        BY <4>1, <4>2
    <3>10. Left(w)' \in Int /\ Len(free') * P \in Int
      BY <1>1, <1>3, <3>5, <3>6
    <3>11. wp'[w][2] = 0
      BY <3>4
    <3> HIDE DEF p, P, fr
    <3> QED
      BY <2>1, <3>2, <3>4, <3>7, <3>8, <3>9, <3>10, <3>11
  <2>2. CASE p[2] # P - 1
    <3> DEFINE next == NextPage(p)
    <3>1. /\ wp' = [wp EXCEPT ![w] = next] /\ free' = fr /\ halted' = halted
          /\ (noSpace' <=> OutOfRange(p) \/ OutOfRange(next))
      BY <2>2 DEF Advance
    <3>2. next = <<p[1], p[2] + 1>> /\ next \in Pages /\ next # NoPage
      <4>1. next = <<p[1], p[2] + 1>>
        BY DEF NextPage
      <4>2. /\ \A l \in Lines, o \in Offs : <<l, o>> \in Pages
            /\ Offs = 0 .. P - 1 /\ NoPage \notin Pages
        BY DEF Geometry
      <4> HIDE DEF next, p, P
      <4>3. p[2] + 1 \in Offs
        BY <1>1, <1>3, <2>2, <4>2
      <4> QED
        BY <1>3, <4>1, <4>2, <4>3
    <3>3. wp'[w] = next
      BY <1>5, <3>1
    <3>4. Left(w)' = P - (p[2] + 1)
      BY <1>1, <3>2, <3>3 DEF Left, NoPage, UNMAPPED_PPA
    <3>5. noSpace' => UsesBeyond'
      <4>1. p[1] \in Under(w)' /\ next[1] = p[1]
        BY <3>2, <3>3 DEF Under, NoPage, UNMAPPED_PPA
      <4>2. p[1] \notin Elems(free')
        BY <4>1 DEF Census
      <4> QED
        BY <1>3, <3>1, <3>2, <4>1, <4>2, BeyondInUse
    <3>6. \A v \in Writers \ {w} : wp'[v] = wp[v]
      BY <1>5, <3>1
    <3>7. Len(free') * P + Left(w)' = Len(free) * P + Left(w) - 1
      <4>1. CASE wp[w] = NoPage
        <5>1. p[2] = 0 /\ Left(w) = 0
          BY <1>3, <2>0, <4>1
        <5> QED
          BY <1>1, <1>2, <1>3, <3>1, <3>4, <4>1, <5>1
      <4>2. CASE wp[w] # NoPage
        <5>1. Left(w) = P - p[2]
          BY <2>0, <4>2
        <5> QED
          BY <1>1, <1>2, <1>3, <2>0, <3>1, <3>4, <4>2, <5>1
      <4> QED
        BY <4>1, <4>2
    <3>8. Left(w)' \in Int /\ Len(free') * P \in Int
      BY <1>1, <1>3, <2>0, <3>1, <3>4
    <3> HIDE DEF next, p, P, fr
    <3> QED
      BY <2>2, <3>1, <3>2, <3>3, <3>5, <3>6, <3>7, <3>8 DEF next
  <2> QED
    BY <2>1, <2>2
<1>7. \A v \in Writers : Left(v) \in Int
  <2> SUFFICES ASSUME NEW v \in Writers PROVE Left(v) \in Int
    OBVIOUS
  <2>1. wp[v] # NoPage => wp[v] \in Pages /\ wp[v][2] \in 0 .. P - 1
    BY DEF Types, Geometry
  <2> QED
    BY <1>1, <2>1 DEF Left
<1>8. \A v \in Writers \ {w} : Left(v)' = Left(v)
  BY <1>1, <1>6 DEF Left, NoPage, UNMAPPED_PPA
<1>9. Room' = Room - 1
  <2> HIDE DEF P
  <2>1. Room = Len(free) * P + Left("USER") + Left("GC") /\ Room' = Len(free') * P + Left("USER")' + Left("GC")'
    BY <1>1 DEF Room, P
  <2>2. Left("USER") \in Int /\ Left("GC") \in Int
    BY <1>7 DEF Writers
  <2> DEFINE L  == Len(free) * P
             L2 == Len(free') * P
             U  == Left("USER")
             G  == Left("GC")
             U2 == Left("USER")'
             G2 == Left("GC")'
  <2>3. L \in Int /\ L2 \in Int /\ U \in Int /\ G \in Int
    BY <1>2, <1>6, <2>2
  <2>4. Room = L + U + G /\ Room = L + G + U /\ Room \in Int
    <3>1. Room = L + U + G
      BY <2>1
    <3> HIDE DEF L, U, G
    <3> QED
      BY <2>3, <3>1
  <2>5. CASE w = "USER"
    <3>1. G2 = G /\ L2 + U2 = L + U - 1 /\ U2 \in Int
      BY <1>6, <1>8, <2>5 DEF Writers
    <3>2. Room' = L2 + U2 + G
      BY <2>1, <3>1
    <3> HIDE DEF L, L2, U, G, U2, G2
    <3> QED
      BY <2>3, <2>4, <3>1, <3>2, OneLess
  <2>6. CASE w = "GC"
    <3>1. U2 = U /\ L2 + G2 = L + G - 1 /\ G2 \in Int
      BY <1>6, <1>8, <2>6 DEF Writers
    <3>2. Room' = L2 + U + G2
      BY <2>1, <3>1
    <3> HIDE DEF L, L2, U, G, U2, G2
    <3>3. Room' = L2 + G2 + U
      BY <2>3, <3>1, <3>2
    <3> QED
      BY <2>3, <2>4, <3>1, <3>3, OneLess
  <2> QED
    BY <2>5, <2>6 DEF Writers
<1> QED
  BY <1>6, <1>9


LEMMA Cancel ==
  ASSUME NEW a \in Nat, NEW b \in Nat, NEW P \in Nat \ {0}
  PROVE  /\ a * P <= b * P => a <= b
         /\ a * P + 1 <= b * P => a + 1 <= b
<1>1. a * P \in Nat /\ b * P \in Nat
  BY Successor
<1>2. ASSUME b + 1 <= a PROVE b * P + P <= a * P
  <2>1. (b + 1) * P <= a * P /\ (b + 1) * P = b * P + P
    BY <1>2, ProductMonotone, Successor
  <2> QED
    BY <2>1
<1>3. ASSUME b <= a PROVE b * P <= a * P
  BY <1>3, ProductMonotone
<1> QED
  BY <1>1, <1>2, <1>3

\* Page mapping: the valid pages are pages of the host's zones.
LEMMA ValidBound ==
  ASSUME FtlInv, Roomy, ~noSpace, HostOnly, Mapping = "PAGE"
  PROVE  /\ IsFiniteSet({p \in Pages : status[p] = "VALID"})
         /\ Cardinality({p \in Pages : status[p] = "VALID"}) <= Cardinality(ns.hostZones) * PgsPerLine
<1> DEFINE V == {p \in Pages : status[p] = "VALID"}
           L == ns.hostZones \X Offs
<1>1. /\ Types /\ Agree(Lpns, Pages, Beyond, maptbl, rmap, status) /\ PageZones /\ Geometry
      /\ IsFiniteSet(ns.hostZones) /\ Cardinality(ns.hostZones) \in Nat
  BY RoomyFacts DEF FtlInv, Types
<1>2. IsFiniteSet(Offs) /\ Cardinality(Offs) = PgsPerLine
  <2> DEFINE P == PgsPerLine
  <2>1. P \in Nat \ {0} /\ Offs = 0 .. P - 1
    BY <1>1 DEF Geometry
  <2> HIDE DEF P
  <2>2. IsFiniteSet(0 .. P - 1) /\ Cardinality(0 .. P - 1) = P
    BY <2>1, FS_Interval
  <2> QED
    BY <2>1, <2>2 DEF P
<1>3. IsFiniteSet(L) /\ Cardinality(L) = Cardinality(ns.hostZones) * PgsPerLine
  BY <1>1, <1>2, FS_Product
<1>4. ASSUME NEW p \in V PROVE rmap[p] \in L /\ maptbl[rmap[p]] = p
  <2>1. p \in Pages /\ rmap[p] \in Lpns /\ maptbl[rmap[p]] = p
    BY <1>1 DEF Agree
  <2>2. PICK z \in Zones, i \in Offs : rmap[p] = <<z, i>>
    BY <2>1 DEF Lpns
  <2>3. i < written[z]
    BY <1>1, <2>1, <2>2 DEF PageZones
  <2>4. written[z] # 0
    BY <1>1, <2>2, <2>3 DEF Types, Geometry
  <2> QED
    BY <2>1, <2>2, <2>4 DEF HostOnly
<1> DEFINE f == [p \in V |-> rmap[p]]
<1>5. f \in Injection(V, L)
  <2>1. f \in [V -> L]
    BY <1>4
  <2>2. \A p, q \in V : f[p] = f[q] => p = q
    <3> SUFFICES ASSUME NEW p \in V, NEW q \in V, rmap[p] = rmap[q] PROVE p = q
      OBVIOUS
    <3>1. maptbl[rmap[p]] = p /\ maptbl[rmap[q]] = q
      BY <1>4
    <3> QED
      BY <3>1
  <2> HIDE DEF f
  <2> QED
    BY <2>1, <2>2 DEF Injection, IsInjective
<1> HIDE DEF f, V, L
<1>6. IsFiniteSet(V) /\ Cardinality(V) <= Cardinality(L)
  BY <1>3, <1>5, FS_Injection
<1> QED
  BY <1>3, <1>6 DEF V

\* There are no more full lines than zones of the host, and less if another
\* line has a valid page.
LEMMA FullBound ==
  ASSUME FtlInv, Roomy, ~noSpace, HostOnly, Mapping = "PAGE"
  PROVE  /\ Cardinality(full) \in Nat /\ Cardinality(full) <= Cardinality(ns.hostZones)
         /\ \A q \in Pages : status[q] = "VALID" /\ q[1] \notin full
              => Cardinality(full) + 1 <= Cardinality(ns.hostZones)
<1> DEFINE V == {p \in Pages : status[p] = "VALID"}
           W == full \X Offs
           H == Cardinality(ns.hostZones)
           P == PgsPerLine
           F == Cardinality(full)
<1>1. /\ Types /\ OnLines(status) /\ Geometry /\ IsFiniteSet(Lines) /\ H \in Nat
  BY RoomyFacts DEF FtlInv, Types
<1>2. IsFiniteSet(Offs) /\ Cardinality(Offs) = P /\ P \in Nat \ {0}
  <2>1. P \in Nat \ {0} /\ Offs = 0 .. P - 1
    BY <1>1 DEF Geometry
  <2> HIDE DEF P
  <2>2. IsFiniteSet(0 .. P - 1) /\ Cardinality(0 .. P - 1) = P
    BY <2>1, FS_Interval
  <2> QED
    BY <2>1, <2>2
<1>3. IsFiniteSet(full) /\ F \in Nat
  BY <1>1, FS_Subset, FS_CardinalityType DEF Types
<1>4. IsFiniteSet(W) /\ Cardinality(W) = F * P
  BY <1>2, <1>3, FS_Product
<1>5. W \subseteq V
  <2> SUFFICES ASSUME NEW l \in full, NEW o \in Offs PROVE <<l, o>> \in V
    OBVIOUS
  <2>1. l \in Lines /\ l \in LeftLines
    BY <1>1 DEF Types, LeftLines
  <2>2. <<l, o>> \in Pages
    BY <1>1, <2>1 DEF Geometry
  <2>3. status[<<l, o>>] \in Statuses /\ status[<<l, o>>] # "INVALID" /\ status[<<l, o>>] # "FREE"
    BY <1>1, <2>1, <2>2 DEF Types, OnLines
  <2> QED
    BY <2>2, <2>3 DEF Statuses
<1>6. IsFiniteSet(V) /\ Cardinality(V) <= H * P
  BY ValidBound
<1>7. H * P \in Nat /\ F * P \in Nat /\ Cardinality(V) \in Nat
  BY <1>1, <1>2, <1>3, <1>6, Successor, FS_CardinalityType
<1>8. F <= H
  <2> HIDE DEF V, W, H, P, F
  <2>1. Cardinality(W) <= Cardinality(V)
    BY <1>5, <1>6, FS_Subset
  <2>2. F * P <= H * P
    BY <1>4, <1>6, <1>7, <2>1
  <2> QED
    BY <1>1, <1>2, <1>3, <2>2, Cancel
<1>9. ASSUME NEW q \in Pages, status[q] = "VALID", q[1] \notin full PROVE F + 1 <= H
  <2>1. q \in V /\ q \notin W
    BY <1>9
  <2> HIDE DEF V, W, H, P, F
  <2>2. W \cup {q} \subseteq V /\ IsFiniteSet(W \cup {q}) /\ Cardinality(W \cup {q}) = Cardinality(W) + 1
    BY <1>4, <1>5, <2>1, FS_AddElement
  <2>3. Cardinality(W \cup {q}) <= Cardinality(V)
    BY <1>6, <2>2, FS_Subset
  <2>4. F * P + 1 <= H * P
    BY <1>4, <1>6, <1>7, <2>2, <2>3
  <2> QED
    BY <1>1, <1>2, <1>3, <2>4, Cancel
<1> QED
  BY <1>3, <1>8, <1>9

-----------------------------------------------------------------------------
(* Writes and credits, with page mapping.                                  *)

LEMMA SmallMultiples ==
  ASSUME NEW n \in Nat, NEW P \in Nat
  PROVE  /\ n * P \in Nat
         /\ n = 0 => n * P = 0
         /\ n <= 1 => n * P <= P
         /\ n >= 1 => n * P >= P
         /\ n >= 2 => n * P >= 2 * P
         /\ n >= 3 => n * P >= 3 * P
<1>1. /\ 0 * P = 0 /\ 1 * P = P /\ n * P \in Nat
  OBVIOUS
<1>2. \A a, b \in Nat : a <= b => a * P <= b * P
  BY ProductMonotone
<1> QED
  BY <1>1, <1>2

LEMMA RoomTerms ==
  ASSUME FtlInv
  PROVE  /\ Geometry /\ PgsPerLine \in Nat \ {0} /\ credits \in Int
         /\ Len(free) \in Nat /\ Len(free) * PgsPerLine \in Nat
         /\ Len(free) = 0 <=> free = <<>>
         /\ Len(free) = 0 => Len(free) * PgsPerLine = 0
         /\ Len(free) <= 1 => Len(free) * PgsPerLine <= PgsPerLine
         /\ Len(free) >= 1 => Len(free) * PgsPerLine >= PgsPerLine
         /\ Len(free) >= 2 => Len(free) * PgsPerLine >= 2 * PgsPerLine
         /\ Len(free) >= 3 => Len(free) * PgsPerLine >= 3 * PgsPerLine
         /\ \A w \in Writers :
              /\ Left(w) \in 0 .. PgsPerLine
              /\ wp[w] = NoPage => Left(w) = 0
              /\ wp[w] # NoPage => /\ wp[w] \in Pages /\ wp[w][2] \in 0 .. PgsPerLine - 1
                                   /\ wp[w] = <<wp[w][1], wp[w][2]>>
                                   /\ Left(w) = PgsPerLine - wp[w][2]
         /\ Room = Len(free) * PgsPerLine + Left("USER") + Left("GC")
         /\ Left("USER") \in 0 .. PgsPerLine /\ Left("GC") \in 0 .. PgsPerLine
<1>1. Geometry /\ PgsPerLine \in Nat \ {0} /\ credits \in Int /\ free \in Seq(Lines)
  BY GeometryHolds DEF FtlInv, Types, Geometry
<1>2. Len(free) \in Nat /\ (Len(free) = 0 <=> free = <<>>)
  BY <1>1
<1>3. ASSUME NEW w \in Writers
      PROVE  /\ Left(w) \in 0 .. PgsPerLine
             /\ wp[w] = NoPage => Left(w) = 0
             /\ wp[w] # NoPage => /\ wp[w] \in Pages /\ wp[w][2] \in 0 .. PgsPerLine - 1
                                  /\ wp[w] = <<wp[w][1], wp[w][2]>>
                                  /\ Left(w) = PgsPerLine - wp[w][2]
  <2>1. wp[w] \in Pages \cup {NoPage}
    BY DEF FtlInv, Types
  <2>2. CASE wp[w] = NoPage
    BY <1>1, <2>2 DEF Left
  <2>3. CASE wp[w] # NoPage
    <3>1. wp[w] \in Pages /\ wp[w][2] \in 0 .. PgsPerLine - 1 /\ wp[w] = <<wp[w][1], wp[w][2]>>
      BY <1>1, <2>1, <2>3 DEF Geometry
    <3> QED
      BY <1>1, <2>3, <3>1 DEF Left
  <2> QED
    BY <2>2, <2>3
<1>4. Left("USER") \in 0 .. PgsPerLine /\ Left("GC") \in 0 .. PgsPerLine
  BY <1>3 DEF Writers
<1> DEFINE n == Len(free)
           P == PgsPerLine
<1>5. n \in Nat /\ P \in Nat
  BY <1>1, <1>2
<1> HIDE DEF n, P
<1>6. /\ n * P \in Nat
      /\ n = 0 => n * P = 0
      /\ n <= 1 => n * P <= P
      /\ n >= 1 => n * P >= P
      /\ n >= 2 => n * P >= 2 * P
      /\ n >= 3 => n * P >= 3 * P
  BY <1>5, SmallMultiples
<1> QED
  BY <1>1, <1>2, <1>3, <1>4, <1>6 DEF n, P, Room

\* With room a write pointer that finishes its line finds another.
LEMMA LineAhead ==
  ASSUME FtlInv, NEW w \in Writers, CanOpen(w), Room >= PgsPerLine + 2,
         PageOf(w)[2] = PgsPerLine - 1, wp[w] = NoPage => Room >= 2 * PgsPerLine + 1
  PROVE  FreeLeft(w) # <<>>
<1> DEFINE P == PgsPerLine
           L == Len(free) * PgsPerLine
<1>1. /\ P \in Nat \ {0} /\ L \in Nat /\ Len(free) \in Nat /\ (Len(free) = 0 <=> free = <<>>)
      /\ Len(free) <= 1 => L <= P
      /\ Len(free) = 0 => L = 0
      /\ Room = L + Left("USER") + Left("GC")
      /\ Left("USER") \in 0 .. P /\ Left("GC") \in 0 .. P
      /\ wp[w] = NoPage => Left(w) = 0
      /\ wp[w] # NoPage => Left(w) = P - wp[w][2]
      /\ free \in Seq(Lines)
  BY RoomTerms DEF FtlInv, Types
<1> HIDE DEF P, L
<1>2. Room - Left(w) <= L + P /\ Left(w) \in 0 .. P
  BY <1>1 DEF Writers
<1>3. CASE wp[w] # NoPage
  <2>1. PageOf(w) = wp[w] /\ FreeLeft(w) = free
    BY <1>3 DEF PageOf, FreeLeft
  <2>2. wp[w][2] = P - 1
    BY <2>1 DEF P
  <2>3. Left(w) = 1
    BY <1>1, <1>3, <2>2
  <2>4. Room >= P + 2
    BY DEF P
  <2>5. L # 0
    BY <1>1, <1>2, <2>3, <2>4
  <2> QED
    BY <1>1, <2>1, <2>5
<1>4. CASE wp[w] = NoPage
  <2>1. Left(w) = 0 /\ Room >= 2 * P + 1
    BY <1>1, <1>4 DEF P
  <2>2. ~(L <= P)
    BY <1>1, <1>2, <2>1
  <2>3. Len(free) >= 2
    BY <1>1, <2>2
  <2>4. FreeLeft(w) = Tail(free)
    BY <1>4 DEF FreeLeft
  <2>5. free # <<>> /\ 1 \in Nat
    BY <1>1, <2>3
  <2>6. Tail(free) \in Seq(Lines) /\ Len(Tail(free)) = Len(free) - 1
    BY <1>1, <2>5, TailRoom
  <2>7. Len(Tail(free)) # 0 /\ Len(<<>>) = 0
    BY <1>1, <2>3, <2>6
  <2> QED
    BY <2>4, <2>7
<1> QED
  BY <1>3, <1>4

LEMMA WritePageRoom ==
  ASSUME FtlInv, FtlInv', Roomy, RoomInv, ns' = ns, NEW z \in Zones, WritePage(z)
  PROVE  RoomKept
<1> DEFINE p == PageOf("USER")
           P == PgsPerLine
<1>1. /\ Mapping = "PAGE" /\ job = Idle /\ z \in ns.hostZones /\ CanOpen("USER")
      /\ PutPage(<<z, written[z]>>, p, maptbl, rmap, status, vpc)
      /\ Advance("USER", p) /\ Charge /\ written' = [written EXCEPT ![z] = @ + 1]
  BY DEF WritePage, CanWrite
<1>2. job.kind = "idle" /\ Room >= 2 * P + 1 /\ Room >= credits + 2 * P
  BY <1>1 DEF RoomInv, PageRoom, Idle
<1>3. P \in Nat \ {0} /\ Room \in Int /\ credits \in Int
  BY RoomTerms
<1>4. /\ Geometry /\ Types /\ Census /\ OnLines(status) /\ InRange /\ ~noSpace /\ ~halted
      /\ Census'
  BY RoomTerms DEF FtlInv, RoomInv
<1>5. p[2] = P - 1 => FreeLeft("USER") # <<>>
  <2>1. "USER" \in Writers /\ Room >= PgsPerLine + 2 /\ Room >= 2 * PgsPerLine + 1
    BY <1>2, <1>3 DEF Writers
  <2> QED
    BY <1>1, <2>1, LineAhead
<1>6. /\ Room' = Room - 1 /\ (noSpace' => UsesBeyond') /\ halted' = halted
      /\ wp'["USER"] # NoPage
      /\ IF p[2] = P - 1 THEN wp'["USER"][2] = 0 ELSE wp'["USER"] = NextPage(p)
  <2>1. "USER" \in Writers
    BY DEF Writers
  <2> QED
    BY <1>1, <1>4, <1>5, <2>1, AdvanceRoom
<1>7. status'[p] = "VALID" /\ p[2] \in Int /\ p = <<p[1], p[2]>>
  <2>1. Opened("USER", p, FreeLeft("USER"), status)
    BY <1>1, <1>4, OpenedHolds DEF Writers
  <2>2. p \in Pages /\ status[p] = "FREE" /\ status \in [Pages -> Statuses]
    BY <1>4, <2>1 DEF Opened, Types
  <2>3. status' = [status EXCEPT ![p] = "VALID"]
    BY <1>1, <2>2 DEF PutPage, MarkValid
  <2> HIDE DEF p
  <2> QED
    BY <1>4, <2>2, <2>3 DEF Geometry
<1>8. JustWritten'
  <2>1. CASE p[2] = P - 1
    BY <1>6, <2>1 DEF JustWritten, NoPage, UNMAPPED_PPA
  <2>2. CASE p[2] # P - 1
    <3>1. wp'["USER"][1] = p[1] /\ wp'["USER"][2] - 1 = p[2]
      BY <1>6, <1>7, <2>2 DEF NextPage
    <3> QED
      BY <1>6, <1>7, <3>1 DEF JustWritten, NoPage, UNMAPPED_PPA
  <2> QED
    BY <2>1, <2>2
<1> SUFFICES ASSUME ~noSpace' PROVE RoomInv'
  BY <1>4, <1>6 DEF RoomKept
<1>9. /\ credits' = credits - 1
      /\ IF credits - 1 <= 0 THEN job'.kind = "collect" ELSE job'.kind = "idle"
  BY <1>1, <1>6 DEF Charge, Idle
<1>10. PageRoom'
  <2>1. PgsPerLine' = P
    BY NamespaceStays
  <2> HIDE DEF P, p
  <2>2. Room' >= 2 * P /\ Room' >= credits' + 2 * P
    BY <1>2, <1>3, <1>6, <1>9
  <2>3. job'.kind = "idle" => Room' >= 2 * P + 1
    BY <1>2, <1>3, <1>6, <1>9
  <2>4. job'.kind = "collect" => credits' <= 0
    BY <1>9
  <2> QED
    BY <1>8, <1>9, <2>1, <2>2, <2>3, <2>4 DEF PageRoom
<1>11. HostOnly'
  <2>1. \A y \in Zones \ {z} : written'[y] = written[y]
    BY <1>1, <1>4 DEF Types
  <2>2. Zones' = Zones
    BY NamespaceStays
  <2> QED
    BY <1>1, <2>1, <2>2 DEF RoomInv, HostOnly
<1>12. LineRoom'
  BY <1>1, NamespaceStays DEF LineRoom
<1> QED
  BY <1>4, <1>6, <1>10, <1>11, <1>12 DEF RoomInv

LEMMA StillRoom ==
  ASSUME ns' = ns, wp' = wp, free' = free
  PROVE  Room' = Room
<1>1. PgsPerLine' = PgsPerLine
  BY NamespaceStays
<1> QED
  BY <1>1 DEF Room, Left, NoPage, UNMAPPED_PPA

LEMMA StillLines ==
  ASSUME RoomInv, ns' = ns, written' = written, status' = status, full' \subseteq full
  PROVE  HostOnly' /\ LineRoom'
<1>1. Zones' = Zones /\ Mapping' = Mapping
  BY NamespaceStays
<1> QED
  BY <1>1 DEF RoomInv, HostOnly, LineRoom

\* Credits are handed out while three lines are free, one of them over and above
\* the two that stay.
LEMMA RefillRoom ==
  ASSUME GcThresLinesHigh >= 2, FtlInv, RoomInv, ns' = ns, RefillCredits
  PROVE  RoomInv'
<1> DEFINE P == PgsPerLine
<1>1. /\ job.kind = "collect" /\ ~(Len(free) <= GcThresLinesHigh) /\ credits' = credits + P
      /\ job'.kind = "idle" /\ wp' = wp /\ free' = free /\ full' = full /\ status' = status
      /\ written' = written /\ noSpace' = noSpace /\ halted' = halted
  BY DEF RefillCredits, ShouldGcHigh, Idle, tables, lines
<1>2. HostOnly' /\ LineRoom'
  BY <1>1, StillLines
<1>3. Room' = Room /\ P' = P /\ Mapping' = Mapping
  BY <1>1, StillRoom, NamespaceStays
<1>4. ASSUME Mapping = "PAGE" PROVE Room >= 2 * P + 1 /\ Room >= credits' + 2 * P
  <2>1. wp["USER"] # NoPage /\ credits <= 0
    BY <1>1, <1>4 DEF RoomInv, PageRoom, JustWritten
  <2>2. Len(free) >= 3
    BY <1>1, RoomTerms, ThresholdAssumption
  <2>3. Left("USER") >= 1 /\ Left("GC") >= 0
    <3>1. "USER" \in Writers
      BY DEF Writers
    <3>2. /\ wp["USER"][2] \in 0 .. P - 1 /\ Left("USER") = P - wp["USER"][2]
          /\ Left("GC") \in 0 .. P /\ P \in Nat
      BY <2>1, <3>1, RoomTerms
    <3> HIDE DEF P
    <3> QED
      BY <3>2
  <2>4. /\ Room = Len(free) * P + Left("USER") + Left("GC") /\ Len(free) * P >= 3 * P
        /\ P \in Nat \ {0} /\ Len(free) * P \in Nat /\ credits \in Int
        /\ Left("USER") \in Int /\ Left("GC") \in Int
    BY <2>2, RoomTerms
  <2> HIDE DEF P
  <2> QED
    BY <1>1, <2>1, <2>3, <2>4
<1>5. PageRoom'
  BY <1>1, <1>3, <1>4 DEF PageRoom
<1> QED
  BY <1>1, <1>2, <1>5 DEF RoomInv

\* No victim and still nothing free would mean more full lines than the host has
\* zones.
LEMMA NoVictimRoom ==
  ASSUME FtlInv, Roomy, RoomInv, ns' = ns, NoVictim
  PROVE  RoomInv'
<1> DEFINE P == PgsPerLine
           H == Cardinality(ns.hostZones)
           F == Cardinality(full)
           n == Len(free)
<1>1. /\ job.kind = "collect" /\ victim = {} /\ credits' = credits
      /\ job'.kind = "idle" /\ wp' = wp /\ free' = free /\ full' = full /\ status' = status
      /\ written' = written /\ noSpace' = noSpace /\ halted' = halted
  BY DEF NoVictim, Idle, tables, lines
<1>2. HostOnly' /\ LineRoom'
  BY <1>1, StillLines
<1>3. Room' = Room /\ P' = P /\ Mapping' = Mapping
  BY <1>1, StillRoom, NamespaceStays
<1>4. ASSUME Mapping = "PAGE" PROVE Room >= 2 * P + 1 /\ Room >= credits + 2 * P
  <2>1. JustWritten /\ credits <= 0 /\ HostOnly /\ ~noSpace
    BY <1>1, <1>4 DEF RoomInv, PageRoom
  <2>2. wp["USER"] # NoPage
    BY <2>1 DEF JustWritten
  <2>3. H \in Nat /\ H + 3 <= NrLines /\ NrLines \in Nat
    BY <1>4, RoomyFacts DEF FtlInv, Types
  <2>4. GcLines = {} /\ Cardinality(victim) = 0 /\ Cardinality(GcLines) = 0
    BY <1>1, FS_EmptySet DEF GcLines
  <2>5. /\ F \in Nat /\ n \in Nat
        /\ NrLines = n + F + 1 + Cardinality(Under("GC"))
        /\ Cardinality(Under("GC")) = (IF wp["GC"] = NoPage THEN 0 ELSE 1)
    <3>1. /\ Types /\ Census /\ JobOK /\ IsFiniteSet(Lines) /\ Cardinality(Lines) = NrLines
      BY RoomyFacts DEF FtlInv, Types
    <3>2. /\ F \in Nat /\ n \in Nat
          /\ Cardinality(Under("USER")) = (IF wp["USER"] = NoPage THEN 0 ELSE 1)
          /\ Cardinality(Under("GC")) = (IF wp["GC"] = NoPage THEN 0 ELSE 1)
          /\ NrLines = n + F + Cardinality(victim) + Cardinality(GcLines)
                         + Cardinality(Under("USER")) + Cardinality(Under("GC"))
      BY <3>1, LineCount
    <3> HIDE DEF F, n
    <3> QED
      BY <2>2, <2>4, <3>2
  <2>6. F <= H
    BY <1>4, <2>1, FullBound
  <2>7. wp["USER"][2] # 0 => F + 1 <= H
    <3> SUFFICES ASSUME wp["USER"][2] # 0 PROVE F + 1 <= H
      OBVIOUS
    <3> DEFINE q == <<wp["USER"][1], wp["USER"][2] - 1>>
    <3>1. status[q] = "VALID"
      BY <2>1 DEF JustWritten
    <3>2. q[1] \notin full
      <4>1. wp["USER"][1] \in Under("USER") /\ Under("USER") \cap LeftLines = {}
        BY <2>2 DEF FtlInv, Census, Under, Writers
      <4> QED
        BY <4>1 DEF LeftLines
    <3>3. q \in Pages
      <4>1. /\ Geometry /\ wp["USER"] \in Pages /\ wp["USER"][2] \in 0 .. PgsPerLine - 1
            /\ PgsPerLine \in Nat
        BY <2>2, RoomTerms DEF Writers
      <4>2. wp["USER"][1] \in Lines /\ wp["USER"][2] - 1 \in 0 .. PgsPerLine - 1
        BY <4>1 DEF Geometry
      <4> QED
        BY <4>1, <4>2 DEF Geometry
    <3> HIDE DEF q
    <3> QED
      BY <1>4, <2>1, <3>1, <3>2, <3>3, FullBound
  <2>8. /\ Room = n * P + Left("USER") + Left("GC") /\ n * P \in Nat
        /\ n >= 1 => n * P >= P
        /\ n >= 2 => n * P >= 2 * P
        /\ P \in Nat \ {0} /\ credits \in Int
        /\ Left("USER") \in 0 .. P /\ Left("GC") \in 0 .. P
        /\ wp["USER"][2] \in 0 .. P - 1 /\ Left("USER") = P - wp["USER"][2]
        /\ wp["GC"] # NoPage => Left("GC") >= 1
    <3>1. "USER" \in Writers /\ "GC" \in Writers
      BY DEF Writers
    <3>2. wp["USER"][2] \in 0 .. P - 1 /\ Left("USER") = P - wp["USER"][2]
      BY <2>2, <3>1, RoomTerms
    <3>3. wp["GC"] # NoPage => Left("GC") >= 1
      <4> SUFFICES ASSUME wp["GC"] # NoPage PROVE Left("GC") >= 1
        OBVIOUS
      <4>1. wp["GC"][2] \in 0 .. P - 1 /\ Left("GC") = P - wp["GC"][2] /\ P \in Nat
        BY <3>1, RoomTerms
      <4> QED
        BY <4>1
    <3> QED
      BY <3>2, <3>3, RoomTerms
  <2> HIDE DEF P, H, F, n
  <2>9. CASE wp["USER"][2] = 0
    <3>1. Left("USER") = P
      BY <2>8, <2>9
    <3>2. CASE wp["GC"] = NoPage
      <4>1. n >= 2
        BY <2>3, <2>5, <2>6, <3>2
      <4> QED
        BY <2>1, <2>8, <3>1, <4>1
    <3>3. CASE wp["GC"] # NoPage
      <4>1. n >= 1
        BY <2>3, <2>5, <2>6, <3>3
      <4> QED
        BY <2>1, <2>8, <3>1, <3>3, <4>1
    <3> QED
      BY <3>2, <3>3
  <2>10. CASE wp["USER"][2] # 0
    <3>1. n >= 2
      BY <2>3, <2>5, <2>7, <2>10
    <3>2. Left("USER") >= 1
      BY <2>8
    <3> QED
      BY <2>1, <2>8, <3>1, <3>2
  <2> QED
    BY <2>9, <2>10
<1>5. PageRoom'
  BY <1>1, <1>3, <1>4 DEF PageRoom
<1> QED
  BY <1>1, <1>2, <1>5 DEF RoomInv


-----------------------------------------------------------------------------
(* Collections.                                                            *)

\* A victim gives back at least a page, and all of its pages with what is moved.
LEMMA SelectRoom ==
  ASSUME FtlInv, RoomInv, ns' = ns, SelectVictim
  PROVE  RoomInv'
<1> DEFINE P == PgsPerLine
<1>1. PICK v \in victim :
        refill' = ipc[v] + rpc[v] /\ job' = [kind |-> "gc", at |-> <<v, 0>>, first |-> NoLine]
  BY DEF SelectVictim
<1>2. /\ job.kind = "collect" /\ credits' = credits /\ vpc' = vpc
      /\ job'.kind = "gc" /\ job'.at[1] = v /\ wp' = wp /\ free' = free /\ full' = full
      /\ status' = status /\ written' = written /\ noSpace' = noSpace /\ halted' = halted
  BY <1>1 DEF SelectVictim, tables
<1>3. HostOnly' /\ LineRoom'
  BY <1>2, StillLines
<1>4. Room' = Room /\ P' = P /\ Mapping' = Mapping
  BY <1>2, StillRoom, NamespaceStays
<1>5. ASSUME Mapping = "PAGE"
      PROVE  /\ refill' >= 1 /\ refill' + vpc[v] = P /\ refill' \in Nat /\ vpc[v] \in Nat
             /\ Room >= 2 * P /\ Room >= credits + 2 * P
  <2>1. Room >= 2 * P /\ Room >= credits + 2 * P
    BY <1>2, <1>5 DEF RoomInv, PageRoom
  <2>2. /\ Geometry /\ v \in Lines /\ v \in LeftLines /\ status \in [Pages -> Statuses]
        /\ vpc[v] = Count(Offs, status, v, "VALID") /\ ipc[v] = Count(Offs, status, v, "INVALID")
        /\ rpc[v] = Count(Offs, status, v, "FREE")
    BY RoomTerms DEF FtlInv, Types, LeftLines, Counted
  <2>3. /\ \A o \in Offs : status[<<v, o>>] # "FREE"
        /\ ~\A o \in Offs : status[<<v, o>>] # "INVALID"
    BY <1>5, <2>2 DEF FtlInv, OnLines
  <2>4. /\ rpc[v] = 0 /\ ipc[v] # 0 /\ rpc[v] + vpc[v] + ipc[v] = P
        /\ ipc[v] \in 0 .. P /\ vpc[v] \in 0 .. P
    BY <2>2, <2>3, CountFacts
  <2>5. P \in Nat
    BY RoomTerms
  <2> HIDE DEF P
  <2> QED
    BY <1>1, <2>1, <2>4, <2>5
<1>6. Room \in Int /\ credits \in Int /\ P \in Nat
  BY RoomTerms
<1>7. PageRoom'
  <2> HIDE DEF P
  <2>1. ASSUME Mapping = "PAGE"
        PROVE  /\ refill' + vpc'[v] <= P /\ Room' + P - (refill' + vpc'[v]) >= 2 * P
               /\ Room' + P - vpc'[v] >= credits' + refill' + 2 * P
    BY <1>2, <1>4, <1>5, <1>6, <2>1
  <2> QED
    BY <1>2, <1>4, <1>5, <2>1 DEF PageRoom, P
<1> QED
  BY <1>2, <1>3, <1>7 DEF RoomInv

\* A collection runs with page mapping only.
LEMMA GcPaged ==
  ASSUME FtlInv, RoomInv, job.kind = "gc"
  PROVE  /\ Mapping = "PAGE" /\ Geometry /\ job.at[1] \in Lines /\ job.at[1] \in LeftLines
         /\ job.at = <<job.at[1], job.at[2]>> /\ job.at[2] \in 0 .. PgsPerLine
         /\ vpc[job.at[1]] = Count(Offs, status, job.at[1], "VALID")
         /\ vpc[job.at[1]] \in 0 .. PgsPerLine /\ status \in [Pages -> Statuses]
         /\ refill \in Nat /\ Room \in Int /\ credits \in Int /\ PgsPerLine \in Nat \ {0}
         /\ refill >= 1 /\ refill + vpc[job.at[1]] <= PgsPerLine
         /\ Room + PgsPerLine - (refill + vpc[job.at[1]]) >= 2 * PgsPerLine
         /\ Room + PgsPerLine - vpc[job.at[1]] >= credits + refill + 2 * PgsPerLine
<1> DEFINE v == job.at[1]
<1>1. Mapping = "PAGE"
  BY RoomTerms DEF FtlInv, LineZones, Geometry
<1>2. job.at \in Lines \X (0 .. PgsPerLine)
  BY DEF FtlInv, JobOK
<1>3. v \in Lines /\ v \in LeftLines /\ v = job.at[1]
  BY <1>2 DEF LeftLines, GcLines
<1>4. /\ Geometry /\ status \in [Pages -> Statuses] /\ refill \in 0 .. PgsPerLine
      /\ PgsPerLine \in Nat \ {0} /\ Room \in Int /\ credits \in Int
  <2>1. status \in [Pages -> Statuses] /\ refill \in 0 .. PgsPerLine
    BY DEF FtlInv, Types
  <2>2. Geometry /\ PgsPerLine \in Nat \ {0} /\ Room \in Int /\ credits \in Int
    BY RoomTerms
  <2> QED
    BY <2>1, <2>2
<1>5. vpc[v] = Count(Offs, status, v, "VALID") /\ vpc[v] \in 0 .. PgsPerLine
  <2>1. vpc[v] = Count(Offs, status, v, "VALID")
    BY <1>3 DEF FtlInv, Counted
  <2> QED
    BY <1>3, <1>4, <2>1, CountFacts
<1> HIDE DEF v
<1> QED
  BY <1>1, <1>2, <1>3, <1>4, <1>5 DEF RoomInv, PageRoom

LEMMA SkipRoom ==
  ASSUME FtlInv, RoomInv, ns' = ns, SkipPage
  PROVE  RoomInv'
<1>1. /\ job.kind = "gc" /\ job' = [job EXCEPT !.at = <<@[1], @[2] + 1>>]
      /\ wp' = wp /\ free' = free /\ full' = full /\ status' = status /\ vpc' = vpc
      /\ written' = written /\ noSpace' = noSpace /\ halted' = halted
      /\ credits' = credits /\ refill' = refill
  BY DEF SkipPage, InVictim, NextInVictim, tables, lines, flow
<1>2. job'.kind = "gc" /\ job'.at[1] = job.at[1]
  BY <1>1 DEF FtlInv, Types
<1>3. HostOnly' /\ LineRoom'
  BY <1>1, StillLines
<1>4. Room' = Room /\ PgsPerLine' = PgsPerLine /\ Mapping' = Mapping
  BY <1>1, StillRoom, NamespaceStays
<1>5. PageRoom'
  BY <1>1, <1>2, <1>4 DEF PageRoom, RoomInv
<1> QED
  BY <1>1, <1>3, <1>5 DEF RoomInv

\* The write pointer of the collection always finds a line.
LEMMA MoveOpens ==
  ASSUME FtlInv, RoomInv, job.kind = "gc", job.at[2] < PgsPerLine, status[job.at] = "VALID"
  PROVE  /\ CanOpen("GC") /\ job.at \in Pages /\ vpc[job.at[1]] >= 1
         /\ PageOf("GC")[2] = PgsPerLine - 1 => FreeLeft("GC") # <<>>
<1> DEFINE P == PgsPerLine
           v == job.at[1]
<1>1. job.at \in Pages
  <2>0. /\ Geometry /\ job.at[1] \in Lines /\ job.at = <<job.at[1], job.at[2]>>
        /\ job.at[2] \in 0 .. PgsPerLine /\ PgsPerLine \in Nat \ {0}
    BY GcPaged
  <2>1. job.at[2] \in Offs
    BY <2>0 DEF Geometry
  <2>2. PICK a \in Lines, b \in Offs : job.at = <<a, b>>
    BY <2>0, <2>1
  <2>3. <<a, b>> \in Pages
    BY <2>0 DEF Geometry
  <2> QED
    BY <2>2, <2>3
<1>2. vpc[v] >= 1
  <2>0. v \in Lines /\ job.at = <<v, job.at[2]>> /\ Geometry
    BY GcPaged
  <2>1. v \in Lines /\ job.at[2] \in Offs /\ job.at = <<v, job.at[2]>> /\ Geometry
    BY <1>1, <2>0 DEF Geometry
  <2>2. ~\A o \in Offs : status[<<v, o>>] # "VALID"
    BY <2>1
  <2>3. vpc[v] # 0 /\ vpc[v] \in 0 .. PgsPerLine
    <3>1. vpc[v] = Count(Offs, status, v, "VALID") /\ status \in [Pages -> Statuses]
      BY GcPaged
    <3> HIDE DEF v
    <3> QED
      BY <2>1, <2>2, <3>1, CountFacts
  <2>4. PgsPerLine \in Nat
    BY GcPaged
  <2> QED
    BY <2>3, <2>4
<1>3. Room >= P + 2 /\ P >= 2 /\ P \in Nat
  <2>1. /\ vpc[v] \in Int /\ refill \in Nat /\ Room \in Int /\ P \in Nat \ {0}
        /\ refill >= 1 /\ refill + vpc[v] <= P /\ Room + P - (refill + vpc[v]) >= 2 * P
    BY GcPaged
  <2> HIDE DEF P, v
  <2> QED
    BY <1>2, <2>1
<1>4. CanOpen("GC")
  <2> SUFFICES ASSUME wp["GC"] = NoPage, free = <<>> PROVE FALSE
    BY DEF CanOpen
  <2>1. Left("GC") = 0 /\ Len(free) * P = 0 /\ Left("USER") \in 0 .. P
        /\ Room = Len(free) * P + Left("USER") + Left("GC")
    BY RoomTerms DEF Writers
  <2> HIDE DEF P
  <2> QED
    BY <1>3, <2>1
<1>5. wp["GC"] = NoPage => PageOf("GC")[2] # P - 1
  BY <1>3 DEF PageOf
<1>6. PageOf("GC")[2] = P - 1 => FreeLeft("GC") # <<>>
  BY <1>3, <1>4, <1>5, LineAhead DEF Writers
<1> QED
  BY <1>1, <1>2, <1>4, <1>6

LEMMA MoveRoom ==
  ASSUME FtlInv, FtlInv', RoomInv, ns' = ns, MovePage
  PROVE  RoomKept
<1> DEFINE P   == PgsPerLine
           v   == job.at[1]
           p   == PageOf("GC")
           lpn == rmap[job.at]
           mt  == [maptbl EXCEPT ![lpn] = UNMAPPED_PPA]
           rm  == SetRmap(rmap, job.at, INVALID_LPN)
           st  == [status EXCEPT ![job.at] = "INVALID"]
           vp  == [vpc EXCEPT ![v] = @ - 1]
<1>1. job.kind = "gc" /\ job.at[2] < PgsPerLine /\ status[job.at] = "VALID" /\ ~noSpace
  BY DEF MovePage, InVictim, RoomInv
<1>2. /\ CanOpen("GC") /\ job.at \in Pages /\ vpc[v] >= 1
      /\ p[2] = P - 1 => FreeLeft("GC") # <<>>
  BY <1>1, MoveOpens
<1>3. maptbl[lpn] = job.at
  BY <1>1, <1>2 DEF FtlInv, Agree
<1>4. /\ PutPage(lpn, p, mt, rm, st, vp) /\ Advance("GC", p)
      /\ job' = [job EXCEPT !.at = <<@[1], @[2] + 1>>]
      /\ credits' = credits /\ refill' = refill /\ written' = written
  BY <1>1, <1>3, Zenon DEF MovePage, NextInVictim, flow
<1>5. job'.kind = "gc" /\ job'.at[1] = v
  BY <1>1, <1>4 DEF FtlInv, Types
<1>6. /\ Room' = Room - 1 /\ (noSpace' => UsesBeyond') /\ halted' = halted /\ ~halted
  <2>1. Geometry /\ Types /\ Census' /\ "GC" \in Writers /\ ~halted
    BY RoomTerms DEF FtlInv, RoomInv, Writers
  <2> QED
    BY <1>2, <1>4, <2>1, AdvanceRoom
<1>7. vpc'[v] = vpc[v] - 1
  <2>1. Geometry /\ Types /\ Census /\ OnLines(status) /\ InRange /\ "GC" \in Writers
    BY RoomTerms DEF FtlInv, Types, Writers
  <2>2. Opened("GC", p, FreeLeft("GC"), status)
    BY <1>2, <2>1, OpenedHolds
  <2>3. v \in Lines /\ v \in LeftLines /\ p[1] # v /\ p[1] \in Lines
    BY <1>1, <2>2, GcPaged DEF Opened
  <2>4. DOMAIN vpc = Lines
    BY DEF FtlInv, Counted
  <2>5. vpc' = vp \/ vpc' = [vp EXCEPT ![p[1]] = @ + 1]
    BY <1>4 DEF PutPage, CountValid
  <2> HIDE DEF p, v
  <2> QED
    BY <2>3, <2>4, <2>5
<1>8. /\ vpc[v] \in Int /\ refill \in Nat /\ Room \in Int /\ P \in Nat \ {0} /\ credits \in Int
      /\ refill >= 1 /\ refill + vpc[v] <= P /\ Room + P - (refill + vpc[v]) >= 2 * P
      /\ Room + P - vpc[v] >= credits + refill + 2 * P
  BY <1>1, GcPaged
<1>9. P' = P /\ Mapping' = Mapping /\ Mapping = "PAGE" /\ Zones' = Zones
  BY <1>1, GcPaged, NamespaceStays
<1>10. PageRoom'
  <2> HIDE DEF P, v
  <2>1. /\ refill' >= 1 /\ refill' + vpc'[v] <= P /\ Room' + P - (refill' + vpc'[v]) >= 2 * P
        /\ Room' + P - vpc'[v] >= credits' + refill' + 2 * P
    BY <1>4, <1>6, <1>7, <1>8
  <2> QED
    BY <1>5, <1>9, <2>1 DEF PageRoom, P
<1>11. HostOnly'
  BY <1>4, <1>9 DEF RoomInv, HostOnly
<1>12. LineRoom'
  BY <1>9 DEF LineRoom
<1> QED
  BY <1>6, <1>10, <1>11, <1>12 DEF RoomInv, RoomKept

\* An erased line is a line of room more.
LEMMA LineBack ==
  ASSUME FtlInv, ns' = ns, wp' = wp, NEW l \in Lines, free' = Append(free, l)
  PROVE  Room' = Room + PgsPerLine
<1> DEFINE n == Len(free)
           P == PgsPerLine
<1>1. free \in Seq(Lines)
  BY DEF FtlInv, Types
<1>2. Len(free') = n + 1 /\ n \in Nat
  BY <1>1
<1>3. P \in Nat /\ n * P \in Nat /\ Left("USER") \in Int /\ Left("GC") \in Int
  BY RoomTerms
<1>4. P' = P
  BY NamespaceStays
<1>5. Left("USER")' = Left("USER") /\ Left("GC")' = Left("GC")
  BY <1>4 DEF Left, NoPage, UNMAPPED_PPA
<1>6. Room = n * P + Left("USER") + Left("GC") /\ Room' = (n + 1) * P + Left("USER")' + Left("GC")'
  BY <1>2, <1>4 DEF Room
<1> HIDE DEF n, P
<1>7. (n + 1) * P = n * P + P
  BY <1>2, <1>3, Successor
<1> QED
  BY <1>3, <1>5, <1>6, <1>7 DEF P

LEMMA FinishGcRoom ==
  ASSUME FtlInv, RoomInv, ns' = ns, FinishGc
  PROVE  RoomInv'
<1> DEFINE P == PgsPerLine
           v == job.at[1]
<1>1. /\ job.kind = "gc" /\ job.at[2] = P /\ free' = Append(free, v) /\ wp' = wp
      /\ credits' = credits + refill /\ job'.kind = "idle" /\ written' = written
      /\ noSpace' = noSpace /\ halted' = halted
  BY DEF FinishGc, EraseLine, ToFreeList, Idle
<1>2. /\ Mapping = "PAGE" /\ Geometry /\ v \in Lines /\ status \in [Pages -> Statuses]
      /\ vpc[v] = Count(Offs, status, v, "VALID")
      /\ vpc[v] \in Int /\ refill \in Nat /\ Room \in Int /\ P \in Nat \ {0} /\ credits \in Int
      /\ refill >= 1 /\ refill + vpc[v] <= P /\ Room + P - (refill + vpc[v]) >= 2 * P
      /\ Room + P - vpc[v] >= credits + refill + 2 * P
  BY <1>1, GcPaged
<1>3. \A o \in Offs : status[<<v, o>>] # "VALID"
  <2>1. \A o \in Offs : o < job.at[2]
    BY <1>1, <1>2 DEF Geometry
  <2> QED
    BY <1>1, <2>1 DEF FtlInv, JobOK
<1>4. vpc[v] = 0
  <2> HIDE DEF v
  <2> QED
    BY <1>2, <1>3, CountFacts
<1>5. Room' = Room + P
  BY <1>1, <1>2, LineBack
<1>6. P' = P /\ Mapping' = Mapping /\ Zones' = Zones
  BY NamespaceStays
<1>7. PageRoom'
  <2> HIDE DEF P, v
  <2>0. refill + 0 <= P /\ Room + P - (refill + 0) >= 2 * P /\ Room + P - 0 >= credits + refill + 2 * P
    BY <1>2, <1>4
  <2>1. Room' >= 2 * P + 1 /\ Room' >= credits' + 2 * P
    <3>1. refill \in Nat /\ Room \in Int /\ P \in Nat /\ credits \in Int /\ refill >= 1
      BY <1>2
    <3>2. credits' = credits + refill /\ Room' = Room + P
      BY <1>1, <1>5
    <3> QED
      BY <2>0, <3>1, <3>2
  <2> QED
    BY <1>1, <1>6, <2>1 DEF PageRoom, P
<1>8. HostOnly' /\ LineRoom'
  BY <1>1, <1>2, <1>6 DEF RoomInv, HostOnly, LineRoom
<1> QED
  BY <1>1, <1>7, <1>8 DEF RoomInv

-----------------------------------------------------------------------------
(* Resets.                                                                 *)

LEMMA ResetStillRoom ==
  ASSUME FtlInv, RoomInv, ns' = ns, job.kind \in {"idle", "reset", "erase"},
         job'.kind \in {"idle", "reset", "erase"}, credits' = credits,
         Room' = Room \/ Room' = Room + PgsPerLine
  PROVE  PageRoom'
<1> DEFINE P == PgsPerLine
<1>1. P' = P /\ Mapping' = Mapping
  BY NamespaceStays
<1>2. P \in Nat /\ Room \in Int /\ credits \in Int
  BY RoomTerms
<1>3. Mapping = "PAGE" => Room >= 2 * P + 1 /\ Room >= credits + 2 * P
  BY DEF RoomInv, PageRoom
<1> HIDE DEF P
<1>4. Room' = Room \/ Room' = Room + P
  BY DEF P
<1>5. Mapping = "PAGE" => Room' >= 2 * P + 1 /\ Room' >= credits + 2 * P
  BY <1>2, <1>3, <1>4
<1> QED
  BY <1>1, <1>5 DEF PageRoom, P

LEMMA StartResetRoom ==
  ASSUME FtlInv, RoomInv, ns' = ns, NEW z \in Zones, StartReset(z)
  PROVE  RoomInv'
<1>1. /\ job.kind = "idle" /\ job'.kind = "reset" /\ credits' = credits /\ wp' = wp /\ free' = free
      /\ full' = full /\ status' = status /\ written' = written
      /\ noSpace' = noSpace /\ halted' = halted
  BY DEF StartReset, Idle, tables, lines, flow
<1>2. HostOnly' /\ LineRoom'
  BY <1>1, StillLines
<1>3. Room' = Room
  BY <1>1, StillRoom
<1>4. PageRoom'
  BY <1>1, <1>3, ResetStillRoom
<1> QED
  BY <1>1, <1>2, <1>4 DEF RoomInv

\* With zone mapping the first page of a line to go takes it off the full list.
LEMMA ResetLeavesFull ==
  ASSUME FtlInv, ResetPage, Mapping = "ZONE"
  PROVE  maptbl[job.at][1] \notin full'
<1> DEFINE z == job.at[1]
           k == job.at[2]
           p == maptbl[job.at]
           l == p[1]
<1>1. job.kind = "reset" /\ k < PgsPerLine /\ p \in Pages
  BY DEF ResetPage, InZone, mapped
<1>2. Geometry /\ job.at \in Lines \X (0 .. PgsPerLine) /\ PgsPerLine \in Nat \ {0}
  BY <1>1, RoomTerms DEF FtlInv, JobOK
<1>3. z \in Zones /\ k \in Offs /\ job.at = <<z, k>>
  BY <1>1, <1>2 DEF Geometry
<1>4. ZoneLeaves(z, k)
  BY <1>1, <1>3 DEF FtlInv, LineZones, Resetting
<1>5. PICK m \in Lines :
        /\ \A i \in Offs : IF i < k THEN status[<<m, i>>] = "INVALID"
                                    ELSE maptbl[<<z, i>>] = <<m, i>>
        /\ IF k = 0 THEN victim = {} /\ m \in full /\ job.first = NoLine
                    ELSE victim = {m} /\ job.first = m
  BY <1>1, <1>4 DEF ZoneLeaves
<1>6. ~(k < k)
  BY <1>2, <1>3 DEF Geometry
<1>7. p = <<m, k>> /\ l = m
  <2>1. maptbl[<<z, k>>] = <<m, k>>
    BY <1>3, <1>5, <1>6
  <2>2. p = maptbl[<<z, k>>]
    BY <1>3
  <2> HIDE DEF p
  <2> QED
    BY <2>1, <2>2
<1>8. IF vpc[l] = PgsPerLine THEN full' = full \ {l} ELSE full' = full
  BY DEF ResetPage
<1>9. CASE k # 0
  <2>1. l \in victim /\ full \cap victim = {}
    BY <1>5, <1>7, <1>9 DEF FtlInv, Census
  <2> QED
    BY <1>8, <2>1
<1>10. CASE k = 0
  <2>1. \A i \in Offs : maptbl[<<z, i>>] = <<m, i>>
    <3>1. \A i \in Offs : ~(i < 0)
      BY <1>2 DEF Geometry
    <3> QED
      BY <1>5, <1>10, <3>1
  <2>2. \A i \in Offs : status[<<m, i>>] = "VALID"
    <3> SUFFICES ASSUME NEW i \in Offs PROVE status[<<m, i>>] = "VALID"
      OBVIOUS
    <3>1. <<z, i>> \in Lpns /\ <<m, i>> \in Pages /\ INVALID_LPN \notin Lpns
      BY <1>2, <1>3 DEF Geometry
    <3>2. rmap[<<m, i>>] = <<z, i>>
      BY <2>1, <3>1 DEF FtlInv, Agree
    <3> QED
      BY <3>1, <3>2 DEF FtlInv, Agree
  <2>3. GcLines = {}
    BY <1>1 DEF GcLines
  <2>4. vpc[m] = PgsPerLine
    BY <1>2, <2>2, <2>3, ValidLine DEF FtlInv
  <2> QED
    BY <1>7, <1>8, <2>4
<1> QED
  BY <1>9, <1>10

LEMMA ResetPageRoom ==
  ASSUME FtlInv, RoomInv, ns' = ns, ResetPage
  PROVE  RoomInv'
<1> DEFINE p == maptbl[job.at]
<1>1. /\ job.kind = "reset" /\ job'.kind \in {"reset", "erase"} /\ credits' = credits /\ wp' = wp
      /\ free' = free /\ full' \subseteq full /\ status' = [status EXCEPT ![p] = "INVALID"]
      /\ written' = written /\ noSpace' = noSpace /\ halted' = halted /\ p \in Pages
  BY DEF ResetPage, InZone, mapped, flow
<1>2. Mapping' = Mapping /\ Zones' = Zones
  BY NamespaceStays
<1>3. LineRoom'
  <2> SUFFICES ASSUME Mapping = "ZONE", NEW l \in full' PROVE status'[<<l, 0>>] = "VALID"
    BY <1>2 DEF LineRoom
  <2>1. l \in full /\ l # p[1]
    BY <1>1, ResetLeavesFull
  <2>2. status[<<l, 0>>] = "VALID"
    BY <2>1 DEF RoomInv, LineRoom
  <2>3. <<l, 0>> # p
    BY <2>1
  <2>4. <<l, 0>> \in Pages /\ status \in [Pages -> Statuses]
    <3>1. full \subseteq Lines /\ status \in [Pages -> Statuses]
      BY DEF FtlInv, Types
    <3>2. 0 \in Offs /\ \A m \in Lines, o \in Offs : <<m, o>> \in Pages
      BY RoomTerms DEF Geometry
    <3> HIDE DEF p
    <3> QED
      BY <2>1, <3>1, <3>2
  <2> HIDE DEF p
  <2> QED
    BY <1>1, <2>2, <2>3, <2>4
<1>4. HostOnly'
  BY <1>1, <1>2 DEF RoomInv, HostOnly
<1>5. Room' = Room
  BY <1>1, StillRoom
<1>6. PageRoom'
  BY <1>1, <1>5, ResetStillRoom
<1> QED
  BY <1>1, <1>3, <1>4, <1>6 DEF RoomInv

\* erase_linked_lines gives back a line or nothing.
LEMMA EraseRoom ==
  ASSUME Supported, FtlInv, RoomInv, ns' = ns, job.kind \in {"reset", "erase"},
         job'.kind \in {"idle", "reset"}, EraseFirst,
         maptbl' = maptbl, rmap' = rmap, wp' = wp, credits' = credits
  PROVE  PageRoom' /\ LineRoom'
<1>1. Mapping' = Mapping
  BY NamespaceStays
<1>2. GcLines = {} /\ GcLines' = {}
  BY DEF GcLines
<1>3. CASE job.first # NoLine /\ Spent(job.first)
  <2> DEFINE f == job.first
  <2>1. f \in Lines
    BY <1>3 DEF FtlInv, Types
  <2>2. \E o \in Offs : status[<<f, o>>] = "INVALID"
    BY <1>3 DEF FtlInv, JobOK
  <2>3. f \notin full
    <3> HIDE DEF f
    <3>1. Spent(f)
      BY <1>3 DEF f
    <3> QED
      BY <1>2, <2>1, <2>2, <3>1, RoomTerms, SpentLine DEF FtlInv
  <2>4. full' = full /\ \A m \in Lines \ {f}, o \in Offs : status'[<<m, o>>] = status[<<m, o>>]
    BY <1>2, EraseFirstKeeps
  <2>5. LineRoom'
    <3> SUFFICES ASSUME Mapping = "ZONE", NEW l \in full PROVE status'[<<l, 0>>] = "VALID"
      BY <1>1, <2>4 DEF LineRoom
    <3>1. l \in Lines \ {f} /\ 0 \in Offs
      <4>1. full \subseteq Lines
        BY DEF FtlInv, Types
      <4>2. Geometry
        BY RoomTerms
      <4> HIDE DEF f
      <4> QED
        BY <2>3, <4>1, <4>2 DEF Geometry
    <3> HIDE DEF f
    <3> QED
      BY <2>4, <3>1 DEF RoomInv, LineRoom
  <2>6. free' = Append(free, f)
    BY <1>3 DEF EraseFirst, EraseLine, ToFreeList
  <2>7. Room' = Room + PgsPerLine
    BY <2>1, <2>6, LineBack
  <2> QED
    BY <2>5, <2>7, ResetStillRoom
<1>4. CASE ~(job.first # NoLine /\ Spent(job.first))
  <2>1. free' = free /\ full' = full /\ status' = status
    BY <1>4 DEF EraseFirst, lines
  <2>2. LineRoom'
    BY <1>1, <2>1 DEF RoomInv, LineRoom
  <2>3. Room' = Room
    BY <2>1, StillRoom
  <2> QED
    BY <2>2, <2>3, ResetStillRoom
<1> QED
  BY <1>3, <1>4

LEMMA EndResetRoom ==
  ASSUME Supported, FtlInv, RoomInv, ns' = ns, ResetErase \/ FinishReset
  PROVE  RoomInv'
<1>1. /\ job.kind \in {"reset", "erase"} /\ EraseFirst /\ maptbl' = maptbl /\ rmap' = rmap
      /\ wp' = wp /\ credits' = credits /\ noSpace' = noSpace /\ halted' = halted
      /\ written' = written \/ written' = [written EXCEPT ![job.at[1]] = 0]
  BY DEF ResetErase, FinishReset, flow
<1>2. job'.kind \in {"idle", "reset"}
  <2>1. CASE ResetErase
    <3>1. job \in [kind : JobKinds, at : (Zones \X (0 .. PgsPerLine)) \cup {NoPage},
                   first : Lines \cup {NoLine}]
      BY DEF FtlInv, Types
    <3>2. job' = [job EXCEPT !.kind = "reset", !.first = NoLine]
      BY <2>1 DEF ResetErase
    <3> QED
      BY <3>1, <3>2
  <2>2. CASE FinishReset
    BY <2>2 DEF FinishReset, Idle
  <2> QED
    BY <2>1, <2>2
<1>3. PageRoom' /\ LineRoom'
  BY <1>1, <1>2, EraseRoom
<1>4. HostOnly'
  <2>1. \A y \in Zones : written'[y] # 0 => written[y] # 0
    BY <1>1 DEF FtlInv, Types
  <2>2. Zones' = Zones
    BY NamespaceStays
  <2> QED
    BY <2>1, <2>2 DEF RoomInv, HostOnly
<1> QED
  BY <1>1, <1>3, <1>4 DEF RoomInv


-----------------------------------------------------------------------------
(* Writes, with zone mapping.                                              *)

\* No more lines are full than the host has zones, a zone without data not
\* counted.
LEMMA ZoneBound ==
  ASSUME FtlInv, Roomy, RoomInv, Mapping = "ZONE", job.kind = "idle",
         NEW z \in ns.hostZones, ~mapped(maptbl[<<z, 0>>])
  PROVE  Cardinality(full) \in Nat /\ Cardinality(full) + 1 <= Cardinality(ns.hostZones)
<1> DEFINE H == ns.hostZones \ {z}
           f == [l \in full |-> rmap[<<l, 0>>][1]]
<1>1. /\ Geometry /\ full \subseteq Lines /\ IsFiniteSet(full) /\ IsFiniteSet(ns.hostZones)
      /\ Cardinality(ns.hostZones) \in Nat
  <2>1. full \subseteq Lines /\ Geometry /\ IsFiniteSet(ns.hostZones)
        /\ Cardinality(ns.hostZones) \in Nat /\ IsFiniteSet(Lines)
    BY RoomyFacts DEF FtlInv, Types
  <2> QED
    BY <2>1, FS_Subset
<1>2. IsFiniteSet(H) /\ Cardinality(H) = Cardinality(ns.hostZones) - 1
  BY <1>1, FS_RemoveElement
<1>3. ASSUME NEW l \in full
      PROVE  rmap[<<l, 0>>][1] \in H /\ maptbl[<<rmap[<<l, 0>>][1], 0>>] = <<l, 0>>
  <2>1. 0 \in Offs /\ <<l, 0>> \in Pages
    BY <1>1 DEF Geometry
  <2>2. status[<<l, 0>>] = "VALID"
    BY DEF RoomInv, LineRoom
  <2> DEFINE lpn == rmap[<<l, 0>>]
             y   == lpn[1]
             i   == lpn[2]
  <2>3. lpn \in Lpns /\ maptbl[lpn] = <<l, 0>>
    BY <2>1, <2>2 DEF FtlInv, Agree
  <2>4. y \in Zones /\ i \in Offs /\ lpn = <<y, i>>
    BY <1>1, <2>3 DEF Geometry
  <2> HIDE DEF lpn, y, i
  <2>5. maptbl[<<y, i>>] = <<l, 0>> /\ <<l, 0>> \in Pages /\ RSV_PPA \notin Pages
    BY <1>1, <2>1, <2>3, <2>4 DEF Geometry
  <2>6. ~Resetting(y)
    BY DEF Resetting
  <2>7. written[y] # 0
    BY <2>4, <2>5, <2>6 DEF FtlInv, LineZones
  <2>8. PICK m \in full : ZoneAt(y, m)
    BY <2>4, <2>6, <2>7 DEF FtlInv, LineZones
  <2>9. i = 0
    <3>1. maptbl[<<y, i>>] = <<m, i>>
      BY <2>4, <2>5, <2>8 DEF ZoneAt
    <3> QED
      BY <2>5, <3>1
  <2>10. maptbl[<<y, 0>>] = <<l, 0>> /\ y # z
    BY <2>5, <2>9 DEF mapped
  <2>11. y \in ns.hostZones
    BY <2>4, <2>7 DEF RoomInv, HostOnly
  <2> QED
    BY <2>10, <2>11 DEF y, lpn
<1>4. f \in Injection(full, H)
  <2>1. f \in [full -> H]
    BY <1>3
  <2>2. \A l, m \in full : f[l] = f[m] => l = m
    <3> SUFFICES ASSUME NEW l \in full, NEW m \in full, rmap[<<l, 0>>][1] = rmap[<<m, 0>>][1]
                 PROVE  l = m
      OBVIOUS
    <3>1. <<l, 0>> = <<m, 0>>
      BY <1>3
    <3> QED
      BY <3>1
  <2> HIDE DEF f
  <2> QED
    BY <2>1, <2>2 DEF Injection, IsInjective
<1> HIDE DEF f
<1>5. Cardinality(full) <= Cardinality(H)
  BY <1>2, <1>4, FS_Injection
<1>6. Cardinality(full) \in Nat
  BY <1>1, FS_CardinalityType
<1> QED
  BY <1>1, <1>2, <1>5, <1>6

LEMMA ReserveRoom ==
  ASSUME FtlInv, FtlInv', Roomy, RoomInv, ns' = ns, NEW z \in Zones, ReserveZone(z)
  PROVE  RoomKept
<1> DEFINE p == PageOf("USER")
           F == Cardinality(full)
           H == Cardinality(ns.hostZones)
           n == Len(free)
<1>1. /\ Mapping = "ZONE" /\ job = Idle /\ z \in ns.hostZones /\ CanOpen("USER")
      /\ ~mapped(maptbl[<<z, 0>>])
      /\ status' = MarkValid(status, p) /\ LeaveLine("USER", p[1]) /\ Charge
      /\ written' = [written EXCEPT ![z] = 1]
  BY DEF ReserveZone, CanWrite, PutPage
<1>2. job.kind = "idle"
  BY <1>1 DEF Idle
<1>3. /\ Geometry /\ Types /\ Census /\ OnLines(status) /\ InRange /\ JobOK /\ "USER" \in Writers
      /\ ~halted /\ IsFiniteSet(Lines) /\ Cardinality(Lines) = NrLines
      /\ H \in Nat /\ H + 1 <= NrLines /\ NrLines \in Nat
  BY <1>1, RoomyFacts DEF FtlInv, Types, Writers, RoomInv
<1>4. victim = {} /\ GcLines = {} /\ wp["GC"] = NoPage
  BY <1>1, <1>2 DEF FtlInv, LineZones, GcLines
<1>5. F \in Nat /\ F + 1 <= H
  BY <1>1, <1>2, ZoneBound
<1>6. FreeLeft("USER") # <<>>
  <2>1. /\ n \in Nat
        /\ Cardinality(Under("USER")) = (IF wp["USER"] = NoPage THEN 0 ELSE 1)
        /\ Cardinality(Under("GC")) = (IF wp["GC"] = NoPage THEN 0 ELSE 1)
        /\ NrLines = n + F + Cardinality(victim) + Cardinality(GcLines)
                       + Cardinality(Under("USER")) + Cardinality(Under("GC"))
    BY <1>3, LineCount
  <2>2. Cardinality(victim) = 0 /\ Cardinality(GcLines) = 0
    BY <1>4, FS_EmptySet
  <2> HIDE DEF n, F, H
  <2>3. n + (IF wp["USER"] = NoPage THEN 0 ELSE 1) >= 2
    BY <1>3, <1>4, <1>5, <2>1, <2>2
  <2>4. free \in Seq(Lines) /\ n = Len(free)
    BY <1>3 DEF Types, n
  <2>5. CASE wp["USER"] # NoPage
    <3>1. n # 0 /\ Len(<<>>) = 0
      BY <2>1, <2>3, <2>5
    <3>2. FreeLeft("USER") = free
      BY <2>5 DEF FreeLeft
    <3> QED
      BY <2>4, <3>1, <3>2
  <2>6. CASE wp["USER"] = NoPage
    <3>1. n >= 2
      BY <2>1, <2>3, <2>6
    <3>2. free # <<>> /\ 1 \in Nat
      BY <1>1, <2>6 DEF CanOpen
    <3>3. Len(Tail(free)) = Len(free) - 1
      BY <2>4, <3>2, TailRoom
    <3>4. Len(Tail(free)) # 0 /\ Len(<<>>) = 0
      BY <2>1, <2>4, <3>1, <3>3
    <3>5. FreeLeft("USER") = Tail(free)
      BY <2>6 DEF FreeLeft
    <3> QED
      BY <3>4, <3>5
  <2> QED
    BY <2>5, <2>6
<1>7. /\ halted' = halted
      /\ noSpace' = (OutOfRange(<<p[1], PgsPerLine - 1>>) \/ OutOfRange(<<Head(FreeLeft("USER")), 0>>))
      /\ full' \subseteq full \cup {p[1]} /\ p[1] \in full' \cup victim'
  BY <1>1, <1>6 DEF LeaveLine
<1>8. Opened("USER", p, FreeLeft("USER"), status)
  BY <1>1, <1>3, OpenedHolds
<1>9. noSpace' => UsesBeyond'
  <2> DEFINE q == <<p[1], PgsPerLine - 1>>
             h == <<Head(FreeLeft("USER")), 0>>
  <2>1. p[1] \in Lines /\ Head(FreeLeft("USER")) \in Lines
    <3>1. p[1] \in Lines /\ FreeLeft("USER") \in Seq(Lines)
      BY <1>8 DEF Opened
    <3> QED
      BY <1>6, <3>1
  <2>2. q \in Pages /\ h \in Pages /\ ~OutOfRange(h)
    <3>1. PgsPerLine - 1 \in Offs /\ 0 \in Offs /\ \A l \in Lines, o \in Offs : <<l, o>> \in Pages
      BY <1>3 DEF Geometry
    <3>2. q \in Pages /\ h \in Pages
      BY <2>1, <3>1
    <3>3. h \notin Beyond
      BY <1>3, <2>1 DEF Geometry
    <3> QED
      BY <1>3, <3>2, <3>3 DEF Geometry
  <2>3. q[1] \notin Elems(free')
    BY <1>7 DEF FtlInv, Census, LeftLines
  <2> HIDE DEF q, h
  <2> QED
    BY <1>7, <2>2, <2>3, BeyondInUse DEF q, h
<1>10. p = <<p[1], 0>> /\ p \in Pages /\ status[p] = "FREE"
  <2>1. p \in Pages /\ status[p] = "FREE" /\ p = <<p[1], p[2]>>
    BY <1>3, <1>8 DEF Opened, Geometry
  <2>2. p[2] = 0
    BY <1>1 DEF PageOf, FtlInv, LineZones
  <2> HIDE DEF p
  <2> QED
    BY <2>1, <2>2
<1>11. Mapping' = Mapping /\ Zones' = Zones
  BY NamespaceStays
<1>12. LineRoom'
  <2> SUFFICES ASSUME NEW l \in full' PROVE status'[<<l, 0>>] = "VALID"
    BY <1>11 DEF LineRoom
  <2>1. status' = [status EXCEPT ![p] = "VALID"] /\ status \in [Pages -> Statuses]
    BY <1>1, <1>3, <1>10 DEF MarkValid, Types
  <2>2. CASE l \in full
    <3>1. <<l, 0>> \in Pages
      <4>1. 0 \in Offs /\ \A m \in Lines, o \in Offs : <<m, o>> \in Pages
        BY <1>3 DEF Geometry
      <4>2. l \in Lines
        BY <1>3, <2>2 DEF Types
      <4> QED
        BY <4>1, <4>2
    <3>2. status[<<l, 0>>] = "VALID"
      BY <1>1, <2>2 DEF RoomInv, LineRoom
    <3> HIDE DEF p
    <3> QED
      BY <2>1, <3>1, <3>2
  <2>3. CASE l = p[1]
    <3> HIDE DEF p
    <3>1. <<l, 0>> = p
      BY <1>10, <2>3
    <3> QED
      BY <1>10, <2>1, <3>1
  <2> QED
    BY <1>7, <2>2, <2>3
<1>13. HostOnly'
  <2>1. \A y \in Zones \ {z} : written'[y] = written[y]
    BY <1>1, <1>3 DEF Types
  <2> QED
    BY <1>1, <1>11, <2>1 DEF RoomInv, HostOnly
<1>14. PageRoom'
  BY <1>1, <1>11 DEF PageRoom
<1> QED
  BY <1>3, <1>7, <1>9, <1>12, <1>13, <1>14 DEF RoomInv, RoomKept

LEMMA WriteReservedRoom ==
  ASSUME FtlInv, RoomInv, ns' = ns, NEW z \in Zones, WriteReserved(z)
  PROVE  RoomInv'
<1>1. /\ Mapping = "ZONE" /\ z \in ns.hostZones /\ full' = full
      /\ status' = MarkValid(status, NextPage(maptbl[<<z, written[z] - 1>>]))
      /\ written' = [written EXCEPT ![z] = @ + 1] /\ noSpace' = noSpace /\ halted' = halted
  BY DEF WriteReserved, CanWrite, PutPage, lines
<1>2. Mapping' = Mapping /\ Zones' = Zones
  BY NamespaceStays
<1>3. \A q \in Pages : status[q] = "VALID" => status'[q] = "VALID"
  BY <1>1 DEF MarkValid, FtlInv, Types
<1>4. LineRoom'
  <2> SUFFICES ASSUME NEW l \in full PROVE status'[<<l, 0>>] = "VALID"
    BY <1>1, <1>2 DEF LineRoom
  <2>1. full \subseteq Lines /\ Geometry
    BY RoomTerms DEF FtlInv, Types
  <2>2. <<l, 0>> \in Pages
    BY <2>1 DEF Geometry
  <2> QED
    BY <1>1, <1>3, <2>2 DEF RoomInv, LineRoom
<1>5. HostOnly'
  <2>1. \A y \in Zones \ {z} : written'[y] = written[y]
    BY <1>1 DEF FtlInv, Types
  <2> QED
    BY <1>1, <1>2, <2>1 DEF RoomInv, HostOnly
<1>6. PageRoom'
  BY <1>1, <1>2 DEF PageRoom
<1> QED
  BY <1>1, <1>4, <1>5, <1>6 DEF RoomInv

-----------------------------------------------------------------------------
(* Every step.                                                             *)

LEMMA InitRoom ==
  ASSUME Init, Roomy
  PROVE  RoomInv
<1> DEFINE P == PgsPerLine
<1>1. /\ free = [i \in 1 .. NrLines |-> i - 1] /\ full = {} /\ wp = [w \in Writers |-> NoPage]
      /\ noSpace = FALSE /\ halted = FALSE /\ credits = P /\ written = [z \in Zones |-> 0]
      /\ job.kind = "idle" /\ ns \in Namespaces
  BY DEF Init, Idle
<1>2. /\ NrLines \in Nat /\ Cardinality(ns.hostZones) \in Nat
      /\ Cardinality(ns.hostZones) + (IF Mapping = "PAGE" THEN 3 ELSE 1) <= NrLines
  BY <1>1, RoomyFacts
<1>3. Len(free) = NrLines
  BY <1>1, <1>2
<1>4. /\ P \in Nat \ {0} /\ Room = Len(free) * P + Left("USER") + Left("GC")
      /\ Left("USER") \in 0 .. P /\ Left("GC") \in 0 .. P
      /\ Len(free) >= 3 => Len(free) * P >= 3 * P
      /\ Len(free) * P \in Nat
  BY InitKeeps, RoomTerms
<1>5. ASSUME Mapping = "PAGE" PROVE Room >= 2 * P + 1 /\ Room >= credits + 2 * P
  <2>1. Len(free) >= 3
    BY <1>2, <1>3, <1>5
  <2>2. credits = P
    BY <1>1
  <2> HIDE DEF P
  <2>3. Room >= 3 * P /\ Room \in Int
    BY <1>4, <2>1
  <2> QED
    BY <1>4, <2>2, <2>3
<1>6. PageRoom
  BY <1>1, <1>5 DEF PageRoom
<1>7. HostOnly /\ LineRoom
  BY <1>1 DEF HostOnly, LineRoom
<1> QED
  BY <1>1, <1>6, <1>7 DEF RoomInv

LEMMA StepRoom ==
  ASSUME Supported, GcThresLinesHigh >= 2, FtlInv, Roomy, RoomInv, FtlStep
  PROVE  RoomKept
<1>0. RoomInv' => RoomKept
  BY DEF RoomInv, RoomKept
<1>9. FtlInv'
  BY StepKeeps
<1>1. CASE UNCHANGED vars
  <2>1. /\ ns' = ns /\ wp' = wp /\ free' = free /\ full' = full /\ status' = status
        /\ written' = written /\ noSpace' = noSpace /\ halted' = halted /\ credits' = credits
        /\ refill' = refill /\ vpc' = vpc /\ job' = job
    BY <1>1 DEF vars, tables, lines, flow
  <2>2. HostOnly' /\ LineRoom'
    BY <2>1, StillLines
  <2>3. Room' = Room /\ PgsPerLine' = PgsPerLine /\ Mapping' = Mapping
    BY <2>1, StillRoom, NamespaceStays
  <2>4. JustWritten' = JustWritten
    BY <2>1 DEF JustWritten, NoPage, UNMAPPED_PPA
  <2>5. PageRoom'
    BY <2>1, <2>3, <2>4 DEF PageRoom, RoomInv
  <2> QED
    BY <1>0, <2>1, <2>2, <2>5 DEF RoomInv
<1>2. ASSUME NEW z \in Zones, ns' = ns,
             WritePage(z) \/ ReserveZone(z) \/ WriteReserved(z) \/ StartReset(z)
      PROVE  RoomKept
  BY <1>0, <1>2, <1>9, WritePageRoom, ReserveRoom, WriteReservedRoom, StartResetRoom
<1>3. ASSUME ns' = ns, Collect PROVE RoomKept
  BY <1>0, <1>3, RefillRoom, NoVictimRoom, SelectRoom DEF Collect
<1>4. ASSUME ns' = ns, MoveAsserts PROVE FALSE
  BY <1>4, MoveOpens DEF MoveAsserts, InVictim, AssertCurline
<1>5. ASSUME ns' = ns, Gc PROVE RoomKept
  BY <1>0, <1>4, <1>5, <1>9, SkipRoom, MoveRoom, FinishGcRoom DEF Gc
<1>6. ASSUME ns' = ns, Reset PROVE RoomKept
  BY <1>0, <1>6, ResetPageRoom, EndResetRoom DEF Reset
<1> QED
  BY <1>1, <1>2, <1>3, <1>5, <1>6 DEF FtlStep, Step

\* A namespace with room fits its lines as long as it is not full; a full one
\* writes no more and so meets no assertion.
Fits == ~halted /\ (noSpace \/ RoomInv)

LEMMA FullForEver ==
  ASSUME noSpace, FtlStep
  PROVE  noSpace' /\ halted' = halted
<1>1. ASSUME NEW z \in Zones, WritePage(z) \/ ReserveZone(z) \/ WriteReserved(z) PROVE FALSE
  BY <1>1 DEF WritePage, ReserveZone, WriteReserved, CanWrite
<1>2. ASSUME NEW z \in Zones, StartReset(z) PROVE noSpace' = noSpace /\ halted' = halted
  BY <1>2 DEF StartReset
<1>3. Collect => noSpace' = noSpace /\ halted' = halted
  BY DEF Collect, RefillCredits, NoVictim, SelectVictim
<1>4. Gc => noSpace' = noSpace /\ halted' = halted
  BY DEF Gc, SkipPage, MovePage, MoveAsserts, FinishGc
<1>5. Reset => noSpace' = noSpace /\ halted' = halted
  BY DEF Reset, ResetPage, ResetErase, FinishReset
<1> QED
  BY <1>1, <1>2, <1>3, <1>4, <1>5 DEF FtlStep, Step, vars

LEMMA StepFits ==
  ASSUME Supported, GcThresLinesHigh >= 2, FtlInv, Roomy, Fits, FtlStep
  PROVE  Fits' /\ (noSpace' => noSpace \/ UsesBeyond')
<1>1. CASE noSpace
  BY <1>1, FullForEver DEF Fits
<1>2. CASE ~noSpace
  <2>1. RoomKept
    BY <1>2, StepRoom DEF Fits
  <2> QED
    BY <2>1 DEF RoomKept, Fits
<1> QED
  BY <1>1, <1>2

-----------------------------------------------------------------------------
(* What can be read back.                                                  *)

\* What a zone holds by its write pointer.
Holding(z) == IF z \in ns.hostZones /\ ~Resetting(z) THEN 0 .. written[z] - 1 ELSE {}
HoldsRight == \A z \in AllZones : Held(z) = Holding(z)

HeldNow == [z \in AllZones |-> Held(z)]

\* The two ways what is held changes.
HeldGrows(z) ==
  \E n \in Nat : Held(z) = 0 .. n - 1 /\ HeldNow' = [HeldNow EXCEPT ![z] = 0 .. n]
HeldGoes(z) == HeldNow' = [HeldNow EXCEPT ![z] = {}]

LEMMA HostLines ==
  ASSUME ns \in Namespaces
  PROVE  ns.hostZones \subseteq Lines /\ ns.hostZones \subseteq Zones
BY NamespaceAssumption DEF Lines, Zones, NrLines

\* Every page before the write pointer is mapped, none after it, and what is
\* mapped can be read.
LEMMA ReadsWhatIsWritten ==
  ASSUME FtlInv, ~noSpace
  PROVE  HoldsRight
<1> SUFFICES ASSUME NEW z \in ns.hostZones, ~Resetting(z)
             PROVE  Readable(z) = 0 .. written[z] - 1
  BY DEF HoldsRight, Held, Holding
<1>1. FtlInv /\ Geometry /\ PgsPerLine \in Nat \ {0}
  BY RoomTerms
<1>2. z \in Zones /\ written[z] \in 0 .. PgsPerLine
  BY HostLines DEF FtlInv, Types
<1>3. ASSUME NEW i \in Offs PROVE i \in Readable(z) <=> maptbl[<<z, i>>] \in Pages
  <2>1. <<z, i>> \in Lpns /\ INVALID_LPN \notin Lpns
    BY <1>1, <1>2 DEF Geometry
  <2>2. Agree(Lpns, Pages, Beyond, maptbl, rmap, status)
    BY <1>1 DEF FtlInv
  <2>3. maptbl[<<z, i>>] \in Pages
          => rmap[maptbl[<<z, i>>]] = <<z, i>> /\ status[maptbl[<<z, i>>]] = "VALID"
    BY <2>1, <2>2 DEF Agree
  <2> QED
    BY <2>3 DEF Readable, mapped
<1>4. ASSUME NEW i \in Offs PROVE maptbl[<<z, i>>] \in Pages <=> i < written[z]
  <2>1. CASE Mapping = "PAGE"
    BY <1>1, <1>2, <2>1 DEF FtlInv, PageZones
  <2>2. CASE Mapping = "ZONE" /\ written[z] = 0
    <3>1. maptbl[<<z, i>>] \notin Pages
      BY <1>1, <1>2, <2>2 DEF FtlInv, LineZones
    <3>2. ~(i < 0)
      BY <1>1 DEF Geometry
    <3> QED
      BY <2>2, <3>1, <3>2
  <2>3. CASE Mapping = "ZONE" /\ written[z] # 0
    <3>1. PICK l \in full : ZoneAt(z, l)
      BY <1>1, <1>2, <2>3 DEF FtlInv, LineZones
    <3>2. <<l, i>> \in Pages /\ RSV_PPA \notin Pages
      BY <1>1 DEF FtlInv, Types, Geometry
    <3> QED
      BY <3>1, <3>2 DEF ZoneAt
  <2> QED
    BY <1>1, <2>1, <2>2, <2>3 DEF Geometry
<1>5. Readable(z) \subseteq Offs
  BY DEF Readable
<1>6. \A i : i \in 0 .. written[z] - 1 <=> i \in Offs /\ i < written[z]
  BY <1>1, <1>2 DEF Geometry
<1> QED
  BY <1>3, <1>4, <1>5, <1>6

\* The host's zones are zones of the store.
LEMMA HostZones ==
  ASSUME ns \in Namespaces
  PROVE  ns.hostZones \subseteq AllZones
BY DEF AllZones

LEMMA NothingHeld ==
  ASSUME HoldsRight, HoldsRight', \A z \in AllZones : Holding(z)' = Holding(z)
  PROVE  UNCHANGED HeldNow
BY DEF HoldsRight, HeldNow

\* A flushed page extends what its zone holds.
LEMMA WriteAppends ==
  ASSUME FtlInv, HoldsRight, HoldsRight', ns' = ns, NEW z \in Zones,
         WritePage(z) \/ ReserveZone(z) \/ WriteReserved(z)
  PROVE  z \in AllZones /\ HeldGrows(z)
<1> DEFINE n == written[z]
<1>1. FtlInv /\ Types /\ Geometry /\ z \in ns.hostZones /\ job = Idle /\ Charge
  BY RoomTerms DEF FtlInv, WritePage, ReserveZone, WriteReserved, CanWrite
<1>2. z \in AllZones
  BY <1>1, HostZones DEF Types
<1>3. \A y \in Zones : ~Resetting(y) /\ ~Resetting(y)'
  BY <1>1, ChargeKeeps
<1>4. ns.hostZones \subseteq Zones
  BY <1>1, HostLines DEF Types
<1>5. written' = [written EXCEPT ![z] = n + 1]
  <2>1. CASE ReserveZone(z)
    <3>1. Mapping = "ZONE" /\ ~mapped(maptbl[<<z, 0>>]) /\ written' = [written EXCEPT ![z] = 1]
      BY <2>1 DEF ReserveZone
    <3>2. n = 0
      <4> SUFFICES ASSUME n # 0 PROVE FALSE
        OBVIOUS
      <4>1. PICK l \in full : ZoneAt(z, l)
        BY <1>1, <1>3, <3>1 DEF FtlInv, LineZones
      <4>2. 0 \in Offs /\ 0 < n /\ <<l, 0>> \in Pages
        BY <1>1 DEF Types, Geometry
      <4> QED
        BY <3>1, <4>1, <4>2 DEF ZoneAt, mapped
    <3> QED
      BY <3>1, <3>2
  <2> QED
    BY <2>1 DEF WritePage, WriteReserved
<1>6. n \in Nat /\ written \in [Zones -> 0 .. PgsPerLine]
  BY <1>1 DEF Types, Geometry
<1>7. Held(z) = 0 .. n - 1 /\ Held(z)' = 0 .. n
  <2>1. Held(z) = Holding(z) /\ Held(z)' = Holding(z)'
    BY <1>2 DEF HoldsRight
  <2>2. written'[z] = n + 1 /\ 0 .. (n + 1) - 1 = 0 .. n
    BY <1>5, <1>6
  <2> QED
    BY <1>1, <1>2, <1>3, <2>1, <2>2 DEF Holding
<1>8. ASSUME NEW y \in AllZones, y # z PROVE Held(y)' = Held(y)
  <2>1. Held(y) = Holding(y) /\ Held(y)' = Holding(y)'
    BY DEF HoldsRight
  <2>2. y \in ns.hostZones => written'[y] = written[y] /\ y \in Zones
    BY <1>4, <1>5, <1>6, <1>8
  <2> QED
    BY <1>2, <1>3, <2>1, <2>2 DEF Holding
<1>9. HeldNow' = [HeldNow EXCEPT ![z] = 0 .. n]
  BY <1>2, <1>7, <1>8 DEF HeldNow
<1> QED
  BY <1>2, <1>6, <1>7, <1>9 DEF HeldGrows

\* A reset empties its zone when it starts.
LEMMA ResetClears ==
  ASSUME FtlInv, HoldsRight, HoldsRight', ns' = ns, NEW z \in Zones, StartReset(z)
  PROVE  UNCHANGED HeldNow \/ (z \in AllZones /\ HeldGoes(z))
<1>1. /\ Types /\ job = Idle /\ written' = written
      /\ job' = [kind |-> "reset", at |-> <<z, 0>>, first |-> NoLine]
  BY DEF StartReset, FtlInv
<1>2. \A y : ~Resetting(y) /\ (Resetting(y)' <=> y = z)
  BY <1>1 DEF Resetting, Idle
<1>3. AllZones' = AllZones
  BY DEF AllZones
<1>4. ASSUME NEW y \in AllZones, y # z PROVE Held(y)' = Held(y)
  BY <1>1, <1>2, <1>3, <1>4 DEF HoldsRight, Holding
<1>5. CASE z \in AllZones
  <2>1. Held(z)' = {}
    BY <1>2, <1>3, <1>5 DEF HoldsRight, Holding
  <2> QED
    BY <1>3, <1>4, <1>5, <2>1 DEF HeldNow, HeldGoes
<1>6. CASE z \notin AllZones
  BY <1>3, <1>4, <1>6 DEF HeldNow
<1> QED
  BY <1>5, <1>6

\* Collections and the rest of a reset are not seen.
LEMMA RestIsHidden ==
  ASSUME FtlInv, HoldsRight, HoldsRight', ns' = ns, Collect \/ Gc \/ Reset
  PROVE  UNCHANGED HeldNow
<1>1. Types /\ ns.hostZones \subseteq Zones
  BY HostLines DEF FtlInv, Types
<1>2. CASE Collect \/ Gc
  <2>1. job.kind \in {"collect", "gc"} /\ written' = written /\ job'.kind \in {"idle", "gc"}
    <3>1. CASE RefillCredits
      BY <3>1 DEF RefillCredits, Idle
    <3>2. CASE NoVictim
      BY <3>2 DEF NoVictim, Idle
    <3>3. CASE SelectVictim
      BY <3>3 DEF SelectVictim
    <3>4. CASE SkipPage \/ MovePage
      <4>1. /\ job.kind = "gc" /\ written' = written
            /\ job' = [job EXCEPT !.at = <<job.at[1], job.at[2] + 1>>]
        BY <3>4 DEF SkipPage, MovePage, InVictim, NextInVictim
      <4>2. job'.kind = job.kind
        BY <1>1, <4>1 DEF Types
      <4> QED
        BY <4>1, <4>2
    <3>5. CASE MoveAsserts
      BY <3>5 DEF MoveAsserts, InVictim, AssertCurline
    <3>6. CASE FinishGc
      BY <3>6 DEF FinishGc, Idle
    <3> QED
      BY <1>2, <3>1, <3>2, <3>3, <3>4, <3>5, <3>6 DEF Collect, Gc
  <2>2. \A z : ~Resetting(z) /\ ~Resetting(z)'
    BY <2>1 DEF Resetting
  <2> QED
    BY <1>1, <2>1, <2>2, NothingHeld DEF Holding
<1>3. CASE ResetPage \/ ResetErase
  <2>1. /\ job.kind \in {"reset", "erase"} /\ job'.kind \in {"reset", "erase"}
        /\ job'.at[1] = job.at[1] /\ written' = written
    <3>1. CASE ResetPage
      BY <3>1 DEF ResetPage, InZone
    <3>2. CASE ResetErase
      <4>1. job' = [job EXCEPT !.kind = "reset", !.first = NoLine]
        BY <3>2 DEF ResetErase
      <4>2. job'.kind = "reset" /\ job'.at = job.at
        BY <1>1, <4>1 DEF Types
      <4> QED
        BY <3>2, <4>2 DEF ResetErase
    <3> QED
      BY <1>3, <3>1, <3>2
  <2>2. \A z : Resetting(z)' <=> Resetting(z)
    BY <2>1 DEF Resetting
  <2> QED
    BY <1>1, <2>1, <2>2, NothingHeld DEF Holding
<1>4. CASE FinishReset
  <2> DEFINE y == job.at[1]
  <2>1. job.kind = "reset" /\ job' = Idle /\ written' = [written EXCEPT ![y] = 0]
    BY <1>4 DEF FinishReset
  <2>2. \A z : ~Resetting(z)' /\ (Resetting(z) <=> z = y)
    BY <2>1 DEF Resetting, Idle
  <2>3. ASSUME NEW z \in AllZones PROVE Holding(z)' = Holding(z)
    <3>1. CASE z = y
      <4>1. z \in ns.hostZones => z \in Zones
        BY <1>1
      <4>2. z \in ns.hostZones => written'[z] = 0
        BY <1>1, <2>1, <3>1, <4>1 DEF Types
      <4>3. 0 .. 0 - 1 = {}
        OBVIOUS
      <4> HIDE DEF y
      <4> QED
        BY <2>2, <3>1, <4>2, <4>3 DEF Holding
    <3>2. CASE z # y
      <4>1. z \in ns.hostZones => z \in Zones
        BY <1>1
      <4>2. z \in ns.hostZones => written'[z] = written[z]
        BY <1>1, <2>1, <3>2, <4>1 DEF Types
      <4> HIDE DEF y
      <4> QED
        BY <1>1, <2>2, <3>2, <4>2 DEF Holding
    <3> QED
      BY <3>1, <3>2
  <2> QED
    BY <2>3, NothingHeld
<1> QED
  BY <1>2, <1>3, <1>4 DEF Reset

LEMMA StoreStep ==
  ASSUME FtlInv, HoldsRight, HoldsRight', FtlStep
  PROVE  UNCHANGED HeldNow \/ \E z \in AllZones : HeldGrows(z) \/ HeldGoes(z)
<1>1. ns' = ns
  BY DEF FtlStep, vars
<1>3. CASE UNCHANGED vars
  <2>1. job' = job /\ written' = written
    BY <1>3 DEF vars
  <2> QED
    BY <1>1, <2>1, NothingHeld DEF Holding, Resetting
<1>4. ASSUME NEW z \in Zones, WritePage(z) \/ ReserveZone(z) \/ WriteReserved(z)
      PROVE  z \in AllZones /\ HeldGrows(z)
  BY <1>1, <1>4, WriteAppends
<1>5. ASSUME NEW z \in Zones, StartReset(z)
      PROVE  UNCHANGED HeldNow \/ (z \in AllZones /\ HeldGoes(z))
  BY <1>1, <1>5, ResetClears
<1>6. ASSUME Collect \/ Gc \/ Reset PROVE UNCHANGED HeldNow
  BY <1>1, <1>6, RestIsHidden
<1> QED
  BY <1>3, <1>4, <1>5, <1>6 DEF FtlStep, Step

=============================================================================
