---------------------------- MODULE ZmsFtlProofs ----------------------------
(***************************************************************************)
(* Proofs about ZmsFtl, for any number of lines, pages, groups of lines    *)
(* and planes.                                                             *)
(*                                                                         *)
(* An erase leaves the pages of all planes but the first as they are.      *)
(* Until a write pointer takes a line with such pages nothing looks at     *)
(* them: a namespace whose free lines are seen as erased (Seen) takes the  *)
(* steps of a namespace with one plane (Shadow).  What ZmsOnePlane shows   *)
(* of those therefore holds of every namespace until that happens.         *)
(***************************************************************************)
EXTENDS ZmsFtl, FiniteSetTheorems, TLAPS

\* A host resets only zones it has written out where zones are mapped whole.
Supported == \A n \in Namespaces : n.mapping = "ZONE" => ~n.partialReset

Statuses == {"FREE", "VALID", "INVALID"}

FreeLines == {free[i] : i \in DOMAIN free}

\* Page states st with the lines F seen as erased.
SeenOf(F, st) == [p \in Pages |-> IF p[1] \in F THEN "FREE" ELSE st[p]]
Seen          == SeenOf(FreeLines, status)

OnePlane(n) ==
  [mapping |-> n.mapping, lines |-> n.lines, pages |-> n.pages, groups |-> n.groups,
   rowPages |-> n.rowPages, planes |-> 1, hostZones |-> n.hostZones,
   partialReset |-> n.partialReset, maxDebt |-> n.maxDebt]
OnePlanes == {OnePlane(n) : n \in Namespaces}

One == INSTANCE ZmsOnePlane WITH Namespaces <- OnePlanes, ns <- OnePlane(ns), status <- Seen

\* What is true of the pages themselves: none of a free line is valid, and on
\* dies of one plane they are erased.
Raw ==
  /\ status \in [Pages -> Statuses]
  /\ \A l \in FreeLines, o \in Offs :
       status[<<l, o>>] # "VALID" /\ (PlsPerLun = 1 => status[<<l, o>>] = "FREE")

\* The lines a step takes off the free list are erased all over.
Clean == \A l \in Lines : Taken(l) => \A o \in Offs : status[<<l, o>>] = "FREE"

-----------------------------------------------------------------------------
(* The namespace with one plane.                                           *)

LEMMA OneAssumptions ==
  One!NamespaceAssumption /\ One!ThresholdAssumption
<1>1. \A n \in OnePlanes :
        /\ n.mapping \in {"PAGE", "ZONE"}
        /\ n.lines \in Nat \ {0}
        /\ n.pages \in Nat \ {0}
        /\ n.groups \in Nat \ {0}
        /\ n.rowPages \in Nat \ {0}
        /\ n.pages % (n.groups * n.rowPages) = 0
        /\ n.planes \in Nat \ {0}
        /\ n.hostZones \subseteq 0 .. n.lines - 1
        /\ n.partialReset \in BOOLEAN
        /\ n.maxDebt \in Nat
  <2> SUFFICES ASSUME NEW m \in Namespaces
               PROVE  /\ OnePlane(m).mapping \in {"PAGE", "ZONE"}
                      /\ OnePlane(m).lines \in Nat \ {0}
                      /\ OnePlane(m).pages \in Nat \ {0}
                      /\ OnePlane(m).groups \in Nat \ {0}
                      /\ OnePlane(m).rowPages \in Nat \ {0}
                      /\ OnePlane(m).pages % (OnePlane(m).groups * OnePlane(m).rowPages) = 0
                      /\ OnePlane(m).planes \in Nat \ {0}
                      /\ OnePlane(m).hostZones \subseteq 0 .. OnePlane(m).lines - 1
                      /\ OnePlane(m).partialReset \in BOOLEAN
                      /\ OnePlane(m).maxDebt \in Nat
    BY DEF OnePlanes
  <2> QED
    BY NamespaceAssumption DEF OnePlane
<1> QED
  BY <1>1, ThresholdAssumption DEF One!NamespaceAssumption, One!ThresholdAssumption

LEMMA SameSizes ==
  /\ One!Mapping = Mapping /\ One!NrLines = NrLines /\ One!PgsPerLine = PgsPerLine
  /\ One!Lines = Lines /\ One!Zones = Zones /\ One!Offs = Offs /\ One!Pages = Pages
  /\ One!Lpns = Lpns /\ One!PlsPerLun = 1
  /\ One!LineGroups = LineGroups /\ One!PgsPerRow = PgsPerRow
  /\ OnePlane(ns).hostZones = ns.hostZones /\ OnePlane(ns).maxDebt = ns.maxDebt
  /\ OnePlane(ns).partialReset = ns.partialReset
BY DEF OnePlane, One!Mapping, One!NrLines, One!PgsPerLine, One!Lines, One!Zones, One!Offs,
       One!Pages, One!Lpns, One!PlsPerLun, One!LineGroups, One!PgsPerRow, Mapping, NrLines,
       PgsPerLine, Lines, Zones, Offs, Pages, Lpns, LineGroups, PgsPerRow

LEMMA SameRange ==
  ASSUME NEW p
  PROVE  One!OutOfRange(p) <=> OutOfRange(p)
BY SameSizes DEF One!OutOfRange, One!PgIdx, OutOfRange, PgIdx

LEMMA SameNames ==
  /\ One!UNMAPPED_PPA = UNMAPPED_PPA /\ One!RSV_PPA = RSV_PPA /\ One!INVALID_LPN = INVALID_LPN
  /\ One!NoPage = NoPage /\ One!NoLine = NoLine /\ One!Writers = Writers /\ One!Idle = Idle
BY DEF One!UNMAPPED_PPA, One!RSV_PPA, One!INVALID_LPN, One!NoPage, One!NoLine, One!Writers,
       One!Idle, UNMAPPED_PPA, RSV_PPA, INVALID_LPN, NoPage, NoLine, Writers, Idle

LEMMA SameCounts ==
  ASSUME NEW S
  PROVE  One!Cardinality(S) = Cardinality(S)
BY DEF Cardinality, One!Cardinality

\* What looks at neither the planes nor the pages' states is the same.
LEMMA SameTests ==
  /\ \A p : One!mapped(p) <=> mapped(p)
  /\ \A p : One!NextPage(p) = NextPage(p)
  /\ \A w : /\ One!CanOpen(w) <=> CanOpen(w)
            /\ One!PageOf(w) = PageOf(w) /\ One!FreeLeft(w) = FreeLeft(w)
  /\ One!ShouldGcHigh <=> ShouldGcHigh
  /\ One!InVictim <=> InVictim
  /\ One!InZone <=> InZone
  /\ \A l : One!Spent(l) <=> Spent(l)
  /\ \A z : One!CanWrite(z) <=> CanWrite(z)
BY SameSizes, SameNames
DEF One!mapped, mapped, One!NextPage, NextPage, One!CanOpen, CanOpen, One!PageOf, PageOf,
    One!FreeLeft, FreeLeft, One!ShouldGcHigh, ShouldGcHigh, One!InVictim, InVictim,
    One!InZone, InZone, One!Spent, Spent, One!CanWrite, CanWrite

LEMMA SameMoves ==
  /\ One!Charge <=> Charge
  /\ One!NextInVictim <=> NextInVictim
  /\ \A w, l : One!LeaveLine(w, l) <=> LeaveLine(w, l)
  /\ \A w, p : One!Advance(w, p) <=> Advance(w, p)
  /\ \A rm, p, lpn : One!SetRmap(rm, p, lpn) = SetRmap(rm, p, lpn)
<1>1. One!Charge <=> Charge
  BY SameNames DEF One!Charge, Charge
<1>2. One!NextInVictim <=> NextInVictim
  BY DEF One!NextInVictim, NextInVictim
<1>3. ASSUME NEW w, NEW l PROVE One!LeaveLine(w, l) <=> LeaveLine(w, l)
  <2>1. One!NothingInvalid(l) <=> NothingInvalid(l)
    BY SameSizes DEF One!NothingInvalid, NothingInvalid
  <2>2. \A p : One!OutOfRange(p) <=> OutOfRange(p)
    BY SameRange
  <2> QED
    BY <2>1, <2>2, SameSizes, SameNames, SameTests DEF One!LeaveLine, LeaveLine
<1>4. ASSUME NEW w, NEW p PROVE One!Advance(w, p) <=> Advance(w, p)
  <2>1. \A q : One!OutOfRange(q) <=> OutOfRange(q)
    BY SameRange
  <2> QED
    BY <1>3, <2>1, SameSizes, SameTests DEF One!Advance, Advance
<1>5. ASSUME NEW rm, NEW p, NEW lpn PROVE One!SetRmap(rm, p, lpn) = SetRmap(rm, p, lpn)
  BY SameRange DEF One!SetRmap, SetRmap
<1> QED
  BY <1>1, <1>2, <1>3, <1>4, <1>5

-----------------------------------------------------------------------------
(* Free lines seen as erased.                                              *)

LEMMA PagesStay ==
  ASSUME ns' = ns
  PROVE  /\ Pages' = Pages /\ Lines' = Lines /\ Offs' = Offs /\ PlsPerLun' = PlsPerLun
         /\ Seen' = SeenOf(FreeLines', status')
BY DEF Pages, Lines, Offs, NrLines, PgsPerLine, PlsPerLun, Seen, SeenOf

LEMMA SeenLine ==
  ASSUME NEW p \in Pages
  PROVE  /\ p[1] \in FreeLines => Seen[p] = "FREE"
         /\ p[1] \notin FreeLines => Seen[p] = status[p]
BY DEF Seen, SeenOf

\* Neither the free list nor the pages change.
LEMMA SeenStays ==
  ASSUME ns' = ns, free' = free, status' = status
  PROVE  Seen' = Seen /\ (Raw => Raw')
<1>1. FreeLines' = FreeLines
  BY DEF FreeLines
<1> QED
  BY <1>1, PagesStay DEF Raw, Seen

\* Lines that are erased all over are taken, and a page p changes that is on no
\* line left on the list.
LEMMA SeenPuts ==
  ASSUME ns' = ns, Raw, Clean, FreeLines' \subseteq FreeLines, FreeLines \subseteq Lines,
         NEW p \in Pages, p[1] \notin FreeLines'
  PROVE  /\ Seen[p] = status[p]
         /\ \A v \in Statuses : status' = [status EXCEPT ![p] = v] =>
              Seen' = [Seen EXCEPT ![p] = v] /\ Raw'
         /\ status' = status => Seen' = Seen /\ Raw'
<1>1. \A l \in FreeLines : l \notin FreeLines' => \A o \in Offs : status[<<l, o>>] = "FREE"
  BY DEF Clean, Taken, OnFreeList, FreeLines
<1>2. \A q \in Pages : q[1] \in Lines /\ q[2] \in Offs /\ q = <<q[1], q[2]>>
  BY DEF Pages
<1>3. \A q \in Pages : q[1] \notin FreeLines' => Seen[q] = status[q]
  BY <1>1, <1>2 DEF Seen, SeenOf
<1>4. \A q \in Pages : q[1] \in FreeLines' => Seen[q] = "FREE"
  BY DEF Seen, SeenOf
<1>5. SeenOf(FreeLines', status) = Seen
  BY <1>3, <1>4 DEF SeenOf, Seen
<1>6. ASSUME NEW v \in Statuses, status' = [status EXCEPT ![p] = v]
      PROVE  Seen' = [Seen EXCEPT ![p] = v] /\ Raw'
  <2>1. SeenOf(FreeLines', status') = [SeenOf(FreeLines', status) EXCEPT ![p] = v]
    BY <1>6 DEF SeenOf, Raw
  <2>2. status' \in [Pages -> Statuses]
    BY <1>6 DEF Raw
  <2>3. \A l \in FreeLines', o \in Offs : status'[<<l, o>>] = status[<<l, o>>]
    <3> SUFFICES ASSUME NEW l \in FreeLines', NEW o \in Offs
                 PROVE  status'[<<l, o>>] = status[<<l, o>>]
      OBVIOUS
    <3>1. <<l, o>> \in Pages /\ <<l, o>>[1] = l
      BY DEF Pages
    <3>2. <<l, o>> # p
      BY <3>1
    <3> QED
      BY <1>6, <3>1, <3>2 DEF Raw
  <2>4. \A l \in FreeLines', o \in Offs :
          status'[<<l, o>>] # "VALID" /\ (PlsPerLun = 1 => status'[<<l, o>>] = "FREE")
    BY <2>3 DEF Raw
  <2>5. Raw'
    BY <2>2, <2>4, PagesStay DEF Raw
  <2> QED
    BY <2>1, <2>5, <1>5, PagesStay
<1>7. status' = status => Seen' = Seen /\ Raw'
  BY <1>5, PagesStay DEF Raw
<1> QED
  BY <1>3, <1>6, <1>7

\* Line l is erased and put on the free list; nothing in it was valid.
LEMMA SeenErased ==
  ASSUME ns' = ns, Raw, NEW l \in Lines, FreeLines \subseteq Lines,
         FreeLines' = FreeLines \cup {l}, EraseBlocks(l),
         \A o \in Offs : status[<<l, o>>] # "VALID"
  PROVE  One!EraseBlocks(l) /\ Raw'
<1>1. \A p \in Pages : p[1] \in Lines /\ p[2] \in Offs /\ p = <<p[1], p[2]>>
  BY DEF Pages
<1>2. \A p \in Pages : p[2] \in Int
  BY <1>1 DEF Offs
<1>3. \A p \in Pages : status'[p] = IF p[1] = l /\ PlaneOf(p) = 0 THEN "FREE" ELSE status[p]
  BY DEF EraseBlocks
<1>4. Seen' = [p \in Pages |-> IF p[1] = l THEN "FREE" ELSE Seen[p]]
  <2>1. Seen' = [p \in Pages |-> IF p[1] \in FreeLines \cup {l} THEN "FREE" ELSE status'[p]]
    BY PagesStay DEF SeenOf
  <2>2. \A p \in Pages : (IF p[1] \in FreeLines \cup {l} THEN "FREE" ELSE status'[p])
                           = (IF p[1] = l THEN "FREE" ELSE Seen[p])
    BY <1>3 DEF Seen, SeenOf
  <2> QED
    BY <2>1, <2>2
<1>5. One!EraseBlocks(l)
  <2>1. \A p \in Pages : One!PlaneOf(p) = 0
    <3> SUFFICES ASSUME NEW p \in Pages PROVE One!PlaneOf(p) = 0
      OBVIOUS
    <3>1. p[2] % 1 = 0
      BY <1>2
    <3> QED
      BY <3>1, SameSizes DEF One!PlaneOf
  <2> QED
    BY <1>4, <2>1, SameSizes DEF One!EraseBlocks
<1>6. status' \in [Pages -> Statuses]
  BY DEF EraseBlocks, Raw, Statuses
<1>7. ASSUME NEW k \in FreeLines', NEW o \in Offs
      PROVE  status'[<<k, o>>] # "VALID" /\ (PlsPerLun = 1 => status'[<<k, o>>] = "FREE")
  <2>1. <<k, o>> \in Pages /\ <<k, o>>[1] = k /\ <<k, o>>[2] = o /\ o \in Int
    <3>1. k \in Lines
      OBVIOUS
    <3>2. o \in Int
      BY DEF Offs
    <3> QED
      BY <3>1, <3>2 DEF Pages
  <2>2. CASE k = l
    <3>1. PlsPerLun = 1 => PlaneOf(<<k, o>>) = 0
      <4>1. o % 1 = 0
        BY <2>1
      <4> QED
        BY <2>1, <4>1 DEF PlaneOf
    <3>2. status[<<k, o>>] # "VALID"
      BY <2>2
    <3> QED
      BY <1>3, <2>1, <2>2, <3>1, <3>2
  <2>3. CASE k # l
    <3>1. k \in FreeLines /\ status'[<<k, o>>] = status[<<k, o>>]
      BY <1>3, <2>1, <2>3
    <3> QED
      BY <3>1 DEF Raw
  <2> QED
    BY <2>2, <2>3
<1> QED
  BY <1>5, <1>6, <1>7, PagesStay DEF Raw

-----------------------------------------------------------------------------
(* What the invariant of one plane says of this namespace.                 *)

LEMMA OneElems ==
  ASSUME NEW s
  PROVE  One!Elems(s) = {s[i] : i \in DOMAIN s}
BY DEF One!Elems

LEMMA OneFacts ==
  ASSUME One!FtlInv
  PROVE  /\ free \in Seq(Lines) /\ FreeLines \subseteq Lines
         /\ \A w \in Writers : CanOpen(w) =>
              /\ PageOf(w) \in Pages /\ FreeLeft(w) \in Seq(Lines)
              /\ PageOf(w)[1] \notin One!Elems(FreeLeft(w))
              /\ One!Elems(FreeLeft(w)) \subseteq FreeLines
         /\ \A lpn \in Lpns : mapped(maptbl[lpn]) =>
              Seen[maptbl[lpn]] = "VALID" /\ maptbl[lpn][1] \notin FreeLines
         /\ job.kind \in {"gc", "reset", "erase"} => job.at \in Lines \X (0 .. PgsPerLine)
         /\ job.kind = "gc" => job.at[1] \notin FreeLines
<1>1. /\ One!Types /\ One!Census /\ One!OnLines(Seen) /\ One!InRange /\ One!JobOK
      /\ One!Agree(One!Lpns, One!Pages, One!Beyond, maptbl, rmap, Seen)
  BY DEF One!FtlInv
<1>2. One!Geometry
  BY <1>1, OneAssumptions, One!GeometryHolds DEF One!Types
<1>3. One!Elems(free) = FreeLines
  BY DEF FreeLines, One!Elems
<1>4. free \in Seq(Lines) /\ FreeLines \subseteq Lines
  <2>1. free \in Seq(Lines)
    BY <1>1, SameSizes DEF One!Types
  <2> QED
    BY <2>1 DEF FreeLines
<1>5. ASSUME NEW w \in Writers, CanOpen(w)
      PROVE  /\ PageOf(w) \in Pages /\ FreeLeft(w) \in Seq(Lines)
             /\ PageOf(w)[1] \notin One!Elems(FreeLeft(w))
             /\ One!Elems(FreeLeft(w)) \subseteq FreeLines
  <2>1. w \in One!Writers /\ One!CanOpen(w)
    BY <1>5, SameNames, SameTests
  <2>2. One!Opened(w, One!PageOf(w), One!FreeLeft(w), Seen)
    BY <1>1, <1>2, <2>1, OneAssumptions, One!OpenedHolds
  <2>3. One!PageOf(w) = PageOf(w) /\ One!FreeLeft(w) = FreeLeft(w)
    BY SameTests
  <2> QED
    BY <2>2, <2>3, <1>3, SameSizes DEF One!Opened
<1>6. ASSUME NEW lpn \in Lpns, mapped(maptbl[lpn])
      PROVE  Seen[maptbl[lpn]] = "VALID" /\ maptbl[lpn][1] \notin FreeLines
  <2>1. Seen[maptbl[lpn]] = "VALID"
    <3>1. INVALID_LPN \notin Lpns
      BY <1>2, SameSizes, SameNames DEF One!Geometry
    <3> QED
      BY <1>1, <1>6, <3>1, SameSizes, SameNames DEF One!Agree, mapped
  <2> QED
    BY <1>6, <2>1, SeenLine DEF mapped
<1>7. job.kind \in {"gc", "reset", "erase"} => job.at \in Lines \X (0 .. PgsPerLine)
  BY <1>1, SameSizes DEF One!JobOK
<1>8. job.kind = "gc" => job.at[1] \notin FreeLines
  BY <1>1, <1>3 DEF One!Census, One!LeftLines, One!GcLines
<1> QED
  BY <1>4, <1>5, <1>6, <1>7, <1>8

\* A write pointer that moves on puts no line on the free list.
LEMMA FreeShrinks ==
  ASSUME NEW w, NEW p, FreeLeft(w) \in Seq(Lines), Advance(w, p) \/ LeaveLine(w, p[1])
  PROVE  FreeLines' \subseteq One!Elems(FreeLeft(w))
<1>1. \/ free' = FreeLeft(w)
      \/ FreeLeft(w) # <<>> /\ free' = Tail(FreeLeft(w))
  BY DEF Advance, LeaveLine
<1>2. CASE free' = FreeLeft(w)
  BY <1>2 DEF FreeLines, One!Elems
<1>3. CASE FreeLeft(w) # <<>> /\ free' = Tail(FreeLeft(w))
  <2> DEFINE s == FreeLeft(w)
  <2> HIDE DEF s
  <2>1. s \in Seq(Lines) /\ s # <<>> /\ free' = Tail(s)
    BY <1>3 DEF s
  <2>2. /\ DOMAIN Tail(s) = 1 .. Len(s) - 1 /\ DOMAIN s = 1 .. Len(s) /\ Len(s) \in Nat
        /\ \A i \in 1 .. Len(s) - 1 : Tail(s)[i] = s[i + 1]
    BY <2>1
  <2>3. FreeLines' = {Tail(s)[i] : i \in 1 .. Len(s) - 1}
    BY <2>1, <2>2 DEF FreeLines
  <2>4. \A i \in 1 .. Len(s) - 1 : i + 1 \in 1 .. Len(s)
    BY <2>2
  <2>5. FreeLines' \subseteq {s[i] : i \in DOMAIN s}
    BY <2>2, <2>3, <2>4
  <2> QED
    BY <2>5 DEF One!Elems, s
<1> QED
  BY <1>1, <1>2, <1>3

\* The page a collection looks at.
LEMMA VictimPage ==
  ASSUME One!FtlInv, InVictim
  PROVE  job.at \in Pages /\ Seen[job.at] = status[job.at]
<1>1. job.kind = "gc" /\ job.at \in Lines \X (0 .. PgsPerLine) /\ job.at[1] \notin FreeLines
  BY OneFacts DEF InVictim
<1>2. job.at \in Pages
  <2>1. One!Geometry
    BY OneAssumptions, One!GeometryHolds DEF One!FtlInv, One!Types
  <2>2. PgsPerLine \in Nat
    BY <2>1, SameSizes DEF One!Geometry
  <2>3. job.at[2] \in 0 .. PgsPerLine /\ job.at[2] < PgsPerLine
    BY <1>1 DEF InVictim
  <2>4. job.at[2] \in Offs
    BY <2>2, <2>3 DEF Offs
  <2> QED
    BY <1>1, <2>4 DEF Pages
<1> QED
  BY <1>1, <1>2, SeenLine

-----------------------------------------------------------------------------
(* Every step is a step of the namespace with one plane.                   *)

\* A page is put at p, after st and vp.
LEMMA SamePut ==
  ASSUME NEW lpn, NEW p, NEW mt, NEW rm, NEW st, NEW sn, NEW vp,
         PutPage(lpn, p, mt, rm, st, vp), sn[p] = st[p], Seen' = MarkValid(sn, p)
  PROVE  One!PutPage(lpn, p, mt, rm, sn, vp)
BY SameMoves DEF PutPage, One!PutPage, MarkValid, One!MarkValid, CountValid, One!CountValid

LEMMA WritePageShadow ==
  ASSUME One!FtlInv, Raw, Clean, ns' = ns, NEW z \in Zones, WritePage(z)
  PROVE  One!WritePage(z) /\ Raw'
<1> DEFINE p == PageOf("USER")
<1>1. "USER" \in Writers
  BY DEF Writers
<1>2. /\ p \in Pages /\ FreeLeft("USER") \in Seq(Lines) /\ FreeLines \subseteq Lines
      /\ p[1] \notin One!Elems(FreeLeft("USER"))
      /\ One!Elems(FreeLeft("USER")) \subseteq FreeLines
  BY <1>1, OneFacts DEF WritePage
<1>3. FreeLines' \subseteq One!Elems(FreeLeft("USER"))
  BY <1>2, FreeShrinks DEF WritePage
<1>4. status' = MarkValid(status, p)
  BY DEF WritePage, PutPage
<1> HIDE DEF p
<1>5. Seen[p] = status[p] /\ Seen' = MarkValid(Seen, p) /\ Raw'
  BY <1>2, <1>3, <1>4, SeenPuts DEF MarkValid, Statuses
<1>6. One!PutPage(<<z, written[z]>>, p, maptbl, rmap, Seen, vpc)
  BY <1>5, SamePut DEF WritePage, p
<1> QED
  BY <1>5, <1>6, SameSizes, SameTests, SameMoves DEF WritePage, One!WritePage, p

LEMMA ReserveShadow ==
  ASSUME One!FtlInv, Raw, Clean, ns' = ns, NEW z \in Zones, ReserveZone(z)
  PROVE  One!ReserveZone(z) /\ Raw'
<1> DEFINE p        == PageOf("USER")
           reserved == [lpn \in Lpns |-> IF lpn[1] = z THEN RSV_PPA ELSE maptbl[lpn]]
<1>1. "USER" \in Writers
  BY DEF Writers
<1>2. /\ p \in Pages /\ FreeLeft("USER") \in Seq(Lines) /\ FreeLines \subseteq Lines
      /\ p[1] \notin One!Elems(FreeLeft("USER"))
      /\ One!Elems(FreeLeft("USER")) \subseteq FreeLines
  BY <1>1, OneFacts DEF ReserveZone
<1>3. FreeLines' \subseteq One!Elems(FreeLeft("USER"))
  BY <1>2, FreeShrinks DEF ReserveZone
<1>4. status' = MarkValid(status, p)
  BY DEF ReserveZone, PutPage
<1> HIDE DEF p
<1>5. Seen[p] = status[p] /\ Seen' = MarkValid(Seen, p) /\ Raw'
  BY <1>2, <1>3, <1>4, SeenPuts DEF MarkValid, Statuses
<1>6. One!PutPage(<<z, 0>>, p, reserved, rmap, Seen, vpc)
  BY <1>5, SamePut DEF ReserveZone, p
<1> QED
  BY <1>5, <1>6, SameSizes, SameNames, SameTests, SameMoves DEF ReserveZone, One!ReserveZone, p

LEMMA WriteReservedShadow ==
  ASSUME One!FtlInv, Raw, Clean, ns' = ns, NEW z \in Zones, WriteReserved(z)
  PROVE  One!WriteReserved(z) /\ Raw'
<1> DEFINE lpn  == <<z, written[z]>>
           prev == maptbl[<<z, written[z] - 1>>]
           p    == NextPage(prev)
<1>1. <<z, written[z] - 1>> \in Lpns
  <2>1. written[z] \in 0 .. PgsPerLine /\ written[z] > 0 /\ written[z] < PgsPerLine
    BY SameSizes DEF One!FtlInv, One!Types, WriteReserved, CanWrite
  <2>2. PgsPerLine \in Nat
    <3>1. One!Geometry
      BY OneAssumptions, One!GeometryHolds DEF One!FtlInv, One!Types
    <3> QED
      BY <3>1, SameSizes DEF One!Geometry
  <2>3. written[z] - 1 \in 0 .. PgsPerLine - 1
    BY <2>1, <2>2
  <2> QED
    BY <2>3 DEF Lpns, Offs
<1>2. mapped(prev) /\ p \in Pages /\ p[1] = prev[1]
  BY DEF WriteReserved, mapped, NextPage
<1>3. prev[1] \notin FreeLines /\ FreeLines \subseteq Lines
  BY <1>1, <1>2, OneFacts
<1>4. free' = free /\ FreeLines' = FreeLines
  BY DEF WriteReserved, lines, FreeLines
<1>5. status' = MarkValid(status, p)
  BY DEF WriteReserved, PutPage
<1>6. PutPage(lpn, p, maptbl, rmap, status, vpc)
  BY DEF WriteReserved
<1> HIDE DEF p
<1>7. Seen[p] = status[p] /\ Seen' = MarkValid(Seen, p) /\ Raw'
  BY <1>2, <1>3, <1>4, <1>5, SeenPuts DEF MarkValid, Statuses
<1>8. One!PutPage(lpn, p, maptbl, rmap, Seen, vpc)
  BY <1>6, <1>7, SamePut
<1>9. UNCHANGED <<ipc, One!lines, wp, noSpace, halted>>
  BY DEF WriteReserved, lines, One!lines
<1> QED
  BY <1>7, <1>8, <1>9, SameSizes, SameNames, SameTests, SameMoves
  DEF WriteReserved, One!WriteReserved, p

\* Steps that leave the pages alone.
LEMMA QuietShadow ==
  ASSUME One!FtlInv, Raw, ns' = ns
  PROVE  /\ \A z \in Zones : StartReset(z) => One!StartReset(z) /\ Raw'
         /\ Collect => One!Collect /\ Raw'
         /\ SkipPage => One!SkipPage /\ Raw'
         /\ MoveAsserts => One!MoveAsserts /\ Raw'
<1>1. ASSUME UNCHANGED <<tables, free>>
      PROVE  UNCHANGED One!tables /\ Raw'
  BY <1>1, SeenStays DEF tables, One!tables
<1>2. ASSUME UNCHANGED lines PROVE UNCHANGED One!lines
  BY <1>2 DEF lines, One!lines
<1>3. ASSUME UNCHANGED flow PROVE UNCHANGED One!flow
  BY <1>3 DEF flow, One!flow
<1>4. InVictim => Seen[job.at] = status[job.at]
  BY VictimPage
<1>5. ASSUME NEW z \in Zones, StartReset(z) PROVE One!StartReset(z) /\ Raw'
  <2>1. UNCHANGED <<tables, lines, flow, free>>
    BY <1>5 DEF StartReset, lines
  <2>2. UNCHANGED One!tables /\ UNCHANGED One!lines /\ UNCHANGED One!flow /\ Raw'
    BY <2>1, <1>1, <1>2, <1>3
  <2> QED
    BY <1>5, <2>2, SameSizes, SameNames DEF StartReset, One!StartReset
<1>6. ASSUME Collect PROVE One!Collect /\ Raw'
  <2>1. UNCHANGED <<tables, free>>
    BY <1>6 DEF Collect, RefillCredits, NoVictim, SelectVictim, lines
  <2>2. UNCHANGED One!tables /\ Raw'
    BY <2>1, <1>1
  <2>3. CASE RefillCredits
    BY <2>2, <2>3, <1>2, SameSizes, SameNames, SameTests
    DEF RefillCredits, One!RefillCredits, One!Collect
  <2>4. CASE NoVictim
    BY <2>2, <2>4, <1>2, SameSizes, SameNames, SameTests DEF NoVictim, One!NoVictim, One!Collect
  <2>5. CASE SelectVictim
    BY <2>2, <2>5, SameSizes, SameNames, SameTests DEF SelectVictim, One!SelectVictim, One!Collect
  <2> QED
    BY <1>6, <2>3, <2>4, <2>5 DEF Collect
<1>7. ASSUME SkipPage PROVE One!SkipPage /\ Raw'
  <2>1. UNCHANGED <<tables, lines, flow, free>>
    BY <1>7 DEF SkipPage, lines
  <2>2. UNCHANGED One!tables /\ UNCHANGED One!lines /\ UNCHANGED One!flow /\ Raw'
    BY <2>1, <1>1, <1>2, <1>3
  <2> QED
    BY <1>4, <1>7, <2>2, SameTests, SameMoves DEF SkipPage, One!SkipPage
<1>8. ASSUME MoveAsserts PROVE One!MoveAsserts /\ Raw'
  <2>1. UNCHANGED <<tables, lines, flow, free>>
    BY <1>8 DEF MoveAsserts, AssertCurline, lines
  <2>2. UNCHANGED One!tables /\ UNCHANGED One!lines /\ UNCHANGED One!flow /\ Raw'
    BY <2>1, <1>1, <1>2, <1>3
  <2> QED
    BY <1>4, <1>8, <2>2, SameTests
    DEF MoveAsserts, One!MoveAsserts, AssertCurline, One!AssertCurline
<1> QED
  BY <1>5, <1>6, <1>7, <1>8

\* Page old, on no free line, is invalidated and page q, on none any more, is
\* marked valid.
LEMMA SeenMoves ==
  ASSUME ns' = ns, Raw, Clean, FreeLines' \subseteq FreeLines, FreeLines \subseteq Lines,
         NEW old \in Pages, old[1] \notin FreeLines, NEW q \in Pages, q[1] \notin FreeLines',
         status' = MarkValid([status EXCEPT ![old] = "INVALID"], q)
  PROVE  /\ [Seen EXCEPT ![old] = "INVALID"][q] = [status EXCEPT ![old] = "INVALID"][q]
         /\ Seen' = MarkValid([Seen EXCEPT ![old] = "INVALID"], q)
         /\ Raw'
<1> DEFINE st == [status EXCEPT ![old] = "INVALID"]
           sn == [Seen EXCEPT ![old] = "INVALID"]
<1>1. Seen[q] = status[q] /\ Seen[old] = status[old] /\ old[1] \notin FreeLines'
  BY SeenPuts, SeenLine
<1>2. status \in [Pages -> Statuses] /\ st \in [Pages -> Statuses]
  BY DEF Raw, Statuses
<1>3. \A p \in Pages : p[1] \notin FreeLines' => Seen[p] = status[p]
  BY SeenPuts
<1>4. \A p \in Pages : p[1] \in FreeLines' => Seen[p] = "FREE"
  BY SeenLine
<1>5. sn[q] = st[q]
  BY <1>1, <1>2 DEF Seen, SeenOf
<1>6. Seen' = MarkValid(sn, q)
  <2>1. Seen' = [p \in Pages |-> IF p[1] \in FreeLines' THEN "FREE" ELSE status'[p]]
    BY PagesStay DEF SeenOf
  <2>2. \A p \in Pages : (IF p[1] \in FreeLines' THEN "FREE" ELSE status'[p]) = MarkValid(sn, q)[p]
    <3>1. \A p \in Pages : sn[p] = IF p = old THEN "INVALID" ELSE Seen[p]
      BY DEF Seen, SeenOf
    <3>2. \A p \in Pages : st[p] = IF p = old THEN "INVALID" ELSE status[p]
      BY <1>2
    <3>3. \A p \in Pages : MarkValid(sn, q)[p] = IF p = q /\ sn[q] = "FREE" THEN "VALID" ELSE sn[p]
      BY DEF MarkValid, Seen, SeenOf
    <3>4. \A p \in Pages : status'[p] = IF p = q /\ st[q] = "FREE" THEN "VALID" ELSE st[p]
      BY <1>2 DEF MarkValid
    <3>5. ASSUME NEW p \in Pages, p[1] \in FreeLines' PROVE MarkValid(sn, q)[p] = "FREE"
      <4>1. p # q /\ p # old
        BY <1>1, <3>5
      <4> QED
        BY <1>4, <3>1, <3>3, <3>5, <4>1
    <3>6. ASSUME NEW p \in Pages, p[1] \notin FreeLines' PROVE MarkValid(sn, q)[p] = status'[p]
      <4>1. sn[p] = st[p]
        BY <1>3, <3>1, <3>2, <3>6
      <4> HIDE DEF sn, st
      <4> QED
        BY <1>5, <3>3, <3>4, <4>1
    <3> HIDE DEF sn, st
    <3> QED
      BY <3>5, <3>6
  <2>3. MarkValid(sn, q) = [p \in Pages |-> MarkValid(sn, q)[p]]
    BY DEF MarkValid, Seen, SeenOf
  <2> QED
    BY <2>1, <2>2, <2>3
<1>7. Raw'
  <2>1. status' \in [Pages -> Statuses]
    BY <1>2 DEF MarkValid, Statuses
  <2>2. ASSUME NEW l \in FreeLines', NEW o \in Offs PROVE status'[<<l, o>>] = status[<<l, o>>]
    <3>1. <<l, o>> \in Pages /\ <<l, o>>[1] = l
      BY DEF Pages
    <3>2. <<l, o>> # q /\ <<l, o>> # old
      BY <1>1, <3>1
    <3> QED
      BY <1>2, <3>1, <3>2 DEF MarkValid
  <2>3. \A l \in FreeLines', o \in Offs :
          status'[<<l, o>>] # "VALID" /\ (PlsPerLun = 1 => status'[<<l, o>>] = "FREE")
    BY <2>2 DEF Raw
  <2> QED
    BY <2>1, <2>3, PagesStay DEF Raw
<1> QED
  BY <1>5, <1>6, <1>7

LEMMA MoveShadow ==
  ASSUME One!FtlInv, Raw, Clean, ns' = ns, MovePage
  PROVE  One!MovePage /\ Raw'
<1> DEFINE lpn == rmap[job.at]
           old == maptbl[lpn]
           mt  == [maptbl EXCEPT ![lpn] = UNMAPPED_PPA]
           rm  == SetRmap(rmap, old, INVALID_LPN)
           st  == [status EXCEPT ![old] = "INVALID"]
           sn  == [Seen EXCEPT ![old] = "INVALID"]
           vp  == [vpc EXCEPT ![old[1]] = @ - 1]
           q   == PageOf("GC")
<1>1. lpn \in Lpns /\ mapped(old) /\ old \in Pages
  BY DEF MovePage, mapped
<1>2. old[1] \notin FreeLines /\ FreeLines \subseteq Lines
  BY <1>1, OneFacts
<1>3. InVictim /\ Seen[job.at] = "VALID"
  BY VictimPage DEF MovePage
<1>4. ASSUME noSpace, status' = st, UNCHANGED free
      PROVE  Seen' = sn /\ Raw'
  <2>1. FreeLines' = FreeLines
    BY <1>4 DEF FreeLines
  <2> QED
    BY <1>1, <1>2, <1>4, <2>1, SeenPuts DEF Statuses
<1>5. ASSUME ~noSpace, CanOpen("GC"), PutPage(lpn, q, mt, rm, st, vp), Advance("GC", q)
      PROVE  One!PutPage(lpn, q, mt, rm, sn, vp) /\ Raw'
  <2>1. "GC" \in Writers
    BY DEF Writers
  <2>2. /\ q \in Pages /\ FreeLeft("GC") \in Seq(Lines)
        /\ q[1] \notin One!Elems(FreeLeft("GC"))
        /\ One!Elems(FreeLeft("GC")) \subseteq FreeLines
    BY <1>5, <2>1, OneFacts
  <2>3. FreeLines' \subseteq One!Elems(FreeLeft("GC"))
    BY <1>5, <2>2, FreeShrinks
  <2>4. status' = MarkValid(st, q)
    BY <1>5 DEF PutPage
  <2> HIDE DEF q, mt, rm, vp, lpn, old
  <2>5. sn[q] = st[q] /\ Seen' = MarkValid(sn, q) /\ Raw'
    BY <1>1, <1>2, <2>2, <2>3, <2>4, SeenMoves
  <2> HIDE DEF st, sn
  <2> QED
    BY <1>5, <2>5, SamePut
<1>6. CASE noSpace
  <2>1. UNCHANGED lines /\ status' = st /\ free' = free
    BY <1>6 DEF MovePage, lines
  <2>2. UNCHANGED One!lines
    BY <2>1 DEF lines, One!lines
  <2>3. Seen' = sn /\ Raw'
    BY <1>4, <1>6, <2>1
  <2>4. UNCHANGED One!flow
    BY DEF MovePage, flow, One!flow
  <2> QED
    BY <1>3, <1>6, <2>2, <2>3, <2>4, SameSizes, SameNames, SameTests, SameMoves
    DEF MovePage, One!MovePage
<1>7. CASE ~noSpace
  <2>1. CanOpen("GC") /\ PutPage(lpn, q, mt, rm, st, vp) /\ Advance("GC", q)
    BY <1>7 DEF MovePage
  <2>2. One!PutPage(lpn, q, mt, rm, sn, vp) /\ Raw'
    BY <1>5, <1>7, <2>1
  <2>3. UNCHANGED One!flow
    BY DEF MovePage, flow, One!flow
  <2> QED
    BY <1>3, <1>7, <2>2, <2>3, SameSizes, SameNames, SameTests, SameMoves
    DEF MovePage, One!MovePage
<1> QED
  BY <1>6, <1>7

\* An erase, whether the line was collected or not.
LEMMA EraseShadow ==
  ASSUME One!FtlInv, Raw, ns' = ns, NEW l \in Lines, l \notin FreeLines,
         NEW collected \in BOOLEAN, EraseLine(l, collected),
         \A o \in Offs : status[<<l, o>>] # "VALID"
  PROVE  One!EraseLine(l, collected) /\ Raw'
<1>1. free \in Seq(Lines) /\ FreeLines \subseteq Lines
  BY OneFacts
<1>2. FreeLines' = FreeLines \cup {l}
  <2>1. free' = Append(free, l)
    BY DEF EraseLine, ToFreeList
  <2>2. One!Distinct(free)
    BY DEF One!FtlInv, One!Census
  <2>3. One!Elems(free) = FreeLines
    BY DEF One!Elems, FreeLines
  <2>4. One!Elems(Append(free, l)) = One!Elems(free) \cup {l}
    BY <1>1, <2>2, <2>3, OneAssumptions, One!AppendElems
  <2> QED
    BY <2>1, <2>3, <2>4 DEF One!Elems, FreeLines
<1>3. One!EraseBlocks(l) /\ Raw'
  BY <1>1, <1>2, SeenErased DEF EraseLine
<1>4. One!ClearCounters(l)
  BY DEF EraseLine, ClearCounters, One!ClearCounters
<1>5. One!ToFreeList(l, collected)
  BY SameSizes DEF EraseLine, ToFreeList, One!ToFreeList
<1> QED
  BY <1>3, <1>4, <1>5 DEF One!EraseLine

LEMMA FinishGcShadow ==
  ASSUME One!FtlInv, Raw, ns' = ns, FinishGc
  PROVE  One!FinishGc /\ Raw'
<1>1. /\ job.kind = "gc" /\ job.at[2] = PgsPerLine /\ job.at[1] \in Lines
      /\ job.at[1] \notin FreeLines
  BY OneFacts DEF FinishGc
<1>2. \A o \in Offs : status[<<job.at[1], o>>] # "VALID"
  <2> SUFFICES ASSUME NEW o \in Offs PROVE status[<<job.at[1], o>>] # "VALID"
    OBVIOUS
  <2>1. o < job.at[2]
    <3>1. One!Geometry
      BY OneAssumptions, One!GeometryHolds DEF One!FtlInv, One!Types
    <3>2. PgsPerLine \in Nat
      BY <3>1, SameSizes DEF One!Geometry
    <3> QED
      BY <1>1, <3>2 DEF Offs
  <2>2. Seen[<<job.at[1], o>>] # "VALID"
    BY <1>1, <2>1, SameSizes DEF One!FtlInv, One!JobOK
  <2>3. <<job.at[1], o>> \in Pages /\ <<job.at[1], o>>[1] = job.at[1]
    BY <1>1 DEF Pages
  <2> QED
    BY <1>1, <2>2, <2>3, SeenLine
<1>3. EraseLine(job.at[1], TRUE)
  BY DEF FinishGc
<1>4. One!EraseLine(job.at[1], TRUE) /\ Raw'
  BY <1>1, <1>2, <1>3, EraseShadow
<1> QED
  BY <1>4, SameSizes, SameNames DEF FinishGc, One!FinishGc

LEMMA ResetPageShadow ==
  ASSUME One!FtlInv, Raw, Clean, ns' = ns, ResetPage
  PROVE  One!ResetPage /\ Raw'
<1> DEFINE p == maptbl[job.at]
<1>1. job.at \in Lpns /\ mapped(p) /\ p \in Pages
  <2>1. job.at \in Lines \X (0 .. PgsPerLine) /\ job.at[2] < PgsPerLine /\ mapped(p)
    BY OneFacts DEF ResetPage, InZone
  <2>2. PgsPerLine \in Nat
    <3>1. One!Geometry
      BY OneAssumptions, One!GeometryHolds DEF One!FtlInv, One!Types
    <3> QED
      BY <3>1, SameSizes DEF One!Geometry
  <2>3. job.at[2] \in 0 .. PgsPerLine - 1
    BY <2>1, <2>2
  <2> QED
    BY <2>1, <2>3 DEF Lpns, Zones, Offs, mapped
<1>2. p[1] \notin FreeLines /\ FreeLines \subseteq Lines
  BY <1>1, OneFacts
<1>3. FreeLines' = FreeLines /\ status' = [status EXCEPT ![p] = "INVALID"]
  BY DEF ResetPage, FreeLines
<1>4. Seen' = [Seen EXCEPT ![p] = "INVALID"] /\ Raw'
  BY <1>1, <1>2, <1>3, SeenPuts DEF Statuses
<1>5. UNCHANGED One!flow
  BY DEF ResetPage, flow, One!flow
<1> QED
  BY <1>4, <1>5, SameSizes, SameNames, SameTests, SameMoves DEF ResetPage, One!ResetPage

LEMMA EraseFirstShadow ==
  ASSUME One!FtlInv, Raw, ns' = ns, job.kind \in {"reset", "erase"}, EraseFirst
  PROVE  One!EraseFirst /\ Raw'
<1>1. CASE job.first # NoLine /\ Spent(job.first)
  <2> DEFINE l == job.first
  <2>1. /\ One!Types /\ One!Census /\ One!Counted(Seen, vpc, ipc, rpc) /\ One!OnLines(Seen)
        /\ One!JobOK /\ One!GcLines = {} /\ One!Geometry
    BY OneAssumptions, One!GeometryHolds DEF One!FtlInv, One!Types, One!GcLines
  <2>2. l \in Lines
    BY <1>1, <2>1, SameSizes, SameNames DEF One!Types
  <2>3. l \in One!Lines /\ One!Spent(l) /\ \E o \in One!Offs : Seen[<<l, o>>] = "INVALID"
    BY <1>1, <2>1, <2>2, SameSizes, SameNames, SameTests DEF One!JobOK
  <2>4. l \in victim /\ \A o \in One!Offs : Seen[<<l, o>>] # "VALID"
    <3> HIDE DEF l
    <3> QED
      BY <2>1, <2>3, OneAssumptions, One!SpentLine
  <2>5. l \notin FreeLines
    <3>1. One!Elems(free) = FreeLines
      BY DEF One!Elems, FreeLines
    <3> QED
      BY <2>1, <2>4, <3>1 DEF One!Census, One!LeftLines
  <2>6. \A o \in Offs : status[<<l, o>>] # "VALID"
    <3> SUFFICES ASSUME NEW o \in Offs PROVE status[<<l, o>>] # "VALID"
      OBVIOUS
    <3>1. <<l, o>> \in Pages /\ <<l, o>>[1] = l
      BY <2>2 DEF Pages
    <3> QED
      BY <2>4, <2>5, <3>1, SeenLine, SameSizes
  <2>7. EraseLine(l, FALSE)
    BY <1>1 DEF EraseFirst
  <2>8. One!EraseLine(l, FALSE) /\ Raw'
    BY <2>2, <2>5, <2>6, <2>7, EraseShadow
  <2> QED
    BY <1>1, <2>8, SameNames, SameTests DEF One!EraseFirst
<1>2. CASE ~(job.first # NoLine /\ Spent(job.first))
  <2>1. UNCHANGED <<status, vpc, ipc, rpc, lines>>
    BY <1>2 DEF EraseFirst
  <2>2. Seen' = Seen /\ Raw' /\ UNCHANGED One!lines
    BY <2>1, SeenStays DEF lines, One!lines
  <2> QED
    BY <1>2, <2>1, <2>2, SameNames, SameTests DEF One!EraseFirst
<1> QED
  BY <1>1, <1>2

LEMMA EndResetShadow ==
  ASSUME One!FtlInv, Raw, ns' = ns, ResetErase \/ FinishReset
  PROVE  (One!ResetErase \/ One!FinishReset) /\ Raw'
<1>1. UNCHANGED One!flow
  BY DEF ResetErase, FinishReset, flow, One!flow
<1>2. job.kind \in {"reset", "erase"} /\ EraseFirst
  BY DEF ResetErase, FinishReset
<1>3. One!EraseFirst /\ Raw'
  BY <1>2, EraseFirstShadow
<1>4. CASE ResetErase
  BY <1>1, <1>3, <1>4, SameNames DEF ResetErase, One!ResetErase
<1>5. CASE FinishReset
  BY <1>1, <1>3, <1>5, SameNames, SameTests DEF FinishReset, One!FinishReset
<1> QED
  BY <1>3, <1>4, <1>5

\* A step that takes erased lines only is a step of the namespace with one
\* plane.
LEMMA Shadow ==
  ASSUME One!FtlInv, Raw, Clean, ns' = ns, Step
  PROVE  One!FtlStep /\ Raw'
<1>1. ASSUME NEW z \in Zones, WritePage(z) \/ ReserveZone(z) \/ WriteReserved(z) \/ StartReset(z)
      PROVE  One!Step /\ Raw'
  <2>1. /\ One!WritePage(z) \/ One!ReserveZone(z) \/ One!WriteReserved(z) \/ One!StartReset(z)
        /\ Raw'
    BY <1>1, WritePageShadow, ReserveShadow, WriteReservedShadow, QuietShadow
  <2>2. z \in One!Zones
    BY SameSizes
  <2> QED
    BY <2>1, <2>2 DEF One!Step
<1>2. ASSUME Collect PROVE One!Step /\ Raw'
  BY <1>2, QuietShadow DEF One!Step
<1>3. ASSUME Gc PROVE One!Step /\ Raw'
  <2>1. One!Gc /\ Raw'
    BY <1>3, QuietShadow, MoveShadow, FinishGcShadow DEF Gc, One!Gc
  <2> QED
    BY <2>1 DEF One!Step
<1>4. ASSUME Reset PROVE One!Step /\ Raw'
  <2>1. One!Reset /\ Raw'
    BY <1>4, ResetPageShadow, EndResetShadow DEF Reset, One!Reset
  <2> QED
    BY <2>1 DEF One!Step
<1>5. One!Step /\ Raw'
  BY <1>1, <1>2, <1>3, <1>4 DEF Step
<1> QED
  BY <1>5 DEF One!FtlStep, OnePlane

-----------------------------------------------------------------------------
(* The invariant.                                                          *)

FtlInv ==
  /\ ns \in Namespaces
  /\ reused \in BOOLEAN
  /\ ~reused => One!FtlInv /\ Raw
  /\ PlsPerLun = 1 => ~reused

LEMMA OneSupported ==
  ASSUME Supported
  PROVE  One!Supported
<1> SUFFICES ASSUME NEW m \in Namespaces
             PROVE  OnePlane(m).planes = 1 /\ (OnePlane(m).mapping = "ZONE" => ~OnePlane(m).partialReset)
  BY DEF One!Supported, OnePlanes
<1> QED
  BY DEF Supported, OnePlane

LEMMA InitKeeps ==
  ASSUME Init
  PROVE  FtlInv /\ One!Init
<1>1. status = [p \in Pages |-> "FREE"]
  BY DEF Init
<1>2. Seen = [p \in Pages |-> "FREE"]
  BY <1>1 DEF Seen, SeenOf
<1>3. OnePlane(ns) \in OnePlanes
  BY DEF Init, OnePlanes
<1>4. One!Init
  BY <1>2, <1>3, SameSizes, SameNames DEF Init, One!Init
<1>5. One!FtlInv
  BY <1>4, OneAssumptions, One!InitKeeps
<1>6. FreeLines \subseteq Lines
  BY <1>5, OneFacts
<1>7. Raw
  <2>1. \A l \in Lines, o \in Offs : <<l, o>> \in Pages
    BY DEF Pages
  <2> QED
    BY <1>1, <1>6, <2>1 DEF Raw, Statuses
<1> QED
  BY <1>4, <1>5, <1>7 DEF Init, FtlInv

\* As long as no line is taken that is not erased all over, only erased lines
\* are taken; on dies of one plane that is always.
LEMMA Recorded ==
  ASSUME FtlInv, Next
  PROVE  /\ reused' \in BOOLEAN
         /\ ~reused' => ~reused /\ Clean
         /\ PlsPerLun = 1 => ~reused'
<1>1. reused' = (reused \/ \E l \in Lines : Taken(l) /\ \E o \in Offs : status[<<l, o>>] # "FREE")
  BY DEF Next, Record
<1>2. reused \in BOOLEAN
  BY DEF FtlInv
<1>3. reused' \in BOOLEAN /\ (~reused' => ~reused /\ Clean)
  BY <1>1, <1>2 DEF Clean
<1>4. ASSUME PlsPerLun = 1, reused' PROVE FALSE
  <2>1. ~reused /\ Raw
    BY <1>4 DEF FtlInv
  <2>2. PICK l \in Lines : Taken(l) /\ \E o \in Offs : status[<<l, o>>] # "FREE"
    BY <1>1, <1>4, <2>1
  <2>3. l \in FreeLines
    BY <2>2 DEF Taken, OnFreeList, FreeLines
  <2> QED
    BY <1>4, <2>1, <2>2, <2>3 DEF Raw
<1> QED
  BY <1>3, <1>4

\* A step as the namespace with one plane sees it.
LEMMA StepSeen ==
  ASSUME FtlInv, [Next]_vars, ~reused'
  PROVE  ~reused /\ One!FtlInv /\ Raw /\ One!FtlStep /\ Raw' /\ ns' = ns
<1>1. CASE Next
  <2>1. ~reused /\ Clean /\ One!FtlInv /\ Raw
    BY <1>1, Recorded DEF FtlInv
  <2> QED
    BY <1>1, <2>1, Shadow DEF Next
<1>2. CASE UNCHANGED vars
  <2>1. ~reused /\ One!FtlInv /\ Raw /\ ns' = ns /\ free' = free /\ status' = status
    BY <1>2 DEF vars, tables, lines, FtlInv
  <2>2. Seen' = Seen /\ Raw'
    BY <2>1, SeenStays
  <2>3. UNCHANGED One!vars
    BY <1>2, <2>2 DEF vars, tables, lines, flow, One!vars, One!tables, One!lines, One!flow, OnePlane
  <2> QED
    BY <2>1, <2>2, <2>3 DEF One!FtlStep
<1> QED
  BY <1>1, <1>2

LEMMA StepKeeps ==
  ASSUME Supported, FtlInv, [Next]_vars
  PROVE  FtlInv'
<1>1. reused' \in BOOLEAN /\ ns' = ns /\ (PlsPerLun = 1 => ~reused')
  BY Recorded DEF FtlInv, Next, vars
<1>2. ASSUME ~reused' PROVE One!FtlInv' /\ Raw'
  BY <1>2, StepSeen, OneSupported, OneAssumptions, One!StepKeeps
<1>3. PlsPerLun' = PlsPerLun /\ ns' \in Namespaces
  BY <1>1, PagesStay DEF FtlInv
<1> QED
  BY <1>1, <1>2, <1>3 DEF FtlInv

\* Every line, counter and table is in order until a line is taken that is not
\* erased all over, which on dies of one plane never happens.
THEOREM FtlInvariant ==
  ASSUME Supported
  PROVE  Spec => []FtlInv
<1>1. Init => FtlInv
  BY InitKeeps
<1>2. FtlInv /\ [Next]_vars => FtlInv'
  BY StepKeeps
<1> QED
  BY <1>1, <1>2, PTL DEF Spec

-----------------------------------------------------------------------------
(* What the invariant says.                                                *)

\* The pages of a line that is not on the free list are seen as they are, and
\* the valid pages are the same.
LEMMA SeenElsewhere ==
  ASSUME One!FtlInv, Raw
  PROVE  /\ \A l \in Lines, o \in Offs : ~OnFreeList(l) => Seen[<<l, o>>] = status[<<l, o>>]
         /\ \A p \in Pages : Seen[p] = "VALID" <=> status[p] = "VALID"
<1>1. \A l \in Lines, o \in Offs : <<l, o>> \in Pages /\ <<l, o>>[1] = l
  BY DEF Pages
<1>2. \A l : OnFreeList(l) <=> l \in FreeLines
  BY DEF OnFreeList, FreeLines
<1>3. \A p \in Pages : p[1] \in FreeLines => status[p] # "VALID" /\ Seen[p] # "VALID"
  <2> SUFFICES ASSUME NEW p \in Pages, p[1] \in FreeLines
               PROVE  status[p] # "VALID" /\ Seen[p] # "VALID"
    OBVIOUS
  <2>1. p[1] \in Lines /\ p[2] \in Offs /\ p = <<p[1], p[2]>>
    BY DEF Pages
  <2>2. status[<<p[1], p[2]>>] # "VALID"
    BY <2>1 DEF Raw
  <2> QED
    BY <2>1, <2>2, SeenLine
<1> QED
  BY <1>1, <1>2, <1>3, SeenLine

LEMMA CensusSays ==
  ASSUME FtlInv
  PROVE  LineCensus
<1> SUFFICES ASSUME ~reused PROVE TypeOK /\ \A l \in Lines : Places(l) = 1
  BY DEF LineCensus
<1>1. ns \in Namespaces /\ reused \in BOOLEAN /\ One!FtlInv /\ Raw
  BY DEF FtlInv
<1>2. One!TypeOK /\ One!LineCensus
  BY <1>1, OneAssumptions, One!TypesOK, One!CensusOK
<1>3. TypeOK
  <2>1. JobKinds = One!JobKinds
    BY DEF JobKinds, One!JobKinds
  <2> QED
    BY <1>1, <1>2, <2>1, SameSizes, SameNames DEF TypeOK, One!TypeOK, Raw, Statuses
<1>4. \A l : One!Places(l) = Places(l)
  BY SameNames, SameCounts DEF Places, One!Places
<1> QED
  BY <1>2, <1>3, <1>4, SameSizes DEF One!LineCensus

LEMMA CountersSay ==
  ASSUME FtlInv
  PROVE  CountersMatchPages /\ ListsMatchCounters /\ MappingsAgree
<1> SUFFICES ASSUME ~reused PROVE CountersMatchPages /\ ListsMatchCounters /\ MappingsAgree
  BY DEF CountersMatchPages, ListsMatchCounters, MappingsAgree
<1>1. One!FtlInv /\ Raw
  BY DEF FtlInv
<1>2. One!CountersMatchPages /\ One!ListsMatchCounters /\ One!MappingsAgree
  BY <1>1, OneAssumptions, One!CountersOK
<1>3. CountersMatchPages
  <2> DEFINE Have(st, l, s) == {i \in Offs : st[<<l, i>>] = s}
  <2>1. ASSUME NEW l \in Lines, ~OnFreeList(l), NEW s PROVE Have(Seen, l, s) = Have(status, l, s)
    BY <1>1, <2>1, SeenElsewhere
  <2>2. \A l : One!OnFreeList(l) <=> OnFreeList(l)
    BY DEF OnFreeList, One!OnFreeList
  <2>3. ASSUME NEW l \in Lines
        PROVE  LET Having(s) == IF OnFreeList(l) THEN 0 ELSE Cardinality(Have(Seen, l, s))
                   left == l \in full \cup victim \/ (job.kind = "gc" /\ job.at[1] = l)
               IN  /\ vpc[l] = Having("VALID")
                   /\ ipc[l] = Having("INVALID")
                   /\ rpc[l] = IF left THEN Having("FREE") ELSE 0
    BY <1>2, <2>2, SameSizes, SameCounts DEF One!CountersMatchPages
  <2>4. ASSUME NEW l \in Lines
        PROVE  LET Having(s) == IF OnFreeList(l) THEN 0 ELSE Cardinality(Have(status, l, s))
                   left == l \in full \cup victim \/ (job.kind = "gc" /\ job.at[1] = l)
               IN  /\ vpc[l] = Having("VALID")
                   /\ ipc[l] = Having("INVALID")
                   /\ rpc[l] = IF left THEN Having("FREE") ELSE 0
    <3> HIDE DEF Have
    <3> QED
      BY <2>1, <2>3
  <2> QED
    BY <2>4 DEF CountersMatchPages
<1>4. ListsMatchCounters
  BY <1>2, SameSizes DEF ListsMatchCounters, One!ListsMatchCounters
<1>5. MappingsAgree
  BY <1>1, <1>2, SeenElsewhere, SameSizes, SameNames, SameTests
  DEF MappingsAgree, One!MappingsAgree
<1> QED
  BY <1>3, <1>4, <1>5

\* LineCensus: no line is lost or on two lists, whatever writes, collections and
\* resets happen.
THEOREM LinesInOnePlace ==
  ASSUME Supported
  PROVE  Spec => []LineCensus
<1>1. FtlInv => LineCensus
  BY CensusSays
<1> QED
  BY <1>1, FtlInvariant, PTL

\* CountersMatchPages: vpc, ipc and rpc of every line are those of its pages.
THEOREM CountersRight ==
  ASSUME Supported
  PROVE  Spec => []CountersMatchPages
<1>1. FtlInv => CountersMatchPages
  BY CountersSay
<1> QED
  BY <1>1, FtlInvariant, PTL

\* MappingsAgree: maptbl and rmap are inverse to each other on the valid pages.
THEOREM TablesAgree ==
  ASSUME Supported
  PROVE  Spec => []MappingsAgree
<1>1. FtlInv => MappingsAgree
  BY CountersSay
<1> QED
  BY <1>1, FtlInvariant, PTL

\* OnePlaneErased: what erase_line leaves unerased is on the other planes, so on
\* dies of one plane write pointers take erased lines only.
THEOREM FreeIsErased ==
  ASSUME Supported
  PROVE  Spec => []OnePlaneErased
<1>1. FtlInv => OnePlaneErased
  <2> SUFFICES ASSUME FtlInv, PlsPerLun = 1 PROVE FreeLinesErased /\ ~reused
    BY DEF OnePlaneErased
  <2>1. ~reused /\ Raw
    BY DEF FtlInv
  <2> QED
    BY <2>1 DEF Raw, FreeLinesErased, FreeLines
<1> QED
  BY <1>1, FtlInvariant, PTL

\* ListsMatchCounters: a line on the full list has no invalid page, a line in
\* the victim queue has one.
THEOREM ListsRight ==
  ASSUME Supported
  PROVE  Spec => []ListsMatchCounters
<1>1. FtlInv => ListsMatchCounters
  BY CountersSay
<1> QED
  BY <1>1, FtlInvariant, PTL

-----------------------------------------------------------------------------
(* Room.  That there is always room also needs that a collection starts    *)
(* while two lines are free, as the source has it (gc_thres_lines_high,    *)
(* zns_ftl.c).                                                             *)

RoomInv == FtlInv /\ (~reused /\ Roomy => One!Fits)

LEMMA SameRoom ==
  /\ One!Roomy <=> Roomy
  /\ One!UsesBeyond <=> UsesBeyond
<1>1. One!Roomy <=> Roomy
  BY SameSizes, SameCounts DEF One!Roomy, Roomy
<1>2. One!UsesBeyond <=> UsesBeyond
  BY SameSizes, SameRange DEF One!UsesBeyond, UsesBeyond, One!OnFreeList, OnFreeList
<1> QED
  BY <1>1, <1>2

LEMMA RoomStays ==
  ASSUME ns' = ns
  PROVE  Roomy' <=> Roomy
BY DEF Roomy, Mapping, NrLines

LEMMA StepRoom ==
  ASSUME Supported, GcThresLinesHigh >= 2, RoomInv, [Next]_vars, Roomy, ~reused'
  PROVE  One!Fits' /\ (noSpace' => noSpace \/ One!UsesBeyond')
<1>1. ~reused /\ One!FtlInv /\ One!FtlStep
  BY StepSeen DEF RoomInv
<1>2. One!Roomy /\ One!Fits
  BY <1>1, SameRoom DEF RoomInv
<1> QED
  BY <1>1, <1>2, OneSupported, OneAssumptions, One!StepFits

\* AlwaysRoom: a namespace that is handed out with a line to spare for each
\* write pointer never meets the assertion of init_write_pointer, and is full
\* only when it uses a line with pages beyond the tables.
THEOREM RoomForAll ==
  ASSUME Supported, GcThresLinesHigh >= 2
  PROVE  Spec => AlwaysRoom
<1>1. Init => RoomInv
  <2> SUFFICES ASSUME Init PROVE RoomInv
    OBVIOUS
  <2>1. FtlInv /\ One!Init
    BY InitKeeps
  <2>2. Roomy => One!RoomInv
    BY <2>1, SameRoom, OneAssumptions, One!InitRoom
  <2> QED
    BY <2>1, <2>2 DEF RoomInv, One!Fits, One!RoomInv
<1>2. RoomInv /\ [Next]_vars => RoomInv'
  <2> SUFFICES ASSUME RoomInv, [Next]_vars PROVE RoomInv'
    OBVIOUS
  <2>1. FtlInv' /\ ns' = ns
    BY StepKeeps DEF RoomInv, Next, vars
  <2>2. ~reused' /\ Roomy' => One!Fits'
    BY <2>1, RoomStays, StepRoom
  <2> QED
    BY <2>1, <2>2 DEF RoomInv
<1>3. One!UsesBeyond => UsesBeyond
  BY SameRoom
<1>4. (One!UsesBeyond => UsesBeyond)'
  BY <1>3, PTL
<1>5. RoomInv /\ [Next]_vars =>
        [Roomy /\ ~reused' => ~halted' /\ (noSpace' => noSpace \/ UsesBeyond')]_vars
  <2> SUFFICES ASSUME RoomInv, [Next]_vars, Roomy, ~reused'
               PROVE  ~halted' /\ (noSpace' => noSpace \/ UsesBeyond')
    OBVIOUS
  <2>1. One!Fits' /\ (noSpace' => noSpace \/ One!UsesBeyond')
    BY StepRoom
  <2> QED
    BY <1>4, <2>1 DEF One!Fits
<1> QED
  BY <1>1, <1>2, <1>5, PTL DEF Spec, AlwaysRoom

-----------------------------------------------------------------------------
(* What can be read back.                                                  *)

HeldNow == [z \in AllZones |-> Held(z)]

LEMMA SameZones == One!AllZones = AllZones
<1>1. AllZones = UNION {OnePlane(n).hostZones : n \in Namespaces}
  BY DEF AllZones, OnePlane
<1>2. One!AllZones = UNION {m.hostZones : m \in OnePlanes}
  BY DEF One!AllZones
<1>3. {m.hostZones : m \in OnePlanes} = {OnePlane(n).hostZones : n \in Namespaces}
  BY DEF OnePlanes
<1> QED
  BY <1>1, <1>2, <1>3

LEMMA SameHeld ==
  ASSUME One!FtlInv, Raw
  PROVE  One!HeldNow = HeldNow /\ \A z \in AllZones : One!Held(z) = Held(z)
<1>1. \A z : One!Resetting(z) <=> Resetting(z)
  BY DEF One!Resetting, Resetting
<1>2. \A z : One!Readable(z) = Readable(z)
  BY SeenElsewhere, SameSizes, SameTests DEF One!Readable, Readable, mapped
<1>3. \A z : One!Held(z) = Held(z)
  BY <1>1, <1>2, SameSizes DEF One!Held, Held
<1> QED
  BY <1>3, SameZones DEF One!HeldNow, HeldNow

\* Until it fails, a step changes what is held as ZoneStore allows.
LEMMA StoreStep ==
  ASSUME FtlInv, [Next]_vars, ~reused', ~noSpace',
         One!HoldsRight, One!HoldsRight', One!HeldNow = HeldNow, (One!HeldNow = HeldNow)'
  PROVE  ~noSpace /\ ~reused /\ (UNCHANGED HeldNow \/ \E z \in AllZones : Store!Append(z) \/ Store!Clear(z))
<1>1. ~reused /\ One!FtlInv /\ Raw /\ One!FtlStep
  BY StepSeen
<1>2. ~noSpace
  BY <1>1, OneAssumptions, One!FullForEver
<1>3. ~(noSpace \/ reused) /\ UNCHANGED (noSpace \/ reused)
  BY <1>1, <1>2
<1>4. \/ UNCHANGED One!HeldNow
      \/ \E z \in AllZones : One!HeldGrows(z) \/ One!HeldGoes(z)
  BY <1>1, SameZones, OneAssumptions, One!StoreStep
<1>5. ASSUME NEW z \in AllZones, One!HeldGrows(z) PROVE Store!Append(z)
  <2>1. PICK n \in Nat : /\ One!Held(z) = 0 .. n - 1
                          /\ One!HeldNow' = [One!HeldNow EXCEPT ![z] = 0 .. n]
    BY <1>5 DEF One!HeldGrows
  <2>2. One!Held(z) = HeldNow[z] /\ HeldNow[z] = Held(z)
    BY <1>1, SameHeld DEF HeldNow
  <2>3. HeldNow[z] = 0 .. n - 1 /\ HeldNow' = [HeldNow EXCEPT ![z] = 0 .. n]
    BY <2>1, <2>2
  <2>4. Cardinality(0 .. n - 1) = n
    BY FS_Interval
  <2>5. Store!Cardinality(0 .. n - 1) = n
    BY <2>4 DEF Store!Cardinality, Cardinality
  <2>6. 0 .. (n + 1) - 1 = 0 .. n
    OBVIOUS
  <2> QED
    BY <1>3, <2>3, <2>5, <2>6 DEF Store!Append, Store!Prefix, HeldNow
<1>6. ASSUME NEW z \in AllZones, One!HeldGoes(z) PROVE Store!Clear(z)
  BY <1>3, <1>6 DEF One!HeldGoes, Store!Clear, HeldNow
<1> QED
  BY <1>1, <1>2, <1>4, <1>5, <1>6

\* ImplementsStore: what the host has flushed to a zone can be read back until
\* the zone is reset, through every collection and every reset of another zone,
\* until the namespace is full or takes a line that is not erased all over.
THEOREM StoreImplemented ==
  ASSUME Supported
  PROVE  Spec => ImplementsStore
<1>1. FtlInv /\ ~reused /\ ~noSpace => One!HoldsRight /\ One!HeldNow = HeldNow
  BY SameHeld, OneAssumptions, One!ReadsWhatIsWritten DEF FtlInv
<1>2. (FtlInv /\ ~reused /\ ~noSpace => One!HoldsRight /\ One!HeldNow = HeldNow)'
  BY <1>1, PTL
<1>3. Init => Store!Init
  <2> SUFFICES ASSUME Init PROVE Store!Init
    OBVIOUS
  <2>1. FtlInv /\ ~reused /\ ~noSpace
    BY InitKeeps DEF Init
  <2>2. One!HoldsRight /\ One!HeldNow = HeldNow /\ One!FtlInv /\ Raw
    BY <1>1, <2>1 DEF FtlInv
  <2>3. ASSUME NEW z \in AllZones PROVE Held(z) = {}
    <3>1. One!Held(z) = Held(z) /\ One!Held(z) = One!Holding(z)
      BY <2>2, SameHeld, SameZones DEF One!HoldsRight
    <3>2. z \in ns.hostZones => z \in Zones
      BY NamespaceAssumption DEF Init, Zones, Lines, NrLines
    <3>3. z \in ns.hostZones => written[z] = 0
      BY <3>2 DEF Init
    <3>4. 0 .. 0 - 1 = {}
      OBVIOUS
    <3> QED
      BY <3>1, <3>3, <3>4, SameSizes DEF One!Holding
  <2> QED
    BY <2>1, <2>3 DEF Store!Init
<1>4. FtlInv /\ FtlInv' /\ [Next]_vars => [Store!Next]_<<HeldNow, noSpace \/ reused>>
  <2> SUFFICES ASSUME FtlInv, FtlInv', [Next]_vars
               PROVE  [Store!Next]_<<HeldNow, noSpace \/ reused>>
    OBVIOUS
  <2>1. CASE noSpace' \/ reused'
    BY <2>1 DEF Store!Next, Store!Fail
  <2>2. CASE ~noSpace' /\ ~reused'
    <3>1. One!HoldsRight' /\ (One!HeldNow = HeldNow)'
      BY <1>2, <2>2
    <3>2. ~reused /\ One!FtlInv /\ One!FtlStep
      BY <2>2, StepSeen
    <3>3. ~noSpace
      BY <2>2, <3>2, OneAssumptions, One!FullForEver
    <3>4. One!HoldsRight /\ One!HeldNow = HeldNow
      BY <1>1, <3>2, <3>3
    <3>5. UNCHANGED HeldNow \/ \E z \in AllZones : Store!Append(z) \/ Store!Clear(z)
      BY <2>2, <3>1, <3>4, StoreStep
    <3>6. UNCHANGED (noSpace \/ reused)
      BY <2>2, <3>2, <3>3
    <3> QED
      BY <3>5, <3>6 DEF Store!Next
  <2> QED
    BY <2>1, <2>2
<1> QED
  BY <1>3, <1>4, FtlInvariant, PTL DEF Spec, ImplementsStore, Store!Spec, HeldNow

=============================================================================
