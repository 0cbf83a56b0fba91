------------------------------- MODULE ZmsFtl -------------------------------
(***************************************************************************)
(* The flash translation layer of one namespace of the dual device:        *)
(* mapping table, reverse map, page states, line lists, write pointers,    *)
(* write credits, garbage collection and zone reset (zms_read_write.c).    *)
(*                                                                         *)
(* The pSLC namespace maps page by page (Mapping = "PAGE"); the TLC one    *)
(* reserves a whole zone when its first page is written (Mapping =         *)
(* "ZONE").  A zone is as large as a line in both (zms_realize_dual_params)*)
(*                                                                         *)
(* The dispatcher runs one command at a time.  A page flushed from a write *)
(* buffer is one step; a collection and a zone reset walk over pages, one  *)
(* step per page, and nothing else runs meanwhile (job).                   *)
(*                                                                         *)
(* A logical page is <<zone, offset>>, a physical page <<line, offset>>,   *)
(* offsets counted in the order the write pointer visits the pages.        *)
(***************************************************************************)
EXTENDS Integers, Sequences, FiniteSets

CONSTANTS
  Namespaces,       \* the namespaces of the device; one of them is looked at
  GcThresLinesHigh  \* zp.gc_thres_lines_high

\* mapping: "PAGE" or "ZONE"
\* lines: zp.tt_lines, also zp.nr_zones      pages: pages of a line, of a zone
\* groups: spp.line_groups, lines that share a row of blocks
\* rowPages: pages of one wordline of a line      planes: planes of a die
\* hostZones (bound): the zones the host uses
\* partialReset (bound): the host resets TLC zones it has not written out
\* maxDebt (bound): the host stops when the credits are below -maxDebt
ASSUME NamespaceAssumption ==
  \A n \in Namespaces :
    /\ n.mapping \in {"PAGE", "ZONE"}
    /\ n.lines \in Nat \ {0}
    /\ n.pages \in Nat \ {0}
    /\ n.groups \in Nat \ {0}
    /\ n.rowPages \in Nat \ {0}
    /\ n.pages % (n.groups * n.rowPages) = 0
    /\ n.planes \in Nat \ {0}
    /\ n.hostZones \subseteq 0 .. n.lines - 1
    /\ n.partialReset \in BOOLEAN
    /\ n.maxDebt \in Nat
ASSUME ThresholdAssumption == GcThresLinesHigh \in Nat

VARIABLES
  ns,        \* the namespace, never changed
  maptbl,    \* maptbl[lpn]: where a logical page is
  rmap,      \* rmap[page]: the logical page a physical page holds
  status,    \* pg->status
  vpc,       \* line->vpc: valid pages
  ipc,       \* line->ipc: invalid pages
  rpc,       \* line->rpc: reserved pages
  free,      \* free_line_list, in order
  full,      \* full_line_list
  victim,    \* victim_line_pq: the lines with pos # 0
  wp,        \* next page of the user and of the GC write pointer
  noSpace,   \* device_full / pslc_full
  credits,   \* write_credits
  refill,    \* credits_to_refill
  written,   \* pages of each zone flushed since its last reset
  job,       \* the collection or reset in progress
  halted,    \* an NVMEV_ASSERT failed
  reused     \* history: a line was taken that is not erased all over

tables == <<maptbl, rmap, status, vpc, ipc>>
lines  == <<free, full, victim>>
flow   == <<credits, refill>>
vars   == <<ns, tables, rpc, lines, wp, noSpace, flow, written, job, halted, reused>>

Mapping    == ns.mapping
NrLines    == ns.lines
PgsPerLine == ns.pages
LineGroups == ns.groups
PgsPerRow  == ns.rowPages
PlsPerLun  == ns.planes

Lines == 0 .. NrLines - 1
Offs  == 0 .. PgsPerLine - 1
Pages == Lines \X Offs
Zones == Lines
Lpns  == Zones \X Offs

UNMAPPED_PPA == <<-1, 0>>
RSV_PPA      == <<-1, 1>>
INVALID_LPN  == <<-1, 0>>
NoPage       == UNMAPPED_PPA     \* a write pointer whose curline is NULL
NoLine       == -1

Writers == {"USER", "GC"}

\* ppa_2_pgidx: the lines of a group share rows, so the index of a page
\* counts the wordlines of every group.
PgIdx(p) == p[1] * PgsPerLine + (p[2] \div PgsPerRow) * LineGroups * PgsPerRow
              + (p[1] % LineGroups) * PgsPerRow + (p[2] % PgsPerRow)

OutOfRange(p) == PgIdx(p) >= NrLines * PgsPerLine

\* The plane a page is on (a wordline visits the planes in turn).
PlaneOf(p) == p[2] % PlsPerLun

JobKinds == {"idle", "collect", "gc", "reset", "erase"}
Idle     == [kind |-> "idle", at |-> NoPage, first |-> NoLine]

-----------------------------------------------------------------------------
Init ==
  /\ ns \in Namespaces
  /\ maptbl  = [lpn \in Lpns |-> UNMAPPED_PPA]
  /\ rmap    = [p \in Pages |-> INVALID_LPN]
  /\ status  = [p \in Pages |-> "FREE"]
  /\ vpc     = [l \in Lines |-> 0]
  /\ ipc     = [l \in Lines |-> 0]
  /\ rpc     = [l \in Lines |-> 0]
  /\ free    = [i \in 1 .. NrLines |-> i - 1]
  /\ full    = {}
  /\ victim  = {}
  /\ wp      = [w \in Writers |-> NoPage]
  /\ noSpace = FALSE
  /\ credits = PgsPerLine
  /\ refill  = PgsPerLine
  /\ written = [z \in Zones |-> 0]
  /\ job     = Idle
  /\ halted  = FALSE
  /\ reused  = FALSE

-----------------------------------------------------------------------------
(* Pages.                                                                  *)

mapped(p) == p \in Pages

\* Mutation: an invalidated page keeps its reverse entry.
SetRmapKeepsStale(rm, p, lpn) ==
  IF OutOfRange(p) \/ lpn = INVALID_LPN THEN rm ELSE [rm EXCEPT ![p] = lpn]

\* set_rmap_ent drops an entry beyond the table.
SetRmap(rm, p, lpn) == IF OutOfRange(p) THEN rm ELSE [rm EXCEPT ![p] = lpn]

\* mark_page_valid refuses a page that is not free: neither the page nor the
\* count of its line changes.
MarkValid(st, p) == IF st[p] = "FREE" THEN [st EXCEPT ![p] = "VALID"] ELSE st
CountValid(st, vp, p) ==
  IF st[p] = "FREE" THEN [vp EXCEPT ![p[1]] = @ + 1] ELSE vp

\* The tables after logical page lpn is put at p, starting from tables mt,
\* rm, st, vp.
PutPage(lpn, p, mt, rm, st, vp) ==
  /\ maptbl' = [mt EXCEPT ![lpn] = p]
  /\ rmap'   = SetRmap(rm, p, lpn)
  /\ status' = MarkValid(st, p)
  /\ vpc'    = CountValid(st, vp, p)

-----------------------------------------------------------------------------
(* Write pointers.                                                         *)

\* Mutation: the successor is the page itself.
NextPageStays(p) == p

NextPage(p) == <<p[1], p[2] + 1>>

\* get_new_page: a write pointer without a line takes the first free one.
CanOpen(w)  == wp[w] # NoPage \/ free # <<>>
PageOf(w)   == IF wp[w] # NoPage THEN wp[w] ELSE <<Head(free), 0>>
FreeLeft(w) == IF wp[w] # NoPage THEN free ELSE Tail(free)

\* Mutation: one invalid page does not count.
NothingInvalidOrOne(l) == vpc'[l] + rpc'[l] >= PgsPerLine - 1

NothingInvalid(l) == vpc'[l] + rpc'[l] = PgsPerLine

\* get_new_wp and the get_new_page after it: line l is used up; with valid
\* and reserved pages only it is full, else it can be collected.  Without a
\* free line the namespace is full and init_write_pointer's assertion fails.
LeaveLine(w, l) ==
  /\ IF NothingInvalid(l)
       THEN full' = full \cup {l} /\ UNCHANGED victim
       ELSE victim' = victim \cup {l} /\ UNCHANGED full
  /\ LET left == FreeLeft(w)
     IN  IF left = <<>>
           THEN /\ wp' = [wp EXCEPT ![w] = NoPage]
                /\ free' = left
                /\ noSpace' = TRUE
                /\ halted' = TRUE
           ELSE /\ wp' = [wp EXCEPT ![w] = <<Head(left), 0>>]
                /\ free' = Tail(left)
                /\ noSpace' = (OutOfRange(<<l, PgsPerLine - 1>>)
                                 \/ OutOfRange(<<Head(left), 0>>))
                /\ UNCHANGED halted

\* advance_write_pointer past page p.  A page whose index is beyond the
\* tables sets the full flag (get_current_page).
Advance(w, p) ==
  IF p[2] = PgsPerLine - 1
    THEN LeaveLine(w, p[1])
    ELSE LET next == NextPage(p)
         IN  /\ wp' = [wp EXCEPT ![w] = next]
             /\ free' = FreeLeft(w)
             /\ noSpace' = (OutOfRange(p) \/ OutOfRange(next))
             /\ UNCHANGED <<full, victim, halted>>

\* init_write_pointer: NVMEV_ASSERT(curline) fails, the kernel stops.
AssertCurline(w) ==
  /\ ~CanOpen(w)
  /\ noSpace' = TRUE
  /\ halted' = TRUE
  /\ UNCHANGED <<tables, rpc, lines, wp, flow, written, job>>

-----------------------------------------------------------------------------
(* A page flushed from a write buffer (nand_write with USER_IO).           *)

\* Every write takes a credit, a write that finds none left collects; on a
\* full namespace nand_write returns before it.
Charge ==
  /\ credits' = IF noSpace' THEN credits ELSE credits - 1
  /\ job' = IF ~noSpace' /\ credits - 1 <= 0 THEN [Idle EXCEPT !.kind = "collect"] ELSE Idle
  /\ UNCHANGED refill

\* Bound: the host stops once a write pointer has taken a line that is not
\* erased all over; lists that share an entry and counters below zero, which
\* follow, are not modelled.
CanWrite(z) ==
  /\ job = Idle
  /\ ~halted
  /\ ~reused
  /\ ~noSpace                      \* handle_write_request turns it down
  /\ credits >= -ns.maxDebt
  /\ z \in ns.hostZones
  /\ written[z] < PgsPerLine

\* Page mapping: the page the user write pointer stands on.
WritePage(z) ==
  /\ Mapping = "PAGE"
  /\ CanWrite(z)
  /\ CanOpen("USER")
  /\ LET lpn == <<z, written[z]>>
         p   == PageOf("USER")
     IN  /\ PutPage(lpn, p, maptbl, rmap, status, vpc)
         /\ UNCHANGED <<ipc, rpc>>
         /\ Advance("USER", p)
  /\ Charge
  /\ written' = [written EXCEPT ![z] = @ + 1]

\* Zone mapping, first page of a zone (update_or_reserve_mapping): the rest
\* of the zone is marked reserved and the write pointer skips the whole line,
\* which a zone exactly fills.
ReserveZone(z) ==
  /\ Mapping = "ZONE"
  /\ CanWrite(z)
  /\ ~mapped(maptbl[<<z, 0>>])
  /\ CanOpen("USER")
  /\ LET p        == PageOf("USER")
         reserved == [lpn \in Lpns |-> IF lpn[1] = z THEN RSV_PPA ELSE maptbl[lpn]]
     IN  /\ PutPage(<<z, 0>>, p, reserved, rmap, status, vpc)
         /\ rpc' = [rpc EXCEPT ![p[1]] = @ + (PgsPerLine - 1)]
         /\ UNCHANGED ipc
         /\ LeaveLine("USER", p[1])
  /\ Charge
  /\ written' = [written EXCEPT ![z] = 1]

\* Zone mapping, a later page (update_mapping_if_reserved): the page after
\* its predecessor.
WriteReserved(z) ==
  /\ Mapping = "ZONE"
  /\ CanWrite(z)
  /\ LET lpn  == <<z, written[z]>>
         prev == maptbl[<<z, written[z] - 1>>]
         p    == NextPage(prev)
     IN  /\ written[z] > 0
         /\ mapped(prev)
         /\ maptbl[lpn] = RSV_PPA
         /\ mapped(p)
         /\ PutPage(lpn, p, maptbl, rmap, status, vpc)
         /\ rpc' = [rpc EXCEPT ![p[1]] = @ - 1]
  /\ UNCHANGED <<ipc, lines, wp, noSpace, halted>>
  /\ Charge
  /\ written' = [written EXCEPT ![z] = @ + 1]

-----------------------------------------------------------------------------
(* Garbage collection (foreground_gc, do_gc).                              *)

ShouldGcHigh == Len(free) <= GcThresLinesHigh

\* While more than the threshold of lines is free the credits of a whole line
\* are handed out; below it a collection brings what its victim frees, and no
\* victim brings nothing.
RefillCredits ==
  /\ job.kind = "collect"
  /\ ~ShouldGcHigh
  /\ refill' = PgsPerLine
  /\ credits' = credits + PgsPerLine
  /\ job' = Idle
  /\ UNCHANGED <<tables, rpc, lines, wp, noSpace, written, halted>>

NoVictim ==
  /\ job.kind = "collect"
  /\ ShouldGcHigh
  /\ victim = {}
  /\ refill' = 0
  /\ job' = Idle
  /\ UNCHANGED <<tables, rpc, lines, wp, noSpace, credits, written, halted>>

\* select_victim_line: the head of the priority queue, a line with the
\* fewest valid pages.
SelectVictim ==
  /\ job.kind = "collect"
  /\ ShouldGcHigh
  /\ \E v \in victim :
       /\ \A l \in victim : vpc[v] <= vpc[l]
       /\ victim' = victim \ {v}
       /\ refill' = ipc[v] + rpc[v]
       /\ job' = [kind |-> "gc", at |-> <<v, 0>>, first |-> NoLine]
  /\ UNCHANGED <<tables, rpc, free, full, wp, noSpace, credits, written, halted>>

InVictim == job.kind = "gc" /\ job.at[2] < PgsPerLine

NextInVictim == job' = [job EXCEPT !.at = <<@[1], @[2] + 1>>]

\* submit_internal_write walks over the victim and skips what is not valid.
SkipPage ==
  /\ InVictim
  /\ ~halted
  /\ status[job.at] # "VALID"
  /\ NextInVictim
  /\ UNCHANGED <<tables, rpc, lines, wp, noSpace, flow, written, halted>>

\* internal_write of a valid page: the old page is invalidated, the logical
\* page unmapped and written at the GC write pointer.  A line being collected
\* has invalid pages and left the queue, so no list changes with its counts.
\* On a full namespace the write is dropped and the page is lost.
MovePage ==
  /\ InVictim
  /\ ~halted
  /\ status[job.at] = "VALID"
  /\ LET lpn == rmap[job.at]
         old == maptbl[lpn]
         mt  == [maptbl EXCEPT ![lpn] = UNMAPPED_PPA]
         rm  == SetRmap(rmap, old, INVALID_LPN)
         st  == [status EXCEPT ![old] = "INVALID"]
         vp  == [vpc EXCEPT ![old[1]] = @ - 1]
     IN  /\ lpn \in Lpns
         /\ mapped(old)
         /\ ipc' = [ipc EXCEPT ![old[1]] = @ + 1]
         /\ UNCHANGED rpc
         /\ \/ /\ noSpace
               /\ maptbl' = mt /\ rmap' = rm /\ status' = st /\ vpc' = vp
               /\ UNCHANGED <<lines, wp, noSpace, halted>>
            \/ /\ ~noSpace
               /\ CanOpen("GC")
               /\ PutPage(lpn, PageOf("GC"), mt, rm, st, vp)
               /\ Advance("GC", PageOf("GC"))
  /\ NextInVictim
  /\ UNCHANGED <<flow, written>>

MoveAsserts ==
  /\ InVictim
  /\ ~halted
  /\ status[job.at] = "VALID"
  /\ ~noSpace
  /\ AssertCurline("GC")

-----------------------------------------------------------------------------
(* Erase (erase_line, mark_line_free).                                     *)

\* Mutation: the last page of the line stays as it is.
EraseBlocksShort(l) ==
  status' = [p \in Pages |->
    IF p[1] = l /\ PlaneOf(p) = 0 /\ p[2] < PgsPerLine - 1 THEN "FREE" ELSE status[p]]

\* Only the blocks of plane 0 are marked free.
EraseBlocks(l) ==
  status' = [p \in Pages |-> IF p[1] = l /\ PlaneOf(p) = 0 THEN "FREE" ELSE status[p]]

\* Mutation: the invalid pages are not forgotten.
ClearCountersKeepsInvalid(l) ==
  /\ vpc' = [vpc EXCEPT ![l] = 0]
  /\ ipc' = ipc
  /\ rpc' = [rpc EXCEPT ![l] = 0]

ClearCounters(l) ==
  /\ vpc' = [vpc EXCEPT ![l] = 0]
  /\ ipc' = [ipc EXCEPT ![l] = 0]
  /\ rpc' = [rpc EXCEPT ![l] = 0]

\* Mutation: the line stays in the victim queue.
ToFreeListKeepsQueue(l, collected) ==
  /\ free' = Append(free, l)
  /\ UNCHANGED <<victim, full>>

\* Mutation: the line is not given back.
ToFreeListLeaks(l, collected) ==
  /\ victim' = victim \ {l}
  /\ UNCHANGED <<free, full>>

\* mark_line_free: a line collected is on no list; otherwise it is taken off
\* the victim queue if it is there, or off the full list when all its pages
\* are valid.  A line under a write pointer, which would be treated apart, has
\* an unreserved page left and so is never spent.
ToFreeList(l, collected) ==
  /\ free' = Append(free, l)
  /\ victim' = IF collected \/ vpc[l] = PgsPerLine THEN victim ELSE victim \ {l}
  /\ full'   = IF ~collected /\ vpc[l] = PgsPerLine THEN full \ {l} ELSE full

EraseLine(l, collected) ==
  /\ EraseBlocks(l)
  /\ ClearCounters(l)
  /\ ToFreeList(l, collected)

\* The end of do_gc: the victim is erased and its credits are handed out.
FinishGc ==
  /\ job.kind = "gc"
  /\ job.at[2] = PgsPerLine
  /\ ~halted
  /\ EraseLine(job.at[1], TRUE)
  /\ credits' = credits + refill
  /\ job' = Idle
  /\ UNCHANGED <<maptbl, rmap, wp, noSpace, refill, written, halted>>

-----------------------------------------------------------------------------
(* Zone reset (zone_reset).                                                *)

Spent(l) == ipc[l] + rpc[l] = PgsPerLine

StartReset(z) ==
  /\ job = Idle
  /\ ~halted
  /\ ~reused                       \* the same bound
  /\ written[z] > 0
  /\ ns.partialReset \/ Mapping = "PAGE" \/ written[z] = PgsPerLine
  /\ job' = [kind |-> "reset", at |-> <<z, 0>>, first |-> NoLine]
  /\ UNCHANGED <<tables, rpc, lines, wp, noSpace, flow, written, halted>>

InZone == job.kind = "reset" /\ job.at[2] < PgsPerLine /\ mapped(maptbl[job.at])

\* mark_page_invalid, and the line is remembered as the first one; when the
\* page was the last valid one of its line, the first line is to be erased.
ResetPage ==
  /\ InZone
  /\ LET p == maptbl[job.at]
         l == p[1]
     IN  /\ maptbl' = [maptbl EXCEPT ![job.at] = UNMAPPED_PPA]
         /\ rmap'   = SetRmap(rmap, p, INVALID_LPN)
         /\ status' = [status EXCEPT ![p] = "INVALID"]
         /\ ipc'    = [ipc EXCEPT ![l] = @ + 1]
         /\ vpc'    = [vpc EXCEPT ![l] = @ - 1]
         /\ IF vpc[l] = PgsPerLine
              THEN full' = full \ {l} /\ victim' = victim \cup {l}
              ELSE UNCHANGED <<full, victim>>
         /\ job' = [kind  |-> IF ipc'[l] + rpc[l] = PgsPerLine THEN "erase" ELSE "reset",
                    at    |-> <<job.at[1], job.at[2] + 1>>,
                    first |-> IF job.first = NoLine THEN l ELSE job.first]
  /\ UNCHANGED <<rpc, free, wp, noSpace, flow, written, halted>>

\* erase_linked_lines: the first line, if nothing in it is valid any more,
\* which need not be the line that was just spent.
EraseFirst ==
  IF job.first # NoLine /\ Spent(job.first)
    THEN EraseLine(job.first, FALSE)
    ELSE UNCHANGED <<status, vpc, ipc, rpc, lines>>

ResetErase ==
  /\ job.kind = "erase"
  /\ EraseFirst
  /\ job' = [job EXCEPT !.kind = "reset", !.first = NoLine]
  /\ UNCHANGED <<maptbl, rmap, wp, noSpace, flow, written, halted>>

FinishReset ==
  /\ job.kind = "reset"
  /\ ~InZone
  /\ EraseFirst
  /\ written' = [written EXCEPT ![job.at[1]] = 0]
  /\ job' = Idle
  /\ UNCHANGED <<maptbl, rmap, wp, noSpace, flow, halted>>

-----------------------------------------------------------------------------
Collect == RefillCredits \/ NoVictim \/ SelectVictim
Gc      == SkipPage \/ MovePage \/ MoveAsserts \/ FinishGc
Reset   == ResetPage \/ ResetErase \/ FinishReset

Step ==
  \/ \E z \in Zones : WritePage(z) \/ ReserveZone(z) \/ WriteReserved(z) \/ StartReset(z)
  \/ Collect
  \/ Gc
  \/ Reset

\* get_next_free_line hands out whatever line is first, get_new_page whatever
\* page is next: no pg->status is looked at.
OnFreeList(l) == \E i \in DOMAIN free : free[i] = l
Taken(l)      == OnFreeList(l) /\ ~OnFreeList(l)'
Record ==
  reused' = (reused \/ \E l \in Lines : Taken(l) /\ \E o \in Offs : status[<<l, o>>] # "FREE")

Next == Step /\ Record /\ UNCHANGED ns

Spec == Init /\ [][Next]_vars

-----------------------------------------------------------------------------
(* Properties.  They end when a write pointer takes a line that is not     *)
(* erased all over, which happens on dies of several planes only.          *)

\* Every variable keeps its type; counters stay within a line.
TypeOK ==
  /\ ns \in Namespaces
  /\ maptbl \in [Lpns -> Pages \cup {UNMAPPED_PPA, RSV_PPA}]
  /\ rmap \in [Pages -> Lpns \cup {INVALID_LPN}]
  /\ status \in [Pages -> {"FREE", "VALID", "INVALID"}]
  /\ vpc \in [Lines -> 0 .. PgsPerLine]
  /\ ipc \in [Lines -> 0 .. PgsPerLine]
  /\ rpc \in [Lines -> 0 .. PgsPerLine]
  /\ free \in Seq(Lines)
  /\ full \subseteq Lines
  /\ victim \subseteq Lines
  /\ wp \in [Writers -> Pages \cup {NoPage}]
  /\ noSpace \in BOOLEAN
  /\ credits \in Int
  /\ refill \in 0 .. PgsPerLine
  /\ written \in [Zones -> 0 .. PgsPerLine]
  /\ job \in [kind : JobKinds, at : (Zones \X (0 .. PgsPerLine)) \cup {NoPage},
              first : Lines \cup {NoLine}]
  /\ halted \in BOOLEAN
  /\ reused \in BOOLEAN

\* Every line is in exactly one place: once on the free list, on the full
\* list, in the victim queue, under one write pointer, or being collected.
\* A line on two lists would corrupt both, a line on none is lost for ever.
Places(l) ==
  Cardinality({i \in DOMAIN free : free[i] = l})
  + Cardinality({n \in {"full"} : l \in full})
  + Cardinality({n \in {"victim"} : l \in victim})
  + Cardinality({w \in Writers : wp[w] # NoPage /\ wp[w][1] = l})
  + Cardinality({n \in {"gc"} : job.kind = "gc" /\ job.at[1] = l})

LineCensus == ~reused => TypeOK /\ \A l \in Lines : Places(l) = 1

\* The counters of a line, which decide where it goes, what a collection
\* chooses and when a line is erased, are those of its pages; reserved pages
\* are the free pages of a line the write pointer has left.  A line on the
\* free list starts from zero.
CountersMatchPages ==
  ~reused =>
    \A l \in Lines :
      LET Having(s) == IF OnFreeList(l) THEN 0 ELSE Cardinality({i \in Offs : status[<<l, i>>] = s})
          left == l \in full \cup victim \/ (job.kind = "gc" /\ job.at[1] = l)
      IN  /\ vpc[l] = Having("VALID")
          /\ ipc[l] = Having("INVALID")
          /\ rpc[l] = IF left THEN Having("FREE") ELSE 0

\* The mapping table and the reverse map are inverse to each other, and the
\* pages they join are exactly the valid ones: a collection that follows the
\* reverse map finds every live page and no dead one.
MappingsAgree ==
  ~reused =>
    /\ \A lpn \in Lpns : mapped(maptbl[lpn]) => rmap[maptbl[lpn]] = lpn
    /\ \A p \in Pages :
         IF status[p] = "VALID" THEN rmap[p] \in Lpns /\ maptbl[rmap[p]] = p
                                ELSE rmap[p] = INVALID_LPN

\* A line on the free list is erased: its pages can be programmed.  Claimed of
\* every device it fails where dies have several planes.
FreeLinesErased == \A i \in DOMAIN free, o \in Offs : status[<<free[i], o>>] = "FREE"

\* On dies of one plane free lines are erased, so none is taken that is not.
OnePlaneErased == PlsPerLun = 1 => FreeLinesErased /\ ~reused

\* The full list holds lines without invalid pages, the victim queue only
\* lines a collection gains from, unless it is about to be erased.
ListsMatchCounters ==
  ~reused =>
    /\ \A l \in full   : ipc[l] = 0 /\ vpc[l] + rpc[l] = PgsPerLine
    /\ \A l \in victim : ipc[l] > 0 /\ vpc[l] + rpc[l] < PgsPerLine

\* A host leaves room when it leaves a line to each write pointer, and one
\* more to page mapping, where a line in use need not be a zone in use.
Roomy == Cardinality(ns.hostZones) + (IF Mapping = "PAGE" THEN 3 ELSE 1) <= NrLines

\* A line with pages whose index is beyond the tables is in use.  Only lines
\* that share rows have such pages.
UsesBeyond == \E p \in Pages : OutOfRange(p) /\ ~OnFreeList(p[1])

\* With room no assertion fails: what the zones hold always fits, and a
\* collection always has a line to move to.  The namespace becomes full only
\* once it uses pages beyond the tables.
AlwaysRoom ==
  [][Roomy /\ ~reused' => ~halted' /\ (noSpace' => noSpace \/ UsesBeyond')]_vars

\* What can be read back of a zone: mapped to a valid page that the reverse
\* map attributes to it.  A reset takes effect when it starts.
Resetting(z) == job.kind \in {"reset", "erase"} /\ job.at[1] = z
Readable(z) ==
  {i \in Offs : LET p == maptbl[<<z, i>>]
                IN  mapped(p) /\ status[p] = "VALID" /\ rmap[p] = <<z, i>>}

AllZones == UNION {n.hostZones : n \in Namespaces}
Held(z)  == IF z \in ns.hostZones /\ ~Resetting(z) THEN Readable(z) ELSE {}

Store == INSTANCE ZoneStore WITH Zones  <- AllZones,
                                 held   <- [z \in AllZones |-> Held(z)],
                                 failed <- noSpace \/ reused

\* The translation layer implements the abstract store: flushed pages stay
\* readable through collections and through resets of other zones, until the
\* namespace is full or takes a line that is not erased all over.
ImplementsStore == Store!Spec

=============================================================================
