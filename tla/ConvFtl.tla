------------------------------- MODULE ConvFtl -------------------------------
(***************************************************************************)
(* The page-mapped translation layer of the conventional devices           *)
(* (conv_ftl.c), one partition: mapping table, reverse map, page states,   *)
(* line lists with the heap of victim lines (PQueue), write pointers,      *)
(* write credits and the collection that a write out of credits runs.      *)
(*                                                                         *)
(* The dispatcher handles one command at a time.  The write of one logical *)
(* page is one step; the collection it may start moves page by page, and   *)
(* nothing else runs meanwhile (job).  Physical pages are <<line, offset>>,*)
(* offsets counted in the order the write pointer visits the pages.        *)
(***************************************************************************)
EXTENDS Integers, Sequences, FiniteSets, PQueue

CONSTANTS
  NrLines,        \* spp.tt_lines
  PgsPerLine,     \* spp.pgs_per_line
  Lpns,           \* logical pages, what the spare area leaves
  GcThresLinesHigh,
  INVALID_LPN     \* no logical page

ASSUME GeometryAssumption ==
  /\ NrLines \in Nat \ {0, 1}
  /\ PgsPerLine \in Nat \ {0}
  /\ GcThresLinesHigh \in Nat
  /\ INVALID_LPN \notin Lpns

VARIABLES
  maptbl,    \* maptbl[lpn]: where a logical page is
  rmap,      \* rmap[page]: the logical page a physical page holds
  status,    \* pg->status
  vpc, ipc,  \* line->vpc, line->ipc
  free,      \* free_line_list, in order
  full,      \* full_line_list
  victim_pq, \* victim_line_pq, with line->pos of all lines
  wp,        \* next page of the user and of the GC write pointer
  credits,   \* write_credits
  refill,    \* credits_to_refill
  job,       \* the collection in progress
  halted     \* an assertion failed or a write pointer is without a line

tables == <<maptbl, rmap, status>>
counts == <<vpc, ipc>>
flow   == <<credits, refill>>
vars   == <<tables, counts, free, full, victim_pq, wp, flow, job, halted>>

Lines == 0 .. NrLines - 1
Offs  == 0 .. PgsPerLine - 1
Pages == Lines \X Offs

UNMAPPED_PPA == <<-1, 0>>
NoPage       == UNMAPPED_PPA
Idle         == [kind |-> "idle", at |-> NoPage]

Writers == {"USER", "GC"}

mapped_ppa(p) == p # UNMAPPED_PPA

\* conv_init_ftl: the two write pointers take the first two lines.
Init ==
  /\ maptbl = [lpn \in Lpns |-> UNMAPPED_PPA]
  /\ rmap = [p \in Pages |-> INVALID_LPN]
  /\ status = [p \in Pages |-> "FREE"]
  /\ vpc = [l \in Lines |-> 0]
  /\ ipc = [l \in Lines |-> 0]
  /\ free = [i \in 1 .. NrLines - 2 |-> i + 1]
  /\ full = {}
  /\ victim_pq = [d |-> <<>>, pos |-> [l \in Lines |-> 0]]
  /\ wp = [w \in Writers |-> IF w = "USER" THEN <<0, 0>> ELSE <<1, 0>>]
  /\ credits = PgsPerLine
  /\ refill = PgsPerLine
  /\ job = Idle
  /\ halted = FALSE

-----------------------------------------------------------------------------
(* mark_page_invalid, on counters and lists.                               *)

\* Mutation: a line that is in the queue keeps its place there.
QueueAfterInvalidStays(l, vp) ==
  IF vpc[l] = PgsPerLine THEN pqueue_insert(victim_pq, l, vp) ELSE victim_pq

\* A line in the queue moves up, a full line enters it.
QueueAfterInvalid(l, vp) ==
  IF victim_pq.pos[l] # 0 THEN pqueue_change_priority(victim_pq, l, vpc[l], vp)
  ELSE IF vpc[l] = PgsPerLine THEN pqueue_insert(victim_pq, l, vp)
  ELSE victim_pq

NoOld(lpn) == ~mapped_ppa(maptbl[lpn])

\* Mutation: the old page stays valid.
AfterStaysValid(lpn) ==
  [rmap |-> rmap, status |-> status, vpc |-> vpc, ipc |-> ipc, full |-> full,
   pq |-> victim_pq]

\* What the write of a logical page finds, once its old page is given up
\* (mark_page_invalid, set_rmap_ent).
After(lpn) ==
  LET p  == maptbl[lpn]
      l  == p[1]
      vp == [vpc EXCEPT ![l] = @ - 1]
  IN  IF NoOld(lpn)
        THEN [rmap |-> rmap, status |-> status, vpc |-> vpc, ipc |-> ipc,
              full |-> full, pq |-> victim_pq]
        ELSE [rmap   |-> [rmap EXCEPT ![p] = INVALID_LPN],
              status |-> [status EXCEPT ![p] = "INVALID"],
              vpc    |-> vp,
              ipc    |-> [ipc EXCEPT ![l] = @ + 1],
              full   |-> full \ {l},
              pq     |-> QueueAfterInvalid(l, vp)]

-----------------------------------------------------------------------------
(* Writing a page at a write pointer, from tables and lists s (as After).  *)

\* Mutation: one page may have been invalidated.
AllValidButOne(l, vp) == vp[l] >= PgsPerLine - 1

AllValid(l, vp) == vp[l] = PgsPerLine

\* advance_write_pointer past page p, the counts being vp and ip: a line used
\* up goes to the full list or into the queue, and the next free line is
\* taken; without one the source goes on with a null pointer.
Advance(w, p, s, vp) ==
  IF p[2] < PgsPerLine - 1
    THEN /\ wp' = [wp EXCEPT ![w] = <<p[1], p[2] + 1>>]
         /\ full' = s.full
         /\ victim_pq' = s.pq
         /\ UNCHANGED <<free, halted>>
    ELSE /\ IF AllValid(p[1], vp)
              THEN full' = s.full \cup {p[1]} /\ victim_pq' = s.pq
              ELSE full' = s.full /\ victim_pq' = pqueue_insert(s.pq, p[1], vp)
         /\ free' = IF free = <<>> THEN free ELSE Tail(free)
         /\ wp' = [wp EXCEPT ![w] = IF free = <<>> THEN NoPage ELSE <<Head(free), 0>>]
         /\ halted' = (free = <<>> \/ (~AllValid(p[1], vp) /\ s.ipc[p[1]] = 0))

\* get_new_page, the tables, mark_page_valid, advance_write_pointer.
PutPage(w, lpn, s) ==
  LET p  == wp[w]
      vp == [s.vpc EXCEPT ![p[1]] = @ + 1]
  IN  /\ maptbl' = [maptbl EXCEPT ![lpn] = p]
      /\ rmap' = [s.rmap EXCEPT ![p] = lpn]
      /\ status' = [s.status EXCEPT ![p] = "VALID"]
      /\ vpc' = vp
      /\ ipc' = s.ipc
      /\ Advance(w, p, s, vp)

\* conv_write of one page: without credits left a collection is due.
WritePage(lpn) ==
  /\ job = Idle
  /\ ~halted
  /\ PutPage("USER", lpn, After(lpn))
  /\ credits' = credits - 1
  /\ job' = IF credits' <= 0 THEN [Idle EXCEPT !.kind = "collect"] ELSE Idle
  /\ UNCHANGED refill

-----------------------------------------------------------------------------
(* foreground_gc and do_gc.                                                *)

should_gc_high == Len(free) <= GcThresLinesHigh

\* With free lines left, or with no line worth collecting, the credits are
\* those of last time.
RefillCredits ==
  /\ job.kind = "collect"
  /\ ~halted
  /\ ~should_gc_high \/ pqueue_size(victim_pq) = 0
  /\ credits' = credits + refill
  /\ job' = Idle
  /\ UNCHANGED <<tables, counts, free, full, victim_pq, wp, refill, halted>>

\* Mutation: the pages that have to be moved count as well.
GainWholeLine(v) == PgsPerLine

\* What the collection of v brings.
Gain(v) == ipc[v]

\* select_victim_line with force.
SelectVictim ==
  /\ job.kind = "collect"
  /\ ~halted
  /\ should_gc_high
  /\ pqueue_size(victim_pq) > 0
  /\ LET v == pqueue_peek(victim_pq)
     IN  /\ victim_pq' = [pqueue_pop(victim_pq, vpc) EXCEPT !.pos[v] = 0]
         /\ refill' = Gain(v)
         /\ job' = [kind |-> "gc", at |-> <<v, 0>>]
  /\ UNCHANGED <<tables, counts, free, full, wp, credits, halted>>

InVictim == job.kind = "gc" /\ job.at[2] < PgsPerLine /\ ~halted
NextInVictim == job' = [job EXCEPT !.at[2] = @ + 1]

SkipPage ==
  /\ InVictim
  /\ status[job.at] # "VALID"
  /\ NextInVictim
  /\ UNCHANGED <<tables, counts, free, full, victim_pq, wp, flow, halted>>

\* gc_write_page: the logical page is found in the reverse map; the old page
\* stays as it is until its block is erased.
MovePage ==
  /\ InVictim
  /\ status[job.at] = "VALID"
  /\ PutPage("GC", rmap[job.at],
             [rmap |-> rmap, status |-> status, vpc |-> vpc, ipc |-> ipc,
              full |-> full, pq |-> victim_pq])
  /\ NextInVictim
  /\ UNCHANGED flow

\* mark_block_free of the victim's blocks and mark_line_free; the reverse
\* entries of the erased pages stay.  The code frees the block of a die in the
\* round of the last flash page, before it moves the last pages of the dies
\* that follow; it looks at no page of a freed block again, and here all are
\* freed when all pages have been moved.
FinishGc ==
  /\ job.kind = "gc"
  /\ job.at[2] = PgsPerLine
  /\ ~halted
  /\ LET v == job.at[1]
     IN  /\ status' = [p \in Pages |-> IF p[1] = v THEN "FREE" ELSE status[p]]
         /\ vpc' = [vpc EXCEPT ![v] = 0]
         /\ ipc' = [ipc EXCEPT ![v] = 0]
         /\ free' = Append(free, v)
  /\ credits' = credits + refill
  /\ job' = Idle
  /\ UNCHANGED <<maptbl, rmap, full, victim_pq, wp, refill, halted>>

-----------------------------------------------------------------------------
Next ==
  \/ \E lpn \in Lpns : WritePage(lpn)
  \/ RefillCredits \/ SelectVictim \/ SkipPage \/ MovePage \/ FinishGc

Spec == Init /\ [][Next]_vars

-----------------------------------------------------------------------------
(* Properties.                                                             *)

TypeOK ==
  /\ maptbl \in [Lpns -> Pages \cup {UNMAPPED_PPA}]
  /\ rmap \in [Pages -> Lpns \cup {INVALID_LPN}]
  /\ status \in [Pages -> {"FREE", "VALID", "INVALID"}]
  /\ vpc \in [Lines -> 0 .. PgsPerLine]
  /\ ipc \in [Lines -> 0 .. PgsPerLine]
  /\ free \in Seq(Lines)
  /\ full \subseteq Lines
  /\ victim_pq \in [d : Seq(Lines), pos : [Lines -> 0 .. NrLines]]
  /\ wp \in [Writers -> Pages \cup {NoPage}]
  /\ credits \in 0 .. NrLines * PgsPerLine
  /\ refill \in 0 .. PgsPerLine
  /\ job \in [kind : {"idle", "collect", "gc"}, at : Lines \X (0 .. PgsPerLine) \cup {NoPage}]
  /\ halted \in BOOLEAN

\* The queue of victims is a heap by valid pages, every line in it knows its
\* place and no other line claims one: overwrites change the priority of a
\* line deep in the heap, and pos is what finds it there and what
\* mark_page_invalid takes for membership.
QueueIsHeap ==
  /\ TypeOK
  /\ pqueue_is_valid(victim_pq, vpc)
  /\ PositionsRight(victim_pq)
  /\ \A l \in Lines : victim_pq.pos[l] # 0 => \E i \in DOMAIN victim_pq.d : victim_pq.d[i] = l

\* Every line is in exactly one place, and its counters are those of its
\* pages: also when a write pointer leaves a line that lost pages meanwhile.
Places(l) ==
  Cardinality({i \in DOMAIN free : free[i] = l})
  + Cardinality({i \in DOMAIN victim_pq.d : victim_pq.d[i] = l})
  + Cardinality({l} \cap full)
  + Cardinality({w \in Writers : wp[w] # NoPage /\ wp[w][1] = l})
  + Cardinality({n \in {"gc"} : job.kind = "gc" /\ job.at[1] = l})

LinesAccounted ==
  \A l \in Lines :
    LET Having(s) == Cardinality({i \in Offs : status[<<l, i>>] = s})
    IN  /\ Places(l) = 1
        /\ vpc[l] = Having("VALID") /\ ipc[l] = Having("INVALID")
        /\ l \in full => vpc[l] = PgsPerLine

\* A written page stays where the tables say: at a valid page that the reverse
\* map gives back to it.  A valid page holds a current logical page unless it
\* was just moved out of the victim, although reverse entries of erased pages
\* are never cleared.
Current(p) == rmap[p] \in Lpns /\ maptbl[rmap[p]] = p
Moved(p)   == job.kind = "gc" /\ p[1] = job.at[1] /\ p[2] < job.at[2]

MappedPagesLive ==
  /\ \A lpn \in Lpns : mapped_ppa(maptbl[lpn]) =>
       status[maptbl[lpn]] = "VALID" /\ rmap[maptbl[lpn]] = lpn
  /\ \A p \in Pages : status[p] = "VALID" /\ ~Moved(p) => Current(p)

\* With the spare area left no write pointer is ever without a line, and no
\* assertion about a line that is used up fails: the credits handed out are
\* covered by free pages.
NeverOutOfLines == ~halted

\* What the spare area must be for that: with f lines full of valid pages, as
\* many as there are logical pages for, five lines less two pages are left,
\* and a collection is due while two lines or more are free.
Spare ==
  /\ GcThresLinesHigh >= 2
  /\ IsFiniteSet(Lpns)
  /\ \A f \in 0 .. Cardinality(Lpns) :
       f * PgsPerLine <= Cardinality(Lpns) => (f + 5) * PgsPerLine <= NrLines * PgsPerLine + 2

=============================================================================
