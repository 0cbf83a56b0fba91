---------------------------- MODULE WriteBuffers ----------------------------
(***************************************************************************)
(* The write buffers of a zoned namespace (zms_read_write.c, ssd.c): a few *)
(* buffers are shared by all zones.  A write takes the buffer of its zone, *)
(* an idle one, or empties the fullest; a full buffer is flushed to the    *)
(* NAND.  The buffer stays busy until the I/O worker performs the release  *)
(* that the write scheduled; until then writes that need it are put off    *)
(* and tried again at the next round over the submission queues.           *)
(*                                                                         *)
(* The dispatcher thread does everything but the releases, which the       *)
(* worker thread performs at any moment, also while the dispatcher looks   *)
(* at one buffer after the other.  Offsets are pages of a zone.            *)
(***************************************************************************)
EXTENDS Integers, FiniteSets

CONSTANTS
  NrZones,      \* zones of the namespace
  PgsPerZone,   \* capacity of a zone
  NrWb,         \* zp.nr_wb
  WbPgs,        \* write_buffer->tt_lpns: pages of a buffer
  NrSq,         \* submission queues
  MaxPgs        \* bound: pages of a write

ASSUME SizesAssumption == /\ NrZones \in Nat \ {0} /\ PgsPerZone \in Nat \ {0}
                          /\ NrWb \in Nat \ {0}    /\ WbPgs \in Nat \ {0}
                          /\ NrSq \in Nat \ {0}    /\ MaxPgs \in Nat \ {0}

VARIABLES
  wp,             \* write pointer of each zone
  flushed,        \* pages of each zone that buffer_flush gave to the NAND
  write_buffer,   \* zid, lpns[0] (start) and pgs of each buffer
  busy,           \* write_buffer[i].busy
  releases,       \* releases of each buffer scheduled and not yet performed
  waiting,        \* the zone of the write that was put off at the head of each
                  \* queue; the rest of the write does not change, and is chosen
                  \* when it matters
  handler         \* qid: the queue whose turn it is; seen: the buffers that
                  \* were busy when its command was taken up

zones  == <<wp, flushed>>
wbVars == <<zones, write_buffer, busy, releases, waiting, handler>>

NONE     == -1
Zones    == 0 .. NrZones - 1
Wbs      == 0 .. NrWb - 1
Queues   == 1 .. NrSq
Empty    == [zid |-> NONE, start |-> 0, pgs |-> 0]
First(S) == CHOOSE i \in S : \A j \in S : i <= j

WbInit ==
  /\ wp = [z \in Zones |-> 0]
  /\ flushed = [z \in Zones |-> 0]
  /\ write_buffer = [i \in Wbs |-> Empty]
  /\ busy = [i \in Wbs |-> FALSE]
  /\ releases = [i \in Wbs |-> 0]
  /\ waiting = [q \in Queues |-> NONE]
  /\ handler = [qid |-> 1, pc |-> "poll", seen |-> {}]

-----------------------------------------------------------------------------
(* The host.  A queue may hold anything, or nothing; what a new command is *)
(* matters only once it is handled, so it is chosen then.  A write is at   *)
(* any offset (a write of another queue may have come first); an append is *)
(* a write at the write pointer, for that is what the handler makes of it. *)

Writes == [pgs : 1 .. MaxPgs, at : 0 .. PgsPerZone]

-----------------------------------------------------------------------------
(* The dispatcher: nvmev_proc_dbs goes over the queues.                    *)

Turn      == waiting[handler.qid]
NextQueue == handler' = [qid |-> (handler.qid % NrSq) + 1, pc |-> "poll", seen |-> {}]

\* The queue is empty, or there is nothing left in it.
SkipQueue ==
  /\ handler.pc = "poll"
  /\ Turn = NONE
  /\ NextQueue
  /\ UNCHANGED <<zones, write_buffer, busy, releases, waiting>>

\* A new command, or the write that was put off.
TakeUp ==
  /\ handler.pc = "poll"
  /\ handler' = [handler EXCEPT !.pc = "handle", !.seen = {i \in Wbs : busy[i]}]
  /\ UNCHANGED <<zones, write_buffer, busy, releases, waiting>>

Handling == handler.pc = "handle"

\* The zones of the write it may be handling, and whether it may be handling
\* another command.
OfferedZones  == IF Turn = NONE THEN Zones ELSE {Turn}
HandlingOther == Handling /\ Turn = NONE

\* Which buffers the search found busy: some of those that were busy before it
\* may have been released by the time it got to them.
Glances == {s \in SUBSET handler.seen : {i \in Wbs : busy[i]} \subseteq s}

\* An answered command is followed by what else there is in its queue
\* (nvmev_proc_io_sq); one that is put off ends the turn of the queue.
Answer    == /\ waiting' = [waiting EXCEPT ![handler.qid] = NONE]
             /\ handler' = [handler EXCEPT !.pc = "poll", !.seen = {}]
PutOff(z) == waiting' = [waiting EXCEPT ![handler.qid] = z] /\ NextQueue

\* Mutation: a buffer is the zone's only while it holds data.
OwnedWithData(z) == {i \in Wbs : write_buffer[i].zid = z /\ write_buffer[i].pgs > 0}

\* __zms_wb_get: the buffer of the zone, the first that holds no data and is
\* not busy, or, if none is busy, the fullest.
OwnedBy(z) == {i \in Wbs : write_buffer[i].zid = z}
Idle(seen) == {i \in Wbs : write_buffer[i].pgs = 0 /\ i \notin seen}
Fullest    == {i \in Wbs : \A j \in Wbs : write_buffer[j].pgs <= write_buffer[i].pgs}

zms_wb_get(z, seen) ==
  IF OwnedBy(z) # {} THEN First(OwnedBy(z))
  ELSE IF Idle(seen) # {} THEN First(Idle(seen))
  ELSE IF seen # {} THEN NONE
  ELSE First(Fullest)

\* The search assigns an idle buffer to the zone, on behalf of a read as well.
Assigned(z, seen) ==
  IF OwnedBy(z) = {} /\ Idle(seen) # {}
    THEN [write_buffer EXCEPT ![First(Idle(seen))].zid = z]
    ELSE write_buffer

\* Mutation: a busy buffer is taken again.
TakenAgain(i) == TRUE

\* buffer_allocate succeeds.
Available(i) == ~busy[i]

\* Mutation: no release is scheduled.
TakeForGood(i) == busy' = [busy EXCEPT ![i] = TRUE] /\ UNCHANGED releases

\* buffer_allocate and, when the command is through, schedule_internal_operation.
Take(i) ==
  /\ busy' = [busy EXCEPT ![i] = TRUE]
  /\ releases' = [releases EXCEPT ![i] = @ + 1]

\* What buffer_flush of the buffers in S adds to the pages of zone z.
FlushedFrom(S, z) ==
  LET own == {i \in S : write_buffer[i].zid = z /\ write_buffer[i].pgs > 0}
  IN  IF own = {} THEN 0 ELSE write_buffer[First(own)].pgs

-----------------------------------------------------------------------------
(* The dispatcher: handle_write_request of a write to zone z.              *)

\* The buffer is busy, or another one is and might do: the write is put off.
WriteWaits ==
  /\ Handling
  /\ \E z \in OfferedZones, seen \in Glances :
       LET i == zms_wb_get(z, seen)
       IN  /\ i = NONE \/ (OwnedBy(z) # {} /\ ~Available(i))
           /\ PutOff(z)
  /\ UNCHANGED <<zones, write_buffer, busy, releases>>

\* The buffer holds data of another zone: it is flushed, and the write is put
\* off until the buffer is released.
WriteEvicts ==
  /\ Handling
  /\ \E z \in OfferedZones, seen \in Glances :
       LET i == zms_wb_get(z, seen)
       IN  /\ i # NONE
           /\ Assigned(z, seen)[i].zid # z
           /\ Available(i)
           /\ Take(i)
           /\ flushed' = [y \in Zones |-> flushed[y] + FlushedFrom({i}, y)]
           /\ write_buffer' = [write_buffer EXCEPT ![i] = Empty]
           /\ PutOff(z)
  /\ UNCHANGED wp

\* zns_write_check: at the write pointer and within the zone.
WriteChecked(z, c) ==
  /\ c.at = wp[z]
  /\ wp[z] + c.pgs <= PgsPerZone

WriteRefused ==
  /\ Handling
  /\ \E z \in OfferedZones, seen \in Glances :
       LET i == zms_wb_get(z, seen)
       IN  /\ \E c \in Writes : ~WriteChecked(z, c)
           /\ i # NONE
           /\ Assigned(z, seen)[i].zid = z
           /\ Available(i)
           /\ Take(i)
           /\ write_buffer' = Assigned(z, seen)
  /\ Answer
  /\ UNCHANGED zones

\* The pages that stay in a buffer of which every full load is flushed.
Kept(pgs) == pgs % WbPgs

WriteAccepted ==
  /\ Handling
  /\ \E z \in OfferedZones, c \in Writes, seen \in Glances :
       LET i     == zms_wb_get(z, seen)
           end   == wp[z] + c.pgs
           total == write_buffer[i].pgs + c.pgs
           kept  == Kept(total)
       IN  /\ WriteChecked(z, c)
           /\ i # NONE
           /\ Assigned(z, seen)[i].zid = z
           /\ Available(i)
           /\ Take(i)
           /\ flushed' = [flushed EXCEPT ![z] = @ + total - kept]
           /\ write_buffer' = [write_buffer EXCEPT ![i] =
                IF kept = 0 THEN Empty ELSE [zid |-> z, start |-> end - kept, pgs |-> kept]]
           /\ wp' = [wp EXCEPT ![z] = end]
  /\ Answer

(* The dispatcher: the other commands. *)

\* handle_read_request: the search for a buffer that might hold the page.
Read ==
  /\ HandlingOther
  /\ \E z \in Zones, seen \in Glances : write_buffer' = Assigned(z, seen)
  /\ Answer
  /\ UNCHANGED <<zones, busy, releases>>

\* Mutation: the first page of a buffer is not found in it.
wb_hit_but_first(i, pg) == write_buffer[i].start < pg /\ pg < write_buffer[i].start + write_buffer[i].pgs

\* __zms_wb_hit
wb_hit(i, pg) == write_buffer[i].start <= pg /\ pg < write_buffer[i].start + write_buffer[i].pgs

\* zone_reset: the buffer is emptied if it holds the first page of the zone
\* that is not in the NAND.  It may be busy.
Reset ==
  /\ HandlingOther
  /\ \E z \in Zones, seen \in Glances :
       LET holds(i) == write_buffer[i].zid = z /\ wb_hit(i, flushed[z])
       IN  /\ write_buffer' = [i \in Wbs |-> IF holds(i) THEN Empty ELSE Assigned(z, seen)[i]]
           /\ wp' = [wp EXCEPT ![z] = 0]
           /\ flushed' = [flushed EXCEPT ![z] = 0]
  /\ Answer
  /\ UNCHANGED <<busy, releases>>

\* Mutation: busy buffers are left out.
DirtyAndAvailable == {i \in Wbs : write_buffer[i].pgs > 0 /\ ~busy[i]}

\* zns_flush: every buffer that holds data, busy or not.
Dirty == {i \in Wbs : write_buffer[i].pgs > 0}

Flush ==
  /\ HandlingOther
  /\ flushed' = [z \in Zones |-> flushed[z] + FlushedFrom(Dirty, z)]
  /\ write_buffer' = [i \in Wbs |-> IF i \in Dirty THEN Empty ELSE write_buffer[i]]
  /\ Answer
  /\ UNCHANGED <<wp, busy, releases>>

-----------------------------------------------------------------------------
\* The worker: buffer_release.
Release(i) ==
  /\ releases[i] > 0
  /\ releases' = [releases EXCEPT ![i] = @ - 1]
  /\ busy' = [busy EXCEPT ![i] = FALSE]
  /\ UNCHANGED <<zones, write_buffer, waiting, handler>>

Dispatch == \/ SkipQueue \/ TakeUp
            \/ WriteWaits \/ WriteEvicts \/ WriteRefused \/ WriteAccepted
            \/ Read \/ Reset \/ Flush

WbNext == Dispatch \/ (\E i \in Wbs : Release(i))

\* The dispatcher goes round the queues for ever, and the worker performs every
\* release in the end; whether there are commands is up to the host.
WbFairness == WF_wbVars(Dispatch) /\ \A i \in Wbs : WF_wbVars(Release(i))

WbSpec == WbInit /\ [][WbNext]_wbVars /\ WbFairness

-----------------------------------------------------------------------------
(* Properties.                                                             *)

\* Every variable keeps its type; a full buffer does not stay full.
WbTypeOK ==
  /\ wp \in [Zones -> 0 .. PgsPerZone] /\ flushed \in [Zones -> 0 .. PgsPerZone]
  /\ write_buffer \in [Wbs -> [zid : Zones \cup {NONE}, start : 0 .. PgsPerZone,
                               pgs : 0 .. WbPgs - 1]]
  /\ busy \in [Wbs -> BOOLEAN] /\ releases \in [Wbs -> Nat]
  /\ waiting \in [Queues -> Zones \cup {NONE}]
  /\ handler \in [qid : Queues, pc : {"poll", "handle"}, seen : SUBSET Wbs]

\* What was written to a zone and is not in the NAND is in one buffer, whole
\* and in order; buffers hold nothing else, whatever evictions, resets and
\* flushes came between the writes of a zone.
BuffersHoldTheTail ==
  /\ \A z \in Zones : flushed[z] < wp[z] =>
       \E i \in Wbs : write_buffer[i] = [zid |-> z, start |-> flushed[z], pgs |-> wp[z] - flushed[z]]
  /\ \A i \in Dirty : LET z == write_buffer[i].zid
                      IN  z \in Zones /\ write_buffer[i].pgs = wp[z] - flushed[z]

\* A buffer is busy exactly while one release of it is to come: it is released
\* neither early, for the write of somebody else, nor never.
BusyUntilReleased == \A i \in Wbs : releases[i] = IF busy[i] THEN 1 ELSE 0

\* "different zones should not share a write buffer", nor does a zone have two.
OneBufferPerZone ==
  /\ WbTypeOK
  /\ \A i, j \in Wbs : i # j /\ write_buffer[i].zid # NONE => write_buffer[i].zid # write_buffer[j].zid

\* When a flush is answered, nothing that was written before is in a buffer.
FlushLeavesNothing == [][Flush => flushed' = wp']_wbVars

\* The writes that push each other out of the buffers do not do so for ever:
\* while writes wait, some command is answered.
Answered == Handling /\ waiting'[handler.qid] = NONE /\ handler'.pc = "poll"

SomeCommandIsAnswered ==
  []<>(\A q \in Queues : waiting[q] = NONE) \/ []<><<Answered>>_wbVars

=============================================================================
