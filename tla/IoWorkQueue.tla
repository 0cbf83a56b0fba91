---------------------------- MODULE IoWorkQueue ----------------------------
(***************************************************************************)
(* The work queue of one I/O worker (io.c): the dispatcher thread puts the *)
(* commands it executed into a list ordered by target time and takes the   *)
(* finished ones out, the worker thread walks over the list, copies data   *)
(* and posts what is due.  The two share the list without a lock; the      *)
(* steps here are the reads and writes one of them can see of the other.   *)
(*                                                                         *)
(* The entries are an array chained by indices: the work list from io_seq  *)
(* to io_seq_end, the free list from free_seq to free_seq_end.  An entry   *)
(* carries a command of the host (posting it fills a completion entry) or  *)
(* an internal operation (posting it releases a write buffer).             *)
(***************************************************************************)
EXTENDS Integers, FiniteSets

CONSTANTS
  NrEntries,    \* NR_MAX_PARALLEL_IO
  QueueDepth,   \* operations the dispatcher has outstanding at most
  NrOps,        \* bound: operations issued in a behaviour
  MaxTime,      \* bound: the last instant of the clock
  MaxDelay      \* bound: how far ahead a target time lies

ASSUME EntriesAssumption == NrEntries \in Nat /\ NrEntries >= 2
ASSUME OpsAssumption     == QueueDepth \in Nat /\ NrOps \in Nat
ASSUME TimeAssumption    == MaxTime \in Nat /\ MaxDelay \in Nat

VARIABLES
  next, prev,                 \* w->next, w->prev
  op,                         \* the operation an entry carries
  nsecs_target,               \* w->nsecs_target
  is_copied, is_completed,    \* w->is_copied, w->is_completed
  io_seq, io_seq_end,         \* head and tail of the work list
  free_seq, free_seq_end,     \* head and tail of the free list
  dispatcher,                 \* where the dispatcher is, and its locals
  worker,                     \* where the worker is, and curr
  latest_nsecs,               \* the time the worker read last
  now,                        \* the clock
  issued,                     \* operations issued so far
  posted,                     \* how often each operation was posted
  lost                        \* operations dropped for want of an entry

links   == <<next, prev>>
fields  == <<op, nsecs_target>>
ends    == <<io_seq, io_seq_end>>
frees   == <<free_seq, free_seq_end>>
history == <<issued, posted, lost>>
vars    == <<links, fields, is_copied, is_completed, ends, frees, dispatcher,
             worker, latest_nsecs, now, history>>

Entries == 0 .. NrEntries - 1
NIL     == -1
Links   == Entries \cup {NIL}
Ops     == 1 .. NrOps
NoOp    == 0

\* What is reached from an entry (or NIL) by going from e to step[e] until NIL.
Reached(from, step) ==
  LET closed == {R \in SUBSET Entries : /\ from \in R \cup {NIL}
                                        /\ \A e \in R : step[e] \in R \cup {NIL}}
  IN  {e \in Entries : \A R \in closed : e \in R}

AtRest == [pc |-> "idle", first |-> NIL, last |-> NIL]

-----------------------------------------------------------------------------
\* NVMEV_IO_WORKER_INIT: every entry is free.
Init ==
  /\ next = [e \in Entries |-> IF e = NrEntries - 1 THEN NIL ELSE e + 1]
  /\ prev = [e \in Entries |-> e - 1]
  /\ op = [e \in Entries |-> NoOp]
  /\ nsecs_target = [e \in Entries |-> 0]
  /\ is_copied = [e \in Entries |-> FALSE]
  /\ is_completed = [e \in Entries |-> FALSE]
  /\ io_seq = NIL
  /\ io_seq_end = NIL
  /\ free_seq = 0
  /\ free_seq_end = NrEntries - 1
  /\ dispatcher = AtRest
  /\ worker = [pc |-> "start", curr |-> NIL]
  /\ latest_nsecs = 0
  /\ now = 0
  /\ issued = 0
  /\ posted = [o \in Ops |-> 0]
  /\ lost = {}

-----------------------------------------------------------------------------
(* The dispatcher: __enqueue_io_req, schedule_internal_operation.          *)

Outstanding == {o \in 1 .. issued : posted[o] = 0 /\ o \notin lost}

\* The last free entry is never handed out: its next is -1, which as an
\* unsigned number is not below NR_MAX_PARALLEL_IO.
EntryLeft == next[free_seq] # NIL

\* The dispatcher does not go round the whole free list while the worker
\* stands on one entry: NR_MAX_PARALLEL_IO is 16384.
NotLapped == worker.pc = "start" \/ free_seq # worker.curr

CanIssue == dispatcher.pc = "idle" /\ issued < NrOps /\ Cardinality(Outstanding) < QueueDepth

\* After a command finished entries are reclaimed.  An internal operation is
\* scheduled while a command is executed, which may then be put off (a busy
\* buffer) instead of being enqueued too, so nothing need follow it.
Afterwards(internal) == [AtRest EXCEPT !.pc = IF internal THEN "idle" ELSE "reclaim"]

\* An entry is taken off the free list and written.  The worker cannot reach
\* it before it is linked, so these writes are one step.
Allocate(target, internal) ==
  /\ CanIssue
  /\ EntryLeft
  /\ NotLapped
  /\ LET e == free_seq
     IN  /\ free_seq' = next[e]
         /\ op' = [op EXCEPT ![e] = issued + 1]
         /\ nsecs_target' = [nsecs_target EXCEPT ![e] = target]
         /\ is_completed' = [is_completed EXCEPT ![e] = FALSE]
         /\ is_copied' = [is_copied EXCEPT ![e] = internal]
         /\ prev' = [prev EXCEPT ![e] = NIL]
         /\ next' = [next EXCEPT ![e] = NIL]
         /\ dispatcher' = [pc |-> IF internal THEN "insert_internal" ELSE "insert",
                           first |-> e, last |-> NIL]
  /\ issued' = issued + 1
  /\ UNCHANGED <<ends, free_seq_end, worker, latest_nsecs, now, posted, lost>>

\* No entry: a warning, and the operation is dropped.
Drop(internal) ==
  /\ CanIssue
  /\ ~EntryLeft
  /\ issued' = issued + 1
  /\ lost' = lost \cup {issued + 1}
  /\ dispatcher' = Afterwards(internal)
  /\ UNCHANGED <<links, fields, is_copied, is_completed, ends, frees, worker,
                 latest_nsecs, now, posted>>

\* Mutation: the list is not sorted.
PlaceAtTail(target) == io_seq_end

\* __insert_req_sorted: from the tail backwards to the first entry that is due
\* already, as far as the worker told, or not later than the new one.
Place(target) ==
  LET stops == {c \in Entries : nsecs_target[c] <= latest_nsecs \/ nsecs_target[c] <= target}
      back  == [c \in Entries |-> IF c \in stops THEN NIL ELSE prev[c]]
      at    == stops \cap Reached(io_seq_end, back)
  IN  IF at = {} THEN NIL ELSE CHOOSE c \in at : TRUE

\* Mutation: an entry inserted in between forgets what follows it.
LinkAfterCuts(e, at) ==
  /\ prev' = [prev EXCEPT ![e] = at]
  /\ next' = [next EXCEPT ![at] = e]
  /\ io_seq_end' = e
  /\ UNCHANGED io_seq

\* Behind entry at, which is or is not the tail.
LinkAfter(e, at) ==
  /\ next' = [next EXCEPT ![e] = next[at], ![at] = e]
  /\ prev' = [x \in Entries |-> IF x = e THEN at
                                ELSE IF x = next[at] THEN e ELSE prev[x]]
  /\ io_seq_end' = IF next[at] = NIL THEN e ELSE io_seq_end
  /\ UNCHANGED io_seq

\* Mutation: the head of the list is not moved.
LinkFirstKeepsHead(e) ==
  /\ prev' = [prev EXCEPT ![io_seq] = e]
  /\ next' = [next EXCEPT ![e] = io_seq]
  /\ UNCHANGED ends

LinkFirst(e) ==
  /\ prev' = [prev EXCEPT ![io_seq] = e]
  /\ next' = [next EXCEPT ![e] = io_seq]
  /\ io_seq' = e
  /\ UNCHANGED io_seq_end

Insert ==
  /\ dispatcher.pc \in {"insert", "insert_internal"}
  /\ LET e == dispatcher.first
     IN  \E at \in {Place(nsecs_target[e])} :
           \/ /\ io_seq = NIL
              /\ io_seq' = e
              /\ io_seq_end' = e
              /\ UNCHANGED links
           \/ /\ io_seq # NIL
              /\ at = NIL
              /\ LinkFirst(e)
           \/ /\ io_seq # NIL
              /\ at # NIL
              /\ LinkAfter(e, at)
  /\ dispatcher' = Afterwards(dispatcher.pc = "insert_internal")
  /\ UNCHANGED <<fields, is_copied, is_completed, frees, worker, latest_nsecs, now, history>>

-----------------------------------------------------------------------------
(* The dispatcher: __reclaim_completed_reqs.                               *)

\* Mutation: an entry is finished once its data is copied.
FinishedWhenCopied(e) == is_copied[e] /\ nsecs_target[e] <= latest_nsecs

Finished(e) == is_completed[e] /\ is_copied[e] /\ nsecs_target[e] <= latest_nsecs

\* The last of the finished entries at the head of the work list.
LastFinished ==
  LET onward == [c \in Entries |-> IF next[c] # NIL /\ Finished(next[c]) THEN next[c] ELSE NIL]
  IN  CHOOSE c \in Reached(io_seq, onward) : onward[c] = NIL

NothingToReclaim ==
  /\ dispatcher.pc = "reclaim"
  /\ io_seq = NIL \/ ~Finished(io_seq)
  /\ dispatcher' = AtRest
  /\ UNCHANGED <<links, fields, is_copied, is_completed, ends, frees, worker,
                 latest_nsecs, now, history>>

\* The head of the work list moves behind the finished entries...
Detach ==
  /\ dispatcher.pc = "reclaim"
  /\ io_seq # NIL
  /\ Finished(io_seq)
  /\ \E last \in {LastFinished} :
         /\ io_seq' = next[last]
         /\ prev' = [e \in Entries |-> IF e = next[last] THEN NIL ELSE prev[e]]
         /\ dispatcher' = [pc |-> "cut", first |-> io_seq, last |-> last]
  /\ UNCHANGED <<next, fields, is_copied, is_completed, io_seq_end, frees, worker,
                 latest_nsecs, now, history>>

\* ... which are cut off ...
Cut ==
  /\ dispatcher.pc = "cut"
  /\ next' = [next EXCEPT ![dispatcher.last] = NIL]
  /\ dispatcher' = [dispatcher EXCEPT !.pc = "give_back"]
  /\ UNCHANGED <<prev, fields, is_copied, is_completed, ends, frees, worker,
                 latest_nsecs, now, history>>

\* ... and appended to the free list, where the worker may still stand.
GiveBack ==
  /\ dispatcher.pc = "give_back"
  /\ prev' = [prev EXCEPT ![dispatcher.first] = free_seq_end]
  /\ next' = [next EXCEPT ![free_seq_end] = dispatcher.first]
  /\ free_seq_end' = dispatcher.last
  /\ dispatcher' = AtRest
  /\ UNCHANGED <<fields, is_copied, is_completed, ends, free_seq, worker,
                 latest_nsecs, now, history>>

-----------------------------------------------------------------------------
(* The worker: nvmev_io_worker.                                            *)

StartPass ==
  /\ worker.pc = "start"
  /\ io_seq # NIL
  /\ worker' = [pc |-> "visit", curr |-> io_seq]
  /\ UNCHANGED <<links, fields, is_copied, is_completed, ends, frees, dispatcher,
                 latest_nsecs, now, history>>

\* Where w->next leads; the end of the list ends the pass.
Following(e) == [pc |-> IF next[e] = NIL THEN "start" ELSE "visit", curr |-> next[e]]

SkipCompleted ==
  /\ worker.pc = "visit"
  /\ is_completed[worker.curr]
  /\ latest_nsecs' = now
  /\ worker' = Following(worker.curr)
  /\ UNCHANGED <<links, fields, is_copied, is_completed, ends, frees, dispatcher, now, history>>

\* The data is copied, and an entry that is due is posted: to the completion
\* queue, or by releasing the buffer.
Visit ==
  /\ worker.pc = "visit"
  /\ ~is_completed[worker.curr]
  /\ latest_nsecs' = now
  /\ is_copied' = [is_copied EXCEPT ![worker.curr] = TRUE]
  /\ LET due == nsecs_target[worker.curr] <= now
     IN  /\ posted' = IF due THEN [posted EXCEPT ![op[worker.curr]] = @ + 1] ELSE posted
         /\ worker' = [worker EXCEPT !.pc = IF due THEN "mark" ELSE "leave"]
  /\ UNCHANGED <<links, fields, is_completed, ends, frees, dispatcher, now, issued, lost>>

\* Mutation: the entry is not marked.
MarkForgets ==
  /\ worker.pc = "mark"
  /\ worker' = [worker EXCEPT !.pc = "leave"]
  /\ UNCHANGED <<links, fields, is_copied, is_completed, ends, frees, dispatcher,
                 latest_nsecs, now, history>>

\* "Reclaimer shall see after here".
Mark ==
  /\ worker.pc = "mark"
  /\ is_completed' = [is_completed EXCEPT ![worker.curr] = TRUE]
  /\ worker' = [worker EXCEPT !.pc = "leave"]
  /\ UNCHANGED <<links, fields, is_copied, ends, frees, dispatcher, latest_nsecs, now, history>>

Leave ==
  /\ worker.pc = "leave"
  /\ worker' = Following(worker.curr)
  /\ UNCHANGED <<links, fields, is_copied, is_completed, ends, frees, dispatcher,
                 latest_nsecs, now, history>>

Tick ==
  /\ now < MaxTime
  /\ now' = now + 1
  /\ UNCHANGED <<links, fields, is_copied, is_completed, ends, frees, dispatcher,
                 worker, latest_nsecs, history>>

-----------------------------------------------------------------------------
Issue ==
  \E internal \in BOOLEAN :
    \/ \E target \in now .. now + MaxDelay : target <= MaxTime /\ Allocate(target, internal)
    \/ Drop(internal)

DispatcherGoesOn == Insert \/ NothingToReclaim \/ Detach \/ Cut \/ GiveBack
WorkerStep       == StartPass \/ SkipCompleted \/ Visit \/ Mark \/ Leave

Next == Issue \/ DispatcherGoesOn \/ WorkerStep \/ Tick

\* Both threads run all the time (the dispatcher and the worker loop until
\* they are stopped) and time passes; that commands arrive is not assumed.
Fairness == WF_vars(DispatcherGoesOn) /\ WF_vars(WorkerStep) /\ WF_vars(Tick)

Spec == Init /\ [][Next]_vars /\ Fairness

-----------------------------------------------------------------------------
(* Properties.                                                             *)

\* Every variable keeps its type.
TypeOK ==
  /\ next \in [Entries -> Links] /\ prev \in [Entries -> Links]
  /\ op \in [Entries -> Ops \cup {NoOp}]
  /\ nsecs_target \in [Entries -> 0 .. MaxTime]
  /\ is_copied \in [Entries -> BOOLEAN] /\ is_completed \in [Entries -> BOOLEAN]
  /\ io_seq \in Links /\ io_seq_end \in Links
  /\ free_seq \in Entries /\ free_seq_end \in Entries
  /\ dispatcher \in [pc : {"idle", "insert", "insert_internal", "reclaim", "cut", "give_back"},
                     first : Links, last : Links]
  /\ worker \in [pc : {"start", "visit", "mark", "leave"}, curr : Links]
  /\ latest_nsecs \in 0 .. MaxTime /\ now \in 0 .. MaxTime
  /\ issued \in 0 .. NrOps
  /\ posted \in [Ops -> 0 .. 2]
  /\ lost \subseteq Ops

\* The list that begins at an entry.
Chain(from) == Reached(from, next)

Detached == IF dispatcher.pc \in {"cut", "give_back"}
              THEN {e \in Chain(dispatcher.first) :
                      dispatcher.last \in Chain(e)}
              ELSE {}
InHand == IF dispatcher.pc \in {"insert", "insert_internal"} THEN {dispatcher.first} ELSE {}

\* Work list, free list and the entries the dispatcher has in hand share no
\* entry and miss none: nothing leaks, and no entry is used for two
\* operations.  prev mirrors next on the work list, and the tails are tails.
ListsIntact ==
  /\ TypeOK
  /\ Chain(free_seq) \cup Chain(io_seq) \cup Detached \cup InHand = Entries
  /\ Cardinality(Chain(free_seq)) + Cardinality(Chain(io_seq))
       + Cardinality(Detached) + Cardinality(InHand) = NrEntries
  /\ next[free_seq_end] = NIL
  /\ io_seq # NIL =>
       /\ io_seq_end \in Chain(io_seq)
       /\ next[io_seq_end] = NIL
       /\ prev[io_seq] = NIL
       /\ \A e \in Chain(io_seq) : next[e] # NIL => prev[next[e]] = e

\* No operation is posted twice, although the worker may walk over entries
\* that were reclaimed under its feet.
PostedOnce == \A o \in Ops : posted[o] <= 1

\* An operation leaves the work list only after it was posted.
ReclaimedWerePosted ==
  \A o \in 1 .. issued :
    \/ o \in lost
    \/ posted[o] = 1
    \/ \E e \in Chain(io_seq) \cup InHand : op[e] = o

\* The list is sorted but for entries that are due already: behind an entry
\* nothing is waiting for an earlier time, unless the worker will take the
\* entry on the next visit anyway.
InversionsAreDue ==
  \A e \in Chain(io_seq) : \A f \in Chain(next[e]) :
    nsecs_target[e] > nsecs_target[f] => nsecs_target[e] <= latest_nsecs

\* Every operation that got an entry is posted in the end: the worker never
\* loses sight of the work list when entries move under it.
EveryOpIsPosted == \A o \in Ops : issued >= o ~> posted[o] = 1 \/ o \in lost

=============================================================================
