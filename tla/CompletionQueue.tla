--------------------------- MODULE CompletionQueue ---------------------------
(***************************************************************************)
(* A completion queue of the device: a ring of entries in host memory that *)
(* the I/O workers fill without looking at what the host has read          *)
(* (__fill_cq_result), the interrupts of the workers (nvmev_io_worker) and *)
(* the doorbells the dispatcher handles (nvmev_proc_io_sq/_cq).            *)
(*                                                                         *)
(* The host driver is external: it takes the entries whose phase bit has   *)
(* turned, from its interrupt handler or by polling, and rings the         *)
(* completion doorbell once it finds no more.                              *)
(*                                                                         *)
(* A command is its tag <<submission queue, command identifier>>.          *)
(***************************************************************************)
EXTENDS Integers, FiniteSets

CONSTANTS
  Setups,      \* queues a host may create, one set-up is looked at
  NrIoWorkers  \* config.nr_io_workers

\* sqs: the submission queues whose completions go to the queue
\* cqid, size, irq_enabled: the completion queue
\* depth: commands the host has in flight per submission queue
\* maxInFlight (bound): the host submits while nr_in_flight is within it
ASSUME SetupAssumption ==
  \A s \in Setups :
    /\ s.sqs \subseteq Nat \ {0} /\ IsFiniteSet(s.sqs)
    /\ s.cqid \in Nat \ {0}
    /\ s.size \in Nat \ {0, 1}
    /\ s.irq_enabled \in BOOLEAN
    /\ s.depth \in Nat
    /\ s.maxInFlight \in Nat
    /\ Cardinality(s.sqs) * s.depth < s.size
ASSUME WorkerAssumption == NrIoWorkers \in Nat \ {0}

VARIABLES
  setup,
  outstanding, \* tags the host has submitted and not seen completed
  queued,      \* those in a worker's list
  io_workers,  \* what each worker is doing
  cq,          \* cq_head, phase, interrupt_ready
  entries,     \* the ring: tag, phase and result of each entry
  irq,         \* an interrupt is raised and not yet taken
  host,        \* next entry and phase the host looks at, whether it is looking
  db, old_db,  \* the completion doorbell, and as the dispatcher last saw it
  nr_in_flight \* sq->stat.nr_in_flight

device == <<io_workers, cq, entries>>
bells  == <<db, old_db>>
cqVars == <<setup, outstanding, queued, device, irq, host, bells, nr_in_flight>>

TagsOf(s) == s.sqs \X (1 .. s.depth)
Tags      == TagsOf(setup)
NoTag     == <<0, 0>>
Size      == setup.size
Ring      == 0 .. Size - 1
Workers   == 0 .. NrIoWorkers - 1

__get_io_worker(sqid) == (sqid - 1) % NrIoWorkers

Resting == [pc |-> "rest", tag |-> NoTag, head |-> 0]

-----------------------------------------------------------------------------
\* __nvmev_admin_create_cq, __nvmev_admin_create_sq.
CqInit ==
  /\ setup \in Setups
  /\ outstanding = {}
  /\ queued = {}
  /\ io_workers = [w \in Workers |-> Resting]
  /\ cq = [head |-> 0, phase |-> 1, interrupt_ready |-> FALSE]
  /\ entries = [i \in Ring |-> [tag |-> NoTag, phase |-> 0, result |-> NoTag]]
  /\ irq = FALSE
  /\ host = [head |-> 0, phase |-> 1, looking |-> FALSE]
  /\ db = 0
  /\ old_db = 0
  /\ nr_in_flight = [q \in setup.sqs |-> 0]

-----------------------------------------------------------------------------
(* The host.                                                               *)

\* The host submits a command, and the dispatcher takes it (nvmev_proc_io_sq):
\* it is executed and put into a worker's list.  That the dispatcher comes
\* later changes nothing, the host could as well have been later.
Submit(t) ==
  /\ t \notin outstanding
  /\ \A q \in setup.sqs : nr_in_flight[q] \in -setup.maxInFlight .. setup.maxInFlight
  /\ outstanding' = outstanding \cup {t}
  /\ queued' = queued \cup {t}
  /\ nr_in_flight' = [nr_in_flight EXCEPT ![t[1]] = @ + 1]
  /\ UNCHANGED <<device, irq, host, bells>>

\* With interrupts the host looks when it is interrupted, else when it likes.
Look ==
  /\ ~host.looking
  /\ irq \/ ~setup.irq_enabled
  /\ irq' = FALSE
  /\ host' = [host EXCEPT !.looking = TRUE]
  /\ UNCHANGED <<outstanding, queued, device, bells, nr_in_flight>>

Turned == entries[host.head].phase = host.phase

ReadEntry ==
  /\ host.looking
  /\ Turned
  /\ outstanding' = outstanding \ {entries[host.head].tag}
  /\ host' = IF host.head + 1 = Size
               THEN [host EXCEPT !.head = 0, !.phase = 1 - @]
               ELSE [host EXCEPT !.head = @ + 1]
  /\ UNCHANGED <<queued, device, irq, bells, nr_in_flight>>

RingDoorbell ==
  /\ host.looking
  /\ ~Turned
  /\ host' = [host EXCEPT !.looking = FALSE]
  /\ db' = host.head
  /\ UNCHANGED <<outstanding, queued, device, irq, old_db, nr_in_flight>>

-----------------------------------------------------------------------------
(* The dispatcher.                                                         *)

\* Mutation: the first entry is passed over when the index wraps.
AfterEntrySkips(i) == IF i + 1 >= Size THEN 1 ELSE i + 1

AfterEntry(i) == IF i + 1 >= Size THEN 0 ELSE i + 1

\* nvmev_proc_io_cq, one turn of its loop: the entry the host gave back may
\* hold a newer completion by now.
Acknowledge ==
  /\ old_db # db
  /\ nr_in_flight' = [nr_in_flight EXCEPT ![entries[old_db].tag[1]] = @ - 1]
  /\ old_db' = AfterEntry(old_db)
  /\ UNCHANGED <<outstanding, queued, device, irq, host, db>>

-----------------------------------------------------------------------------
(* The I/O workers.                                                        *)

Resumes(w) == io_workers' = [io_workers EXCEPT ![w] = Resting]

\* __fill_cq_result reads cq_head before it takes the lock.
BeginFill(w, t) ==
  /\ io_workers[w].pc = "rest"
  /\ t \in queued
  /\ __get_io_worker(t[1]) = w
  /\ queued' = queued \ {t}
  /\ io_workers' = [io_workers EXCEPT ![w] = [pc |-> "lock", tag |-> t, head |-> cq.head]]
  /\ UNCHANGED <<outstanding, cq, entries, irq, host, bells, nr_in_flight>>

\* Under entry_lock: everything up to the status and the phase bit in it ...
FillStatus(w) ==
  /\ io_workers[w].pc = "lock"
  /\ \A v \in Workers : io_workers[v].pc # "locked"
  /\ io_workers' = [io_workers EXCEPT ![w].pc = "locked"]
  /\ entries' = [entries EXCEPT ![io_workers[w].head].tag = io_workers[w].tag,
                                ![io_workers[w].head].phase = cq.phase]
  /\ UNCHANGED <<outstanding, queued, cq, irq, host, bells, nr_in_flight>>

\* Mutation: the phase does not turn at the end of the ring.
HeadAfterKeepsPhase(i) ==
  [head |-> IF i + 1 = Size THEN 0 ELSE i + 1, phase |-> cq.phase, interrupt_ready |-> TRUE]

\* Mutation: an interrupt is asked for only at the start of the ring.
HeadAfterAsksOnce(i) ==
  [head  |-> IF i + 1 = Size THEN 0 ELSE i + 1,
   phase |-> IF i + 1 = Size THEN 1 - cq.phase ELSE cq.phase,
   interrupt_ready |-> cq.interrupt_ready \/ i = 0]

\* cq_head, phase and interrupt_ready after entry i is filled.
HeadAfter(i) ==
  [head  |-> IF i + 1 = Size THEN 0 ELSE i + 1,
   phase |-> IF i + 1 = Size THEN 1 - cq.phase ELSE cq.phase,
   interrupt_ready |-> TRUE]

\* ... then the result, the head and the request for an interrupt.
FillResult(w) ==
  /\ io_workers[w].pc = "locked"
  /\ entries' = [entries EXCEPT ![io_workers[w].head].result = io_workers[w].tag]
  /\ cq' = HeadAfter(io_workers[w].head)
  /\ Resumes(w)
  /\ UNCHANGED <<outstanding, queued, irq, host, bells, nr_in_flight>>

\* The worker that serves the queue withdraws the request ...
BeginSignal(w) ==
  /\ io_workers[w].pc = "rest"
  /\ setup.irq_enabled
  /\ __get_io_worker(setup.cqid) = w
  /\ cq.interrupt_ready
  /\ cq' = [cq EXCEPT !.interrupt_ready = FALSE]
  /\ io_workers' = [io_workers EXCEPT ![w].pc = "signal"]
  /\ UNCHANGED <<outstanding, queued, entries, irq, host, bells, nr_in_flight>>

\* ... and raises the interrupt (nvmev_signal_irq).
Signal(w) ==
  /\ io_workers[w].pc = "signal"
  /\ irq' = TRUE
  /\ Resumes(w)
  /\ UNCHANGED <<outstanding, queued, cq, entries, host, bells, nr_in_flight>>

-----------------------------------------------------------------------------
Host == Look \/ ReadEntry \/ RingDoorbell
Filling(w) == FillStatus(w) \/ FillResult(w) \/ Signal(w)

CqNext ==
  /\ \/ Host
     \/ Acknowledge
     \/ \E t \in Tags : Submit(t)
     \/ \E w \in Workers : Filling(w) \/ BeginSignal(w) \/ \E t \in Tags : BeginFill(w, t)
  /\ UNCHANGED setup

AllTags == UNION {TagsOf(s) : s \in Setups}

\* The dispatcher and the workers loop until the module is unloaded; a worker
\* visits every entry of its list and every queue it serves in each round, so
\* neither goes unvisited for ever.
CqFairness ==
  /\ WF_cqVars(Host /\ UNCHANGED setup)
  /\ WF_cqVars(Acknowledge /\ UNCHANGED setup)
  /\ WF_cqVars((\E w \in Workers : Filling(w)) /\ UNCHANGED setup)
  /\ SF_cqVars((\E w \in Workers : BeginSignal(w)) /\ UNCHANGED setup)
  /\ \A t \in AllTags : SF_cqVars((\E w \in Workers : BeginFill(w, t)) /\ UNCHANGED setup)

CqSpec == CqInit /\ [][CqNext]_cqVars /\ CqFairness

-----------------------------------------------------------------------------
(* Properties.                                                             *)

CqTypeOK ==
  /\ setup \in Setups
  /\ outstanding \subseteq Tags
  /\ queued \subseteq Tags
  /\ io_workers \in [Workers -> [pc : {"rest", "lock", "locked", "signal"},
                             tag : Tags \cup {NoTag}, head : Ring]]
  /\ cq \in [head : Ring, phase : {0, 1}, interrupt_ready : BOOLEAN]
  /\ entries \in [Ring -> [tag : Tags \cup {NoTag}, phase : {0, 1},
                           result : Tags \cup {NoTag}]]
  /\ irq \in BOOLEAN
  /\ host \in [head : Ring, phase : {0, 1}, looking : BOOLEAN]
  /\ db \in Ring
  /\ old_db \in Ring
  /\ nr_in_flight \in [setup.sqs -> Int]

\* The entry k places ahead of the host, and whether the host will take it.
Ahead(k)  == (host.head + k) % Size
Unread(k) == entries[Ahead(k)].phase
               = IF host.head + k >= Size THEN 1 - host.phase ELSE host.phase
UnreadAt  == {k \in Ring : Unread(k)}

\* Where the command with tag t is.
Places(t) ==
  Cardinality({t} \cap queued)
  + Cardinality({w \in Workers : io_workers[w].pc = "lock" /\ io_workers[w].tag = t})
  + Cardinality({k \in UnreadAt : entries[Ahead(k)].tag = t})

\* A command the host waits for is in exactly one place, and none it does not
\* wait for is anywhere: a completion is neither overwritten unread nor seen
\* twice, although workers never look at what the host has read.  What the
\* host has still to read lies without gap ahead of it, and is whole but for
\* the entry a worker is writing to: that one the host can take with the result
\* of an earlier command.
CompletionsExact ==
  /\ CqTypeOK
  /\ UnreadAt = 0 .. Cardinality(UnreadAt) - 1
  /\ \A t \in Tags : Places(t) = IF t \in outstanding THEN 1 ELSE 0
  /\ \A k \in UnreadAt :
       \/ entries[Ahead(k)].result = entries[Ahead(k)].tag
       \/ \E w \in Workers : io_workers[w].pc = "locked" /\ io_workers[w].head = Ahead(k)

\* Entries between those the dispatcher saw given back and the head.
SumOf(f) == LET S[Q \in SUBSET DOMAIN f] ==
                  IF Q = {} THEN 0
                  ELSE LET q == CHOOSE x \in Q : TRUE IN f[q] + S[Q \ {q}]
            IN  S[DOMAIN f]
Filled == Cardinality({w \in Workers : io_workers[w].pc \in {"lock", "locked"}})

\* The statistics of the queues together count the commands that are in a
\* list or a worker's hands, and the entries not yet given back, up to whole
\* rounds of the ring: a host that reads a whole round before it rings the
\* doorbell leaves it where it was.
InFlightUpToRounds ==
  (SumOf(nr_in_flight) - Cardinality(queued) - Filled - (cq.head - old_db)) % Size = 0

\* A command the host submits is completed to the host: no interrupt is lost
\* between the worker that fills the entry and the one that signals.
EveryCommandIsSeen == \A t \in AllTags : []<>(t \notin outstanding)

=============================================================================
