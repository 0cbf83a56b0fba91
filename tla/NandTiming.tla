----------------------------- MODULE NandTiming -----------------------------
(***************************************************************************)
(* When the NAND is busy (ssd.c, ssd_advance_nand): every plane has a      *)
(* queue of commands with their start and completion times, and the planes *)
(* of a channel share its bandwidth (ChannelModel).  A command starts when *)
(* the plane is available, but a host command may go before a migration    *)
(* command that has not started; what is behind it is then delayed.        *)
(*                                                                         *)
(* The dispatcher computes all this when it handles a command; nothing     *)
(* runs when the times come.  It may ask for any start time, also one that *)
(* has passed or lies far ahead.                                           *)
(***************************************************************************)
EXTENDS ChannelModel, Sequences, SequencesExt

CONSTANTS
  Planes,     \* the planes of the channel
  Blocks,     \* blocks of a plane
  PgRdLat, PgWrLat, BlkErLat,  \* latencies of the NAND
  MaxUnits,   \* bound: units of a transfer
  MaxTime,    \* bound: times asked for, and the clock
  MaxQueue    \* bound: commands in the queue of a plane

VARIABLES
  channel,    \* ch->perf_model
  plane       \* struct nand_plane: cmd_queue, next_pln_avail_time, migrating, migrating_etime

vars == <<channel, plane>>

ASSUME NandAssumption ==
  /\ PgRdLat \in Nat /\ PgWrLat \in Nat /\ BlkErLat \in Nat
  /\ MaxUnits \in Nat /\ MaxTime \in Nat

\* Reads of the mapping and commands of garbage collection are treated as those
\* of the host are.
IoTypes == {"USER_IO", "MIGRATE_IO"}

Init ==
  /\ channel = chmodel_init
  /\ plane = [p \in Planes |-> [cmd_queue |-> <<>>, next_pln_avail_time |-> 0,
                                migrating |-> FALSE, migrating_etime |-> 0]]

-----------------------------------------------------------------------------

\* The members of a set of positions, in order.
InOrder(S) ==
  CHOOSE f \in [1 .. Cardinality(S) -> S] : \A i, j \in 1 .. Cardinality(S) : i < j => f[i] < f[j]

\* The commands that are not complete by stime.
Unfinished(pl, stime) == {i \in DOMAIN pl.cmd_queue : pl.cmd_queue[i].ctime >= stime}

\* plane_getstime: the other commands are cleared.
Cleared(pl, stime) ==
  LET left == InOrder(Unfinished(pl, stime))
  IN  [pl EXCEPT !.cmd_queue = [i \in DOMAIN left |-> pl.cmd_queue[left[i]]],
                 !.migrating = @ /\ stime <= pl.migrating_etime]

\* The migration commands that are yet to start, of other blocks.
Preemptable(pl, ncmd, stime) ==
  {i \in DOMAIN pl.cmd_queue : /\ pl.cmd_queue[i].type = "MIGRATE_IO"
                               /\ pl.cmd_queue[i].stime > stime
                               /\ pl.cmd_queue[i].blk # ncmd.blk}

\* Where ncmd goes in the queue of the (cleared) plane, whether it preempts, and
\* when it starts.
plane_getstime(pl, ncmd, stime) ==
  LET before == Preemptable(pl, ncmd, stime)
      preemp == ncmd.type # "MIGRATE_IO" /\ pl.migrating /\ before # {}
  IN  [preemp |-> preemp,
       at     |-> IF preemp THEN Min(before) ELSE Len(pl.cmd_queue) + 1,
       stime  |-> IF preemp THEN pl.cmd_queue[Min(before)].stime
                            ELSE Max({pl.next_pln_avail_time, stime})]

\* Mutation: the end of the migration is not moved.
MigrationEndKept(pl, queue, at) == pl.migrating_etime

\* migrating_etime, once a command is in place at: only this one and those
\* it delayed are looked at.
MigrationEnd(pl, queue, at) ==
  Max({pl.migrating_etime} \cup
      {queue[i].ctime : i \in {j \in at .. Len(queue) : queue[j].type = "MIGRATE_IO"}})

\* Mutation: host commands behind a preempting one keep their times.
DelayedMigration(cmd, delay) ==
  IF cmd.type = "MIGRATE_IO" THEN [cmd EXCEPT !.stime = @ + delay, !.ctime = @ + delay] ELSE cmd

\* A command behind one that preempts.
Delayed(cmd, delay) == [cmd EXCEPT !.stime = @ + delay, !.ctime = @ + delay]

\* plane_update: ncmd, in its place, runs from start.stime to etime.
plane_update(pl, ncmd, start, etime) ==
  LET delay  == etime - start.stime
      cmd    == [type |-> ncmd.type, blk |-> ncmd.blk, stime |-> start.stime, ctime |-> etime]
      queued == InsertAt(pl.cmd_queue, start.at, cmd)
      queue  == [i \in DOMAIN queued |->
                   IF i > start.at THEN Delayed(queued[i], delay) ELSE queued[i]]
  IN  [cmd_queue           |-> queue,
       next_pln_avail_time |-> IF start.preemp THEN pl.next_pln_avail_time + delay ELSE etime,
       migrating           |-> pl.migrating \/ ncmd.type = "MIGRATE_IO",
       migrating_etime     |-> MigrationEnd(pl, queue, start.at)]

-----------------------------------------------------------------------------
(* ssd_advance_nand.  The clock is read when the channel is asked; a read  *)
(* is at most a flash page, which is one transfer.                         *)

Asked(p, stime) == Cardinality(Unfinished(plane[p], stime)) < MaxQueue
Clock == {now \in 0 .. MaxTime : now >= channel.cur_time}

\* The NAND is read, then the channel transfers.
NandRead(p, ncmd, stime, units, now) ==
  /\ Asked(p, stime)
  /\ LET pl    == Cleared(plane[p], stime)
         start == plane_getstime(pl, ncmd, stime)
         xfer  == chmodel_request(channel, now, start.stime + PgRdLat, units)
     IN  /\ channel' = xfer.ch
         /\ plane' = [plane EXCEPT ![p] = plane_update(pl, ncmd, start, xfer.etime)]

\* The channel transfers, then the NAND is programmed.
NandWrite(p, ncmd, stime, units, now) ==
  /\ Asked(p, stime)
  /\ LET pl    == Cleared(plane[p], stime)
         start == plane_getstime(pl, ncmd, stime)
         xfer  == chmodel_request(channel, now, start.stime, units)
     IN  /\ channel' = xfer.ch
         /\ plane' = [plane EXCEPT ![p] = plane_update(pl, ncmd, start, xfer.etime + PgWrLat)]

NandErase(p, ncmd, stime) ==
  /\ Asked(p, stime)
  /\ LET pl    == Cleared(plane[p], stime)
         start == plane_getstime(pl, ncmd, stime)
     IN  plane' = [plane EXCEPT ![p] = plane_update(pl, ncmd, start, start.stime + BlkErLat)]
  /\ UNCHANGED channel

\* NAND_NOP only asks when the plane is available.
NandNop(p, stime) ==
  /\ plane' = [plane EXCEPT ![p].next_pln_avail_time = Max({@, stime})]
  /\ UNCHANGED channel

Next ==
  \E p \in Planes, stime \in 0 .. MaxTime :
    \/ \E ncmd \in [type : IoTypes, blk : Blocks] :
         \/ \E units \in 1 .. MaxUnits, now \in Clock :
              NandRead(p, ncmd, stime, units, now) \/ NandWrite(p, ncmd, stime, units, now)
         \/ NandErase(p, ncmd, stime)
    \/ NandNop(p, stime)

Spec == Init /\ [][Next]_vars

-----------------------------------------------------------------------------
(* Properties.                                                             *)

Commands(p) == plane[p].cmd_queue

\* Every variable keeps its type; no interval has more credits than it began
\* with (they are kept in a byte and refilled with memset).
TypeOK ==
  /\ channel \in [cur_time : 0 .. MaxTime, head : Entries, valid_len : 0 .. NrCreditEntries,
                  avail_credits : [Entries -> 0 .. MaxCredits]]
  /\ \A p \in Planes :
       /\ plane[p].next_pln_avail_time \in Nat /\ plane[p].migrating \in BOOLEAN
       /\ plane[p].migrating_etime \in Nat
       /\ \A i \in DOMAIN Commands(p) :
            Commands(p)[i] \in [type : IoTypes, blk : Blocks, stime : Nat, ctime : Nat]

\* A plane does one thing at a time: its commands follow one another in the
\* order of the queue, and it is available only after the last, whatever
\* preempted and delayed whatever else, and whenever it was asked for.
OneCommandAtATime ==
  /\ TypeOK
  /\ \A p \in Planes :
       /\ \A i \in DOMAIN Commands(p) :
            /\ Commands(p)[i].stime <= Commands(p)[i].ctime
            /\ Commands(p)[i].ctime <= plane[p].next_pln_avail_time
       /\ \A i, j \in DOMAIN Commands(p) : i < j => Commands(p)[i].ctime <= Commands(p)[j].stime

\* While a migration command is queued the plane knows that it migrates and
\* until when, so that the host may preempt it: a delay moves the end along.
MigrationIsKnown ==
  \A p \in Planes : \A i \in DOMAIN Commands(p) :
    Commands(p)[i].type = "MIGRATE_IO" =>
      plane[p].migrating /\ Commands(p)[i].ctime <= plane[p].migrating_etime

Window == INSTANCE BandwidthWindow WITH
            Width   <- NrCreditEntries,
            Credits <- MaxCredits,
            now     <- Interval(channel.cur_time),
            free    <- [i \in Entries |-> channel.avail_credits[EntryAt(channel, i)]]

\* The ring, of which only the valid part is refilled, is a window on time in
\* which every new interval is untouched and no credit is given twice.
ImplementsWindow == Window!Spec

=============================================================================
