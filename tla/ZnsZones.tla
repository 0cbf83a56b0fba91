------------------------------ MODULE ZnsZones ------------------------------
(***************************************************************************)
(* The zone descriptors of one zoned namespace and the commands that drive *)
(* them: writes and zone appends (handle_write_request, zns_write_check)   *)
(* and zone management send (zns_mgmt_send.c).                             *)
(*                                                                         *)
(* One dispatcher thread executes commands, so a command is one step.  Two *)
(* things take more than one: a write or append whose write buffer is busy *)
(* stays at the head of its submission queue and is executed again later   *)
(* (the handler returned false), and a zone management command with        *)
(* select_all walks over the zones, one step per zone, while no other      *)
(* command runs.                                                           *)
(*                                                                         *)
(* An append to a written-out last zone is redirected to the address       *)
(* behind the namespace, and nothing stops the handler from reading the    *)
(* descriptor of that zone: the memory behind zone_descs, of which nothing *)
(* is known.  What is read there is any element of Behind.  When such a    *)
(* descriptor accepts the command, the handler writes to that memory, and  *)
(* the model ends: what a kernel does whose memory was overwritten is not  *)
(* in the source.                                                          *)
(*                                                                         *)
(* LBAs are counted in 4 KiB pages: writes of part of a page, which the    *)
(* handler marks as unfinished work, are outside this model.               *)
(***************************************************************************)
EXTENDS Integers, FiniteSets

CONSTANTS
  NrZones,        \* zp.nr_zones
  ZoneSize,       \* LBAs from the start of a zone to the start of the next
  ZoneCapacity,   \* writable LBAs of a zone
  MaxNlb,         \* bound: LBAs of one write or append
  Queues,         \* submission queues that hold writes and appends
  Behind,         \* what can be read as a descriptor outside zone_descs
  None            \* no pending command

ASSUME NrZonesAssumption      == NrZones \in Nat \ {0}
ASSUME ZoneCapacityAssumption == /\ ZoneSize \in Nat
                                 /\ ZoneCapacity \in 1 .. ZoneSize
ASSUME MaxNlbAssumption       == MaxNlb \in Nat \ {0}
\* The state is a field of four bits: "NONE" stands for its other values.
ASSUME BehindAssumption       == Behind \subseteq
  [state : {"EMPTY", "OPENED_IMPL", "OPENED_EXPL", "CLOSED", "READ_ONLY", "FULL",
            "OFFLINE", "NONE"},
   wp : Nat, zslba : Nat, zone_capacity : Nat]
ASSUME NoneAssumption         == None \notin [op : {"write", "append"}, slba : Nat,
                                              nlb : 1 .. MaxNlb]

VARIABLES
  state,       \* zone_descs[z].state
  wp,          \* zone_descs[z].wp, an LBA of the namespace
  acquired,    \* res_infos[r].acquired_cnt
  deviceFull,  \* device_full or pslc_full of this namespace's FTL
  pending,     \* the write or append at the head of each submission queue
  strayed,     \* history: a write was accepted by a descriptor that is none
  sweep,       \* the select_all command in progress and the next zone, or None
  last         \* the command of the latest step, where it landed, its status

vars == <<state, wp, acquired, deviceFull, pending, strayed, sweep, last>>

Zones == 0 .. NrZones - 1

ZoneStates    == {"EMPTY", "OPENED_IMPL", "OPENED_EXPL", "CLOSED",
                  "READ_ONLY", "FULL", "OFFLINE"}
OpenedStates  == {"OPENED_IMPL", "OPENED_EXPL"}
ActiveStates  == OpenedStates \cup {"CLOSED"}
Resources     == {"ACTIVE", "OPEN"}

zone_to_slba(z)   == z * ZoneSize
lba_to_zone(lba)  == lba \div ZoneSize
ZoneEnd(z)        == zone_to_slba(z) + ZoneCapacity

\* Mutation: one resource fewer than zones.
TotalCountShort == NrZones - 1

\* __init_resource: every pool is as large as the namespace has zones, and
\* no configuration has zones with a random write area.
TotalCount   == NrZones
NrZrwaZones  == 0

\* The host addresses the namespace; a command put off can be anywhere.
Lbas         == 0 .. NrZones * ZoneSize - 1
HostCommands == [op : {"write", "append"}, slba : Lbas, nlb : 1 .. MaxNlb]
Commands     == [op : {"write", "append"}, slba : Nat, nlb : 1 .. MaxNlb]
MgmtOps      == {"close", "finish", "open", "reset", "offline", "flush_zrwa"}

Failures == {"BOUNDARY", "INVALID_WRITE", "NO_ACTIVE_ZONE", "NO_OPEN_ZONE",
             "ERR_FULL", "ERR_READ_ONLY", "ERR_OFFLINE", "INVALID_TRANSITION",
             "ZRWA_UNAVAIL", "INVALID_ZONE_OPERATION"}
Statuses == Failures \cup {"SUCCESS", "CAP_EXCEEDED", "RETRY", "SUBMITTED"}

-----------------------------------------------------------------------------
Init ==
  /\ state      = [z \in Zones |-> "EMPTY"]
  /\ wp         = [z \in Zones |-> zone_to_slba(z)]
  /\ acquired   = [r \in Resources |-> 0]
  /\ deviceFull = FALSE
  /\ pending    = [q \in Queues |-> None]
  /\ strayed    = FALSE
  /\ sweep      = None
  /\ last       = [op |-> "none", slba |-> 0, nlb |-> 0, status |-> "SUCCESS"]

Reply(op, slba, nlb, status) ==
  last' = [op |-> op, slba |-> slba, nlb |-> nlb, status |-> status]

ResourceFull(r) == acquired[r] = TotalCount

One(held) == IF held THEN 1 ELSE 0

-----------------------------------------------------------------------------
(* Writes and appends.                                                     *)

\* The host places a command at the head of a queue.
Submit(q) ==
  /\ pending[q] = None
  /\ \E cmd \in HostCommands :
       pending' = [pending EXCEPT ![q] = cmd]
  /\ Reply("none", 0, 0, "SUBMITTED")
  /\ UNCHANGED <<state, wp, acquired, deviceFull, strayed, sweep>>

\* What zone_descs[z] reads as: the zone's descriptor, or memory that is not
\* a descriptor and that its owner may change between two reads.
Descriptors(z) ==
  IF z \in Zones
    THEN {[state |-> state[z], wp |-> wp[z], zslba |-> zone_to_slba(z),
           zone_capacity |-> ZoneCapacity]}
    ELSE Behind

\* An append is redirected to the write pointer of its zone: the handler
\* overwrites the address in the command itself.
Redirections(cmd) ==
  IF cmd.op = "append"
    THEN {[cmd EXCEPT !.slba = d.wp] : d \in Descriptors(lba_to_zone(cmd.slba))}
    ELSE {cmd}

\* The verdict of zns_write_check on descriptor d, in the order of its tests.
WriteStatus(slba, nlb, d) ==
  LET z == lba_to_zone(slba)
  IN  IF lba_to_zone(slba + nlb - 1) # z                     THEN "BOUNDARY"
      ELSE IF slba # d.wp                                    THEN "INVALID_WRITE"
      ELSE IF d.wp + nlb > zone_to_slba(z) + d.zone_capacity THEN "INVALID_WRITE"
      ELSE IF d.state = "EMPTY" /\ slba # d.zslba            THEN "INVALID_WRITE"
      ELSE IF d.state = "EMPTY" /\ ResourceFull("ACTIVE")    THEN "NO_ACTIVE_ZONE"
      ELSE IF d.state \in {"EMPTY", "CLOSED"} /\ ResourceFull("OPEN")
                                                             THEN "NO_OPEN_ZONE"
      ELSE IF d.state = "FULL"                               THEN "ERR_FULL"
      ELSE IF d.state = "READ_ONLY"                          THEN "ERR_READ_ONLY"
      ELSE IF d.state = "OFFLINE"                            THEN "ERR_OFFLINE"
      ELSE "SUCCESS"

\* The counters after a write to a zone in state s: what the zone lacks is
\* acquired, and both are given back when the zone is written out.
AfterWrite(s, full) ==
  [acquired EXCEPT !["ACTIVE"] = @ + One(s = "EMPTY") - One(full),
                   !["OPEN"]   = @ + One(s \in {"EMPTY", "CLOSED"}) - One(full)]

\* Mutation: the zone is full only beyond its capacity.
AdvanceZoneNeverFull(z, nlb) ==
  /\ wp' = [wp EXCEPT ![z] = @ + nlb]
  /\ state' = [state EXCEPT ![z] = IF @ \in {"EMPTY", "CLOSED"} THEN "OPENED_IMPL" ELSE @]
  /\ acquired' = AfterWrite(state[z], FALSE)

\* Mutation: the write pointer moves by one whatever was written.
AdvanceZoneByOne(z, nlb) == AdvanceZoneNeverFull(z, 1)

\* An accepted write moves the write pointer, and the zone is open or full.
AdvanceZone(z, nlb) ==
  LET full == wp[z] + nlb = ZoneEnd(z)
  IN  /\ wp' = [wp EXCEPT ![z] = @ + nlb]
      /\ state' = [state EXCEPT ![z] =
                     IF full THEN "FULL"
                     ELSE IF @ \in {"EMPTY", "CLOSED"} THEN "OPENED_IMPL" ELSE @]
      /\ acquired' = AfterWrite(state[z], full)

\* No write buffer, or it is busy, or it had to be flushed for this zone (the
\* flush can find the medium full): the handler returns false, and the
\* (possibly redirected) command stays at the head of its queue.
Retry(q) ==
  /\ pending[q] # None
  /\ ~deviceFull
  /\ \E cmd \in Redirections(pending[q]) :
       /\ pending' = [pending EXCEPT ![q] = cmd]
       /\ Reply(cmd.op, cmd.slba, cmd.nlb, "RETRY")
  /\ deviceFull' \in BOOLEAN
  /\ UNCHANGED <<state, wp, acquired, strayed, sweep>>

\* The answer to an accepted write.  The flush the write may cause can find
\* the medium full: the command fails after the write pointer moved, and so
\* does every later write of the namespace.
Accepted(cmd) ==
  \E full \in BOOLEAN :
    /\ deviceFull' = full
    /\ Reply(cmd.op, cmd.slba, cmd.nlb, IF full THEN "CAP_EXCEEDED" ELSE "SUCCESS")

\* The write buffer is ours and the zone accepts the command.
WriteAccepted(q) ==
  /\ pending[q] # None
  /\ ~deviceFull
  /\ \E cmd \in Redirections(pending[q]) :
       LET z == lba_to_zone(cmd.slba)
       IN  /\ z \in Zones
           /\ \E d \in Descriptors(z) : WriteStatus(cmd.slba, cmd.nlb, d) = "SUCCESS"
           /\ AdvanceZone(z, cmd.nlb)
           /\ Accepted(cmd)
  /\ pending' = [pending EXCEPT ![q] = None]
  /\ UNCHANGED <<strayed, sweep>>

\* The memory behind the descriptors reads as a zone that accepts the
\* command.  The write pointer and state stored there are not this module's;
\* the counters are.
WriteStrays(q) ==
  /\ pending[q] # None
  /\ ~deviceFull
  /\ \E cmd \in Redirections(pending[q]) :
       LET z == lba_to_zone(cmd.slba)
       IN  /\ z \notin Zones
           /\ \E d \in Descriptors(z) :
                /\ WriteStatus(cmd.slba, cmd.nlb, d) = "SUCCESS"
                /\ acquired' = AfterWrite(d.state,
                                 d.wp + cmd.nlb = zone_to_slba(z) + d.zone_capacity)
           /\ Accepted(cmd)
  /\ pending' = [pending EXCEPT ![q] = None]
  /\ strayed' = TRUE
  /\ UNCHANGED <<state, wp, sweep>>

WriteRejected(q) ==
  /\ pending[q] # None
  /\ \/ /\ deviceFull
        /\ Reply(pending[q].op, pending[q].slba, pending[q].nlb, "CAP_EXCEEDED")
     \/ /\ ~deviceFull
        /\ \E cmd \in Redirections(pending[q]) :
             \E d \in Descriptors(lba_to_zone(cmd.slba)) :
               /\ WriteStatus(cmd.slba, cmd.nlb, d) # "SUCCESS"
               /\ Reply(cmd.op, cmd.slba, cmd.nlb, WriteStatus(cmd.slba, cmd.nlb, d))
  /\ pending' = [pending EXCEPT ![q] = None]
  /\ UNCHANGED <<state, wp, acquired, deviceFull, strayed, sweep>>

-----------------------------------------------------------------------------
(* Zone management send, on one zone.                                      *)

Close(z) ==
  /\ \/ /\ state[z] \in OpenedStates
        /\ state' = [state EXCEPT ![z] = "CLOSED"]
        /\ acquired' = [acquired EXCEPT !["OPEN"] = @ - 1]
        /\ Reply("close", zone_to_slba(z), 0, "SUCCESS")
     \/ /\ state[z] \notin OpenedStates
        /\ UNCHANGED <<state, acquired>>
        /\ Reply("close", zone_to_slba(z), 0,
                 IF state[z] = "CLOSED" THEN "SUCCESS" ELSE "INVALID_TRANSITION")
  /\ UNCHANGED wp

\* Mutation: the open resource is not given back.
ReleasedActiveOnly(z) ==
  [acquired EXCEPT !["ACTIVE"] = @ - One(state[z] \in ActiveStates)]

\* Finishing and resetting give back what an active zone holds.
Released(z) ==
  [acquired EXCEPT !["ACTIVE"] = @ - One(state[z] \in ActiveStates),
                   !["OPEN"]   = @ - One(state[z] \in OpenedStates)]

Finish(z) ==
  /\ IF state[z] \in {"READ_ONLY", "OFFLINE"}
       THEN /\ UNCHANGED <<state, acquired>>
            /\ Reply("finish", zone_to_slba(z), 0, "INVALID_TRANSITION")
       ELSE /\ state' = [state EXCEPT ![z] = "FULL"]
            /\ acquired' = Released(z)
            /\ Reply("finish", zone_to_slba(z), 0, "SUCCESS")
  /\ UNCHANGED wp

\* Mutation: a full zone is opened again.
OpenStatusReopens(z, zrwa) ==
  IF state[z] = "EMPTY" /\ zrwa              THEN "ZRWA_UNAVAIL"
  ELSE IF state[z] \in {"READ_ONLY", "OFFLINE"} THEN "INVALID_TRANSITION"
  ELSE "SUCCESS"

OpenStatus(z, zrwa) ==
  IF state[z] = "EMPTY" /\ ResourceFull("ACTIVE")                  THEN "NO_ACTIVE_ZONE"
  ELSE IF state[z] \in {"EMPTY", "CLOSED"} /\ ResourceFull("OPEN") THEN "NO_OPEN_ZONE"
  ELSE IF state[z] = "EMPTY" /\ zrwa /\ NrZrwaZones = 0            THEN "ZRWA_UNAVAIL"
  ELSE IF state[z] \in {"FULL", "READ_ONLY", "OFFLINE"}            THEN "INVALID_TRANSITION"
  ELSE "SUCCESS"

\* Mutation: the resources are acquired before the random write area is
\* refused.
OpenZoneAcquiresFirst(z, zrwa) ==
  /\ state' = [state EXCEPT ![z] =
                 IF OpenStatus(z, zrwa) = "SUCCESS" THEN "OPENED_EXPL" ELSE @]
  /\ acquired' = [acquired EXCEPT
       !["ACTIVE"] = @ + One(state[z] = "EMPTY"),
       !["OPEN"]   = @ + One(state[z] \in {"EMPTY", "CLOSED"})]
  /\ Reply("open", zone_to_slba(z), 0, OpenStatus(z, zrwa))
  /\ UNCHANGED wp

OpenZone(z, zrwa) ==
  /\ \/ /\ OpenStatus(z, zrwa) = "SUCCESS"
        /\ state' = [state EXCEPT ![z] = "OPENED_EXPL"]
        /\ acquired' = [acquired EXCEPT
             !["ACTIVE"] = @ + One(state[z] = "EMPTY"),
             !["OPEN"]   = @ + One(state[z] \in {"EMPTY", "CLOSED"})]
     \/ /\ OpenStatus(z, zrwa) # "SUCCESS"
        /\ UNCHANGED <<state, acquired>>
  /\ Reply("open", zone_to_slba(z), 0, OpenStatus(z, zrwa))
  /\ UNCHANGED wp

Reset(z) ==
  IF state[z] \in {"READ_ONLY", "OFFLINE"}
    THEN /\ UNCHANGED <<state, wp, acquired>>
         /\ Reply("reset", zone_to_slba(z), 0, "INVALID_TRANSITION")
    ELSE /\ state' = [state EXCEPT ![z] = "EMPTY"]
         /\ wp' = [wp EXCEPT ![z] = zone_to_slba(z)]
         /\ acquired' = Released(z)
         /\ Reply("reset", zone_to_slba(z), 0, "SUCCESS")

\* No code path makes a zone READ_ONLY, so this only ever answers.
Offline(z) ==
  /\ state' = [state EXCEPT ![z] = IF @ = "READ_ONLY" THEN "OFFLINE" ELSE @]
  /\ Reply("offline", zone_to_slba(z), 0,
           IF state[z] \in {"READ_ONLY", "OFFLINE"} THEN "SUCCESS"
                                                    ELSE "INVALID_TRANSITION")
  /\ UNCHANGED <<wp, acquired>>

\* zrwav is never set (NrZrwaZones = 0), which the handler tests first.
FlushExplicitZrwa(z) ==
  /\ Reply("flush_zrwa", zone_to_slba(z), 0, "INVALID_ZONE_OPERATION")
  /\ UNCHANGED <<state, wp, acquired>>

MgmtSend(op, z) ==
  \/ op = "close"      /\ Close(z)
  \/ op = "finish"     /\ Finish(z)
  \/ op = "open"       /\ \E zrwa \in BOOLEAN : OpenZone(z, zrwa)
  \/ op = "reset"      /\ Reset(z)
  \/ op = "offline"    /\ Offline(z)
  \/ op = "flush_zrwa" /\ FlushExplicitZrwa(z)

ZoneMgmt(op, z) ==
  /\ MgmtSend(op, z)
  /\ UNCHANGED <<deviceFull, pending, strayed, sweep>>

\* select_all: the statuses of the single zones are dropped.
SelectAllBegin(op) ==
  /\ sweep' = [op |-> op, next |-> 0]
  /\ Reply(op, 0, 0, "SUBMITTED")
  /\ UNCHANGED <<state, wp, acquired, deviceFull, pending, strayed>>

\* Mutation: the loop runs one zone too far.
SelectAllStepTooFar ==
  /\ MgmtSend(sweep.op, sweep.next)
  /\ sweep' = IF sweep.next = NrZones THEN None ELSE [sweep EXCEPT !.next = @ + 1]
  /\ UNCHANGED <<deviceFull, pending, strayed>>

SelectAllStep ==
  /\ MgmtSend(sweep.op, sweep.next)
  /\ sweep' = IF sweep.next + 1 = NrZones THEN None
                                          ELSE [sweep EXCEPT !.next = @ + 1]
  /\ UNCHANGED <<deviceFull, pending, strayed>>

-----------------------------------------------------------------------------
\* After a stray write the model only stands still.
Overwritten == UNCHANGED vars

Next ==
  \/ /\ ~strayed
     /\ sweep = None
     /\ \/ \E q \in Queues : \/ Submit(q)
                             \/ Retry(q)
                             \/ WriteAccepted(q)
                             \/ WriteStrays(q)
                             \/ WriteRejected(q)
        \/ \E op \in MgmtOps : \/ \E z \in Zones : ZoneMgmt(op, z)
                               \/ SelectAllBegin(op)
  \/ /\ ~strayed
     /\ sweep # None
     /\ SelectAllStep
  \/ /\ strayed
     /\ Overwritten

Spec == Init /\ [][Next]_vars

-----------------------------------------------------------------------------
(* Properties.                                                             *)

ZonesIn(S) == {z \in Zones : state[z] \in S}

\* Types of the zone descriptors, counters, queue heads and the reply: a
\* sweep is always at a zone of the namespace, and a command put off has an
\* address, which need not be one of the namespace.
TypeOK ==
  /\ state \in [Zones -> ZoneStates]
  /\ wp \in [Zones -> Nat]
  /\ acquired \in [Resources -> Int]
  /\ deviceFull \in BOOLEAN
  /\ pending \in [Queues -> Commands \cup {None}]
  /\ strayed \in BOOLEAN
  /\ sweep \in [op : MgmtOps, next : Zones] \cup {None}
  /\ last \in [op : {"none", "write", "append"} \cup MgmtOps, slba : Nat,
               nlb : 0 .. MaxNlb, status : Statuses]

\* The two counters of res_infos are exactly the numbers of active and of
\* open zones, whatever order of writes, opens, closes, finishes, resets and
\* full zones led here: no path acquires twice or forgets a release.  A
\* stray write acquires or releases for a zone that is none.
ResourceAccounting ==
  ~strayed => /\ acquired["ACTIVE"] = Cardinality(ZonesIn(ActiveStates))
              /\ acquired["OPEN"]   = Cardinality(ZonesIn(OpenedStates))

\* The write pointer agrees with the state: at the start of an empty zone,
\* behind the start of an implicitly opened one, short of the capacity of
\* every zone that still accepts writes, never outside its zone.
WritePointerMatchesState ==
  \A z \in Zones :
    /\ wp[z] \in zone_to_slba(z) .. ZoneEnd(z)
    /\ state[z] = "EMPTY"        => wp[z] = zone_to_slba(z)
    /\ state[z] = "OPENED_IMPL"  => wp[z] > zone_to_slba(z)
    /\ state[z] \in ActiveStates => wp[z] < ZoneEnd(z)

\* Because the pools are as large as the namespace, the resource checks of
\* zns_write_check and of open never refuse a command that addresses the
\* namespace, redirected or not.
LimitsNeverBind ==
  last.slba \in Lbas => last.status \notin {"NO_ACTIVE_ZONE", "NO_OPEN_ZONE"}

\* A refused command (any failure but a full medium) leaves the zones and
\* the counters as they were: no check of zns_write_check or open comes
\* after an acquisition it would have to undo.
RefusalLeavesNoTrace ==
  [][last'.status \in Failures \cup {"RETRY"} => UNCHANGED <<state, wp, acquired>>]_vars

\* The write pointer of a zone moves in two ways only: a reset takes it back
\* to the start, or a write or append takes it over exactly the LBAs it was
\* given, so no two commands get the same LBA without a reset in between.
WritePointerMoves ==
  [][\A z \in Zones :
       wp'[z] # wp[z] =>
         \/ /\ wp'[z] = zone_to_slba(z)
            /\ state'[z] = "EMPTY"
         \/ /\ last'.op \in {"write", "append"}
            /\ last'.slba = wp[z]
            /\ wp'[z] = wp[z] + last'.nlb]_vars

\* A full zone stays full until it is reset.
FullUntilReset ==
  [][\A z \in Zones :
       state[z] = "FULL" => state'[z] = "FULL" \/ (last'.op = "reset" /\ state'[z] = "EMPTY")]_vars
=============================================================================
