--------------------------- MODULE ZnsZonesProofs ---------------------------
(***************************************************************************)
(* Proofs about the zone descriptors of ZnsZones, for any number of zones, *)
(* zone size and set of submission queues.                                 *)
(*                                                                         *)
(* The inductive invariant is TypeOK /\ ResourceAccounting /\              *)
(* WritePointerMatchesState.  Every command that changes a zone is         *)
(* summarised by MovesZone: one zone gets a new state, and each counter    *)
(* changes by what the new state holds minus what the old one held.        *)
(*                                                                         *)
(* Under it every handler is shown to take Lawful steps: what no command   *)
(* does to a zone.                                                         *)
(*                                                                         *)
(* Nothing is assumed of the memory behind the descriptors but that it     *)
(* reads as numbers: the invariant holds while appends are redirected by   *)
(* it, and up to the first write it accepts the counters are exact.        *)
(***************************************************************************)
EXTENDS ZnsZones, FiniteSetTheorems, TLAPS

MovesZone(z, s) ==
  /\ state' = [state EXCEPT ![z] = s]
  /\ acquired' \in [Resources -> Int]
  /\ acquired'["ACTIVE"] = acquired["ACTIVE"] + One(s \in ActiveStates)
                                              - One(state[z] \in ActiveStates)
  /\ acquired'["OPEN"]   = acquired["OPEN"]   + One(s \in OpenedStates)
                                              - One(state[z] \in OpenedStates)

Replies == [op : {"none", "write", "append"} \cup MgmtOps, slba : Nat,
            nlb : 0 .. MaxNlb, status : Statuses]

\* The counters are exact.
CountersMatch ==
  /\ acquired["ACTIVE"] = Cardinality(ZonesIn(ActiveStates))
  /\ acquired["OPEN"]   = Cardinality(ZonesIn(OpenedStates))

\* The part of the invariant a command can disturb through one zone.
DescriptorInv ==
  /\ state \in [Zones -> ZoneStates]
  /\ wp \in [Zones -> Nat]
  /\ acquired \in [Resources -> Int]
  /\ CountersMatch
  /\ WritePointerMatchesState

ZoneInv == TypeOK /\ ResourceAccounting /\ WritePointerMatchesState

-----------------------------------------------------------------------------
(* Counting zones.                                                         *)

\* The zones in a class of states are finitely many, at most all of them.
LEMMA ZonesInFinite ==
  ASSUME NEW P
  PROVE  /\ IsFiniteSet(ZonesIn(P))
         /\ Cardinality(ZonesIn(P)) \in 0 .. NrZones
<1>1. IsFiniteSet(Zones) /\ Cardinality(Zones) = NrZones
  BY FS_Interval, NrZonesAssumption DEF Zones
<1>2. ZonesIn(P) \in SUBSET Zones
  BY DEF ZonesIn
<1> QED
  BY <1>1, <1>2, FS_Subset, FS_CardinalityType, NrZonesAssumption

\* While some zone is outside the class, the class has fewer than all zones.
LEMMA ZonesInSlack ==
  ASSUME NEW P, NEW z \in Zones, state[z] \notin P
  PROVE  Cardinality(ZonesIn(P)) < NrZones
<1>1. IsFiniteSet(Zones) /\ Cardinality(Zones) = NrZones
  BY FS_Interval, NrZonesAssumption DEF Zones
<1>2. ZonesIn(P) \in SUBSET Zones /\ ZonesIn(P) # Zones
  BY DEF ZonesIn
<1>3. Cardinality(ZonesIn(P)) <= NrZones /\ Cardinality(ZonesIn(P)) # NrZones
  BY <1>1, <1>2, FS_Subset
<1> QED
  BY <1>3, ZonesInFinite, NrZonesAssumption

\* A zone that changes state moves the count of a class by at most one.
LEMMA ZonesInUpdate ==
  ASSUME NEW P, NEW z \in Zones, NEW s,
         state \in [Zones -> ZoneStates], state' = [state EXCEPT ![z] = s]
  PROVE  Cardinality(ZonesIn(P)') =
           Cardinality(ZonesIn(P)) + One(s \in P) - One(state[z] \in P)
<1> DEFINE S == ZonesIn(P)
           T == ZonesIn(P)'
<1>1. IsFiniteSet(S) /\ Cardinality(S) \in Nat
  BY ZonesInFinite, NrZonesAssumption
<1>2. z \in S <=> state[z] \in P
  BY DEF ZonesIn
<1>3. One(state[z] \in P) = IF z \in S THEN 1 ELSE 0
  BY <1>2 DEF One
<1>4. CASE s \in P
  <2>1. T = S \cup {z}
    BY <1>4 DEF ZonesIn
  <2>2. One(s \in P) = 1
    BY <1>4 DEF One
  <2>3. Cardinality(T) = Cardinality(S) + One(s \in P) - One(state[z] \in P)
    <3> HIDE DEF S, T
    <3>1. Cardinality(T) = IF z \in S THEN Cardinality(S) ELSE Cardinality(S) + 1
      BY <1>1, <2>1, FS_AddElement
    <3> QED
      BY <1>1, <1>3, <2>2, <3>1
  <2> QED
    BY <2>3
<1>5. CASE s \notin P
  <2>1. T = S \ {z}
    BY <1>5 DEF ZonesIn
  <2>2. One(s \in P) = 0
    BY <1>5 DEF One
  <2>3. Cardinality(T) = Cardinality(S) + One(s \in P) - One(state[z] \in P)
    <3> HIDE DEF S, T
    <3>1. Cardinality(T) = IF z \in S THEN Cardinality(S) - 1 ELSE Cardinality(S)
      BY <1>1, <2>1, FS_RemoveElement
    <3> QED
      BY <1>1, <1>3, <2>2, <3>1
  <2> QED
    BY <2>3
<1> QED
  BY <1>4, <1>5

\* The counters stay exact across every move of one zone.
LEMMA AccountingPreserved ==
  ASSUME state \in [Zones -> ZoneStates], CountersMatch,
         NEW z \in Zones, NEW s, MovesZone(z, s)
  PROVE  CountersMatch'
<1>1. /\ Cardinality(ZonesIn(ActiveStates)') =
           Cardinality(ZonesIn(ActiveStates)) + One(s \in ActiveStates)
             - One(state[z] \in ActiveStates)
      /\ Cardinality(ZonesIn(OpenedStates)') =
           Cardinality(ZonesIn(OpenedStates)) + One(s \in OpenedStates)
             - One(state[z] \in OpenedStates)
  BY ZonesInUpdate DEF MovesZone
<1> QED
  BY <1>1 DEF MovesZone, CountersMatch
-----------------------------------------------------------------------------
(* Addresses.                                                              *)

\* A zone has at least one LBA, and addresses are natural numbers.
LEMMA ZoneAddresses ==
  ASSUME NEW z \in Zones
  PROVE  /\ zone_to_slba(z) \in Nat
         /\ ZoneEnd(z) \in Nat
         /\ zone_to_slba(z) < ZoneEnd(z)
<1>1. z \in Nat /\ ZoneSize \in Nat /\ ZoneCapacity \in Nat /\ ZoneCapacity > 0
  BY NrZonesAssumption, ZoneCapacityAssumption DEF Zones
<1>2. zone_to_slba(z) \in Nat
  BY <1>1 DEF zone_to_slba
<1> QED
  BY <1>1, <1>2 DEF ZoneEnd

\* An LBA of the namespace lies in one of its zones.
LEMMA LbaInZone ==
  ASSUME NEW lba \in 0 .. NrZones * ZoneSize - 1
  PROVE  lba_to_zone(lba) \in Zones
<1>1. NrZones \in Nat /\ ZoneSize \in Nat /\ ZoneSize > 0
  BY NrZonesAssumption, ZoneCapacityAssumption
<1>2. lba \in Nat /\ lba < NrZones * ZoneSize
  BY <1>1
<1>3. lba \div ZoneSize \in Nat
  BY <1>1, <1>2
<1>4. (lba \div ZoneSize) * ZoneSize <= lba
  BY <1>1, <1>2
<1>5. lba \div ZoneSize < NrZones
  <2> DEFINE d == lba \div ZoneSize
  <2>1. SUFFICES ASSUME d >= NrZones PROVE FALSE
    BY <1>1, <1>3
  <2>2. d \in Nat /\ d * ZoneSize <= lba
    BY <1>3, <1>4
  <2> HIDE DEF d
  <2>3. d * ZoneSize >= NrZones * ZoneSize
    BY <1>1, <2>1, <2>2
  <2> QED
    BY <1>1, <1>2, <2>2, <2>3
<1> QED
  BY <1>1, <1>3, <1>5 DEF lba_to_zone, Zones

\* Every number is an LBA of some zone, of the namespace or not.
LEMMA LbaHasZone ==
  ASSUME NEW lba \in Nat
  PROVE  lba_to_zone(lba) \in Nat
<1>1. ZoneSize \in Nat /\ ZoneSize > 0
  BY ZoneCapacityAssumption
<1> QED
  BY <1>1 DEF lba_to_zone

\* A descriptor is read as numbers and a state, and those of the zones are
\* what the variables say.
LEMMA DescriptorRead ==
  ASSUME wp \in [Zones -> Nat], NEW z, NEW d \in Descriptors(z)
  PROVE  /\ d.wp \in Nat
         /\ z \in Zones => /\ d.state = state[z]
                          /\ d.wp = wp[z]
                          /\ d.zslba = zone_to_slba(z)
                          /\ d.zone_capacity = ZoneCapacity
BY BehindAssumption DEF Descriptors

-----------------------------------------------------------------------------
(* One lemma per command: what it does to the descriptors and its reply.   *)

\* An inactive zone leaves room in both pools: no check ever finds them full.
LEMMA RoomForInactive ==
  ASSUME DescriptorInv, NEW z \in Zones
  PROVE  /\ state[z] \notin ActiveStates => ~ResourceFull("ACTIVE")
         /\ state[z] \notin OpenedStates => ~ResourceFull("OPEN")
<1>1. ASSUME state[z] \notin ActiveStates PROVE ~ResourceFull("ACTIVE")
  <2>1. Cardinality(ZonesIn(ActiveStates)) < NrZones
    BY <1>1, ZonesInSlack
  <2>2. acquired["ACTIVE"] = Cardinality(ZonesIn(ActiveStates))
    BY DEF DescriptorInv, CountersMatch
  <2>3. Cardinality(ZonesIn(ActiveStates)) \in Nat
    BY ZonesInFinite, NrZonesAssumption
  <2> QED
    BY <2>1, <2>2, <2>3, NrZonesAssumption DEF ResourceFull, TotalCount
<1>2. ASSUME state[z] \notin OpenedStates PROVE ~ResourceFull("OPEN")
  <2>1. Cardinality(ZonesIn(OpenedStates)) < NrZones
    BY <1>2, ZonesInSlack
  <2>2. acquired["OPEN"] = Cardinality(ZonesIn(OpenedStates))
    BY DEF DescriptorInv, CountersMatch
  <2>3. Cardinality(ZonesIn(OpenedStates)) \in Nat
    BY ZonesInFinite, NrZonesAssumption
  <2> QED
    BY <2>1, <2>2, <2>3, NrZonesAssumption DEF ResourceFull, TotalCount
<1> QED
  BY <1>1, <1>2

\* What an accepted write knows of its zone.
LEMMA AcceptedWrite ==
  ASSUME DescriptorInv, NEW slba \in Nat, NEW nlb \in 1 .. MaxNlb,
         lba_to_zone(slba) \in Zones, NEW d \in Descriptors(lba_to_zone(slba)),
         WriteStatus(slba, nlb, d) = "SUCCESS"
  PROVE  LET z == lba_to_zone(slba)
         IN  /\ slba = wp[z]
             /\ wp[z] + nlb <= ZoneEnd(z)
             /\ state[z] \in OpenedStates \cup {"EMPTY", "CLOSED"}
<1> DEFINE z == lba_to_zone(slba)
<1>1. /\ d.state = state[z]
      /\ d.wp = wp[z]
      /\ d.zone_capacity = ZoneCapacity
  BY DescriptorRead DEF DescriptorInv
<1>2. /\ slba = d.wp
      /\ ~(d.wp + nlb > zone_to_slba(z) + d.zone_capacity)
      /\ d.state \notin {"FULL", "READ_ONLY", "OFFLINE"}
  BY Zenon DEF WriteStatus
<1>3. wp[z] \in Nat /\ state[z] \in ZoneStates
  BY DEF DescriptorInv
<1>4. ZoneEnd(z) \in Nat /\ nlb \in Nat
  BY ZoneAddresses, MaxNlbAssumption
<1>5. wp[z] + nlb <= ZoneEnd(z)
  BY <1>1, <1>2, <1>3, <1>4 DEF ZoneEnd
<1>6. state[z] \in OpenedStates \cup {"EMPTY", "CLOSED"}
  BY <1>1, <1>2, <1>3 DEF ZoneStates, OpenedStates
<1> QED
  BY <1>1, <1>2, <1>5, <1>6

\* A zone that moves keeps the descriptors consistent when its new state and
\* its new write pointer agree.
LEMMA MovePreserves ==
  ASSUME DescriptorInv, NEW z \in Zones, NEW s \in ZoneStates,
         NEW p \in zone_to_slba(z) .. ZoneEnd(z),
         MovesZone(z, s), wp' = [wp EXCEPT ![z] = p],
         s = "EMPTY"        => p = zone_to_slba(z),
         s = "OPENED_IMPL"  => p > zone_to_slba(z),
         s \in ActiveStates => p < ZoneEnd(z)
  PROVE  DescriptorInv'
<1>1. p \in Nat
  BY ZoneAddresses
<1>2. /\ state' \in [Zones -> ZoneStates]
      /\ wp' \in [Zones -> Nat]
      /\ acquired' \in [Resources -> Int]
  BY <1>1 DEF DescriptorInv, MovesZone
<1>3. CountersMatch'
  BY AccountingPreserved DEF DescriptorInv
<1>4. WritePointerMatchesState'
  <2>1. SUFFICES ASSUME NEW y \in Zones
                 PROVE  /\ wp'[y] \in zone_to_slba(y) .. ZoneEnd(y)
                        /\ state'[y] = "EMPTY"        => wp'[y] = zone_to_slba(y)
                        /\ state'[y] = "OPENED_IMPL"  => wp'[y] > zone_to_slba(y)
                        /\ state'[y] \in ActiveStates => wp'[y] < ZoneEnd(y)
    BY DEF WritePointerMatchesState, zone_to_slba, ZoneEnd
  <2>2. CASE y = z
    BY <2>2 DEF DescriptorInv, MovesZone
  <2>3. CASE y # z
    <3>1. state'[y] = state[y] /\ wp'[y] = wp[y]
      BY <2>3 DEF DescriptorInv, MovesZone
    <3> QED
      BY <3>1 DEF DescriptorInv, WritePointerMatchesState
  <2> QED
    BY <2>2, <2>3
<1> QED
  BY <1>2, <1>3, <1>4 DEF DescriptorInv

\* An accepted write or append.
LEMMA AdvancePreserves ==
  ASSUME DescriptorInv, NEW z \in Zones, NEW nlb \in 1 .. MaxNlb,
         wp[z] + nlb <= ZoneEnd(z),
         state[z] \in OpenedStates \cup {"EMPTY", "CLOSED"},
         AdvanceZone(z, nlb)
  PROVE  DescriptorInv'
<1> DEFINE full == wp[z] + nlb = ZoneEnd(z)
           s == IF full THEN "FULL"
                ELSE IF state[z] \in {"EMPTY", "CLOSED"} THEN "OPENED_IMPL"
                                                         ELSE state[z]
<1>1. /\ wp[z] \in zone_to_slba(z) .. ZoneEnd(z)
      /\ zone_to_slba(z) \in Nat /\ ZoneEnd(z) \in Nat
      /\ nlb \in Nat /\ nlb > 0
  BY ZoneAddresses, MaxNlbAssumption DEF DescriptorInv, WritePointerMatchesState
<1>2. /\ state' = [state EXCEPT ![z] = s]
      /\ wp' = [wp EXCEPT ![z] = wp[z] + nlb]
      /\ acquired' = [acquired EXCEPT
           !["ACTIVE"] = @ + One(state[z] = "EMPTY") - One(full),
           !["OPEN"]   = @ + One(state[z] \in {"EMPTY", "CLOSED"}) - One(full)]
  BY DEF AdvanceZone, AfterWrite, DescriptorInv
<1>3. s \in ZoneStates
  BY DEF ZoneStates, OpenedStates
<1>4. MovesZone(z, s)
  <2>1. /\ acquired["ACTIVE"] \in Int /\ acquired["OPEN"] \in Int
        /\ \A b \in BOOLEAN : One(b) \in Int
    BY DEF DescriptorInv, Resources, One
  <2>2. /\ acquired' \in [Resources -> Int]
        /\ acquired'["ACTIVE"] = acquired["ACTIVE"] + One(state[z] = "EMPTY") - One(full)
        /\ acquired'["OPEN"] = acquired["OPEN"] + One(state[z] \in {"EMPTY", "CLOSED"})
                                               - One(full)
    <3> HIDE DEF full
    <3> QED
      BY <1>2, <2>1 DEF DescriptorInv, Resources, One
  <2>3. /\ One(state[z] = "EMPTY") = 1 - One(state[z] \in ActiveStates)
        /\ One(state[z] \in {"EMPTY", "CLOSED"}) = 1 - One(state[z] \in OpenedStates)
        /\ One(full) = 1 - One(s \in ActiveStates)
        /\ One(full) = 1 - One(s \in OpenedStates)
    BY DEF One, ActiveStates, OpenedStates
  <2>4. /\ One(state[z] \in ActiveStates) \in Int /\ One(state[z] \in OpenedStates) \in Int
        /\ One(s \in ActiveStates) \in Int /\ One(s \in OpenedStates) \in Int
    BY DEF One
  <2> HIDE DEF s, full
  <2> QED
    BY <1>2, <2>1, <2>2, <2>3, <2>4 DEF MovesZone
<1>5. /\ wp[z] + nlb \in zone_to_slba(z) .. ZoneEnd(z)
      /\ s = "EMPTY"        => wp[z] + nlb = zone_to_slba(z)
      /\ s = "OPENED_IMPL"  => wp[z] + nlb > zone_to_slba(z)
      /\ s \in ActiveStates => wp[z] + nlb < ZoneEnd(z)
  BY <1>1 DEF ActiveStates, OpenedStates
<1> HIDE DEF s
<1> QED
  BY <1>2, <1>3, <1>4, <1>5, MovePreserves

\* A command that leaves the descriptors alone.
LEMMA IdlePreserves ==
  ASSUME DescriptorInv, UNCHANGED <<state, wp, acquired>>
  PROVE  DescriptorInv'
BY DEF DescriptorInv, CountersMatch, WritePointerMatchesState, ZonesIn,
       zone_to_slba, ZoneEnd

\* Close.
LEMMA ClosePreserves ==
  ASSUME DescriptorInv, NEW z \in Zones, Close(z)
  PROVE  DescriptorInv'
<1>1. CASE state[z] \in OpenedStates
  <2>1. /\ state' = [state EXCEPT ![z] = "CLOSED"]
        /\ acquired' = [acquired EXCEPT !["OPEN"] = @ - 1]
        /\ wp' = [wp EXCEPT ![z] = wp[z]]
    BY <1>1 DEF Close, DescriptorInv
  <2>2. MovesZone(z, "CLOSED")
    BY <1>1, <2>1 DEF MovesZone, DescriptorInv, Resources, One, ActiveStates, OpenedStates
  <2>3. /\ wp[z] \in zone_to_slba(z) .. ZoneEnd(z)
        /\ wp[z] < ZoneEnd(z)
    BY <1>1 DEF DescriptorInv, WritePointerMatchesState, ActiveStates
  <2> QED
    BY <2>1, <2>2, <2>3, MovePreserves DEF ZoneStates
<1>2. CASE state[z] \notin OpenedStates
  BY <1>2, IdlePreserves DEF Close
<1> QED
  BY <1>1, <1>2

\* Finish.
LEMMA FinishPreserves ==
  ASSUME DescriptorInv, NEW z \in Zones, Finish(z)
  PROVE  DescriptorInv'
<1>1. CASE state[z] \in {"READ_ONLY", "OFFLINE"}
  BY <1>1, IdlePreserves DEF Finish
<1>2. CASE state[z] \notin {"READ_ONLY", "OFFLINE"}
  <2>1. /\ state' = [state EXCEPT ![z] = "FULL"]
        /\ acquired' = Released(z)
        /\ wp' = [wp EXCEPT ![z] = wp[z]]
    BY <1>2 DEF Finish, DescriptorInv
  <2>2. MovesZone(z, "FULL")
    BY <2>1 DEF MovesZone, Released, DescriptorInv, Resources, One, ActiveStates, OpenedStates
  <2>3. wp[z] \in zone_to_slba(z) .. ZoneEnd(z)
    BY DEF DescriptorInv, WritePointerMatchesState
  <2> QED
    BY <2>1, <2>2, <2>3, MovePreserves DEF ZoneStates, ActiveStates, OpenedStates
<1> QED
  BY <1>1, <1>2

\* Open.
LEMMA OpenPreserves ==
  ASSUME DescriptorInv, NEW z \in Zones, NEW zrwa \in BOOLEAN, OpenZone(z, zrwa)
  PROVE  DescriptorInv'
<1>1. CASE OpenStatus(z, zrwa) = "SUCCESS"
  <2>1. state[z] \in OpenedStates \cup {"EMPTY", "CLOSED"}
    <3>1. state[z] \notin {"FULL", "READ_ONLY", "OFFLINE"}
      BY <1>1, Zenon DEF OpenStatus
    <3> QED
      BY <3>1 DEF DescriptorInv, ZoneStates, OpenedStates
  <2>2. /\ state' = [state EXCEPT ![z] = "OPENED_EXPL"]
        /\ acquired' = [acquired EXCEPT
             !["ACTIVE"] = @ + One(state[z] = "EMPTY"),
             !["OPEN"]   = @ + One(state[z] \in {"EMPTY", "CLOSED"})]
        /\ wp' = [wp EXCEPT ![z] = wp[z]]
    BY <1>1 DEF OpenZone, DescriptorInv
  <2>3. MovesZone(z, "OPENED_EXPL")
    BY <2>1, <2>2 DEF MovesZone, DescriptorInv, Resources, One, ActiveStates, OpenedStates
  <2>4. /\ wp[z] \in zone_to_slba(z) .. ZoneEnd(z)
        /\ wp[z] < ZoneEnd(z)
    <3>1. state[z] = "EMPTY" \/ state[z] \in ActiveStates
      BY <2>1 DEF ActiveStates
    <3> QED
      BY <3>1, ZoneAddresses DEF DescriptorInv, WritePointerMatchesState
  <2> QED
    BY <2>2, <2>3, <2>4, MovePreserves DEF ZoneStates
<1>2. CASE OpenStatus(z, zrwa) # "SUCCESS"
  BY <1>2, IdlePreserves DEF OpenZone
<1> QED
  BY <1>1, <1>2

\* Reset.
LEMMA ResetPreserves ==
  ASSUME DescriptorInv, NEW z \in Zones, Reset(z)
  PROVE  DescriptorInv'
<1>1. CASE state[z] \in {"READ_ONLY", "OFFLINE"}
  BY <1>1, IdlePreserves DEF Reset
<1>2. CASE state[z] \notin {"READ_ONLY", "OFFLINE"}
  <2>1. /\ state' = [state EXCEPT ![z] = "EMPTY"]
        /\ acquired' = Released(z)
        /\ wp' = [wp EXCEPT ![z] = zone_to_slba(z)]
    BY <1>2 DEF Reset
  <2>2. MovesZone(z, "EMPTY")
    BY <2>1 DEF MovesZone, Released, DescriptorInv, Resources, One, ActiveStates, OpenedStates
  <2>3. zone_to_slba(z) \in zone_to_slba(z) .. ZoneEnd(z)
    BY ZoneAddresses
  <2> QED
    BY <2>1, <2>2, <2>3, MovePreserves DEF ZoneStates, ActiveStates, OpenedStates
<1> QED
  BY <1>1, <1>2

\* Offline: a read-only zone holds no resources before or after.
LEMMA OfflinePreserves ==
  ASSUME DescriptorInv, NEW z \in Zones, Offline(z)
  PROVE  DescriptorInv'
<1> DEFINE s == IF state[z] = "READ_ONLY" THEN "OFFLINE" ELSE state[z]
<1>1. /\ state' = [state EXCEPT ![z] = s]
      /\ wp' = [wp EXCEPT ![z] = wp[z]]
      /\ acquired' = acquired
      /\ s \in ZoneStates
  BY DEF Offline, DescriptorInv, ZoneStates
<1>2. MovesZone(z, s)
  BY <1>1 DEF MovesZone, DescriptorInv, Resources, One, ActiveStates, OpenedStates
<1>3. /\ wp[z] \in zone_to_slba(z) .. ZoneEnd(z)
      /\ s = "EMPTY"        => wp[z] = zone_to_slba(z)
      /\ s = "OPENED_IMPL"  => wp[z] > zone_to_slba(z)
      /\ s \in ActiveStates => wp[z] < ZoneEnd(z)
  BY DEF DescriptorInv, WritePointerMatchesState, ActiveStates, OpenedStates
<1> HIDE DEF s
<1> QED
  BY <1>1, <1>2, <1>3, MovePreserves

\* Zone management send on one zone keeps the descriptors consistent.
LEMMA MgmtPreserves ==
  ASSUME DescriptorInv, NEW z \in Zones, NEW op, MgmtSend(op, z)
  PROVE  DescriptorInv'
<1>1. CASE Close(z)
  BY <1>1, ClosePreserves
<1>2. CASE Finish(z)
  BY <1>2, FinishPreserves
<1>3. CASE \E zrwa \in BOOLEAN : OpenZone(z, zrwa)
  BY <1>3, OpenPreserves
<1>4. CASE Reset(z)
  BY <1>4, ResetPreserves
<1>5. CASE Offline(z)
  BY <1>5, OfflinePreserves
<1>6. CASE FlushExplicitZrwa(z)
  BY <1>6, IdlePreserves DEF FlushExplicitZrwa
<1> QED
  BY <1>1, <1>2, <1>3, <1>4, <1>5, <1>6 DEF MgmtSend

\* Zone management send answers with a status, and never for lack of a zone.
LEMMA MgmtReplies ==
  ASSUME DescriptorInv, NEW z \in Zones, NEW op, MgmtSend(op, z)
  PROVE  last' \in Replies /\ last'.status \notin {"NO_ACTIVE_ZONE", "NO_OPEN_ZONE"}
<1> DEFINE Plain == {"SUCCESS", "INVALID_TRANSITION", "INVALID_ZONE_OPERATION", "ZRWA_UNAVAIL"}
<1>1. zone_to_slba(z) \in Nat /\ 0 \in 0 .. MaxNlb
  BY ZoneAddresses, MaxNlbAssumption
<1>2. SUFFICES \E o \in MgmtOps, st \in Plain : Reply(o, zone_to_slba(z), 0, st)
  BY <1>1 DEF Reply, Replies, Statuses, Failures
<1>3. CASE \E zrwa \in BOOLEAN : OpenZone(z, zrwa)
  <2>1. PICK zrwa \in BOOLEAN : OpenZone(z, zrwa)
    BY <1>3
  <2>2. /\ ~(state[z] = "EMPTY" /\ ResourceFull("ACTIVE"))
        /\ ~(state[z] \in {"EMPTY", "CLOSED"} /\ ResourceFull("OPEN"))
    BY RoomForInactive DEF ActiveStates, OpenedStates
  <2>3. OpenStatus(z, zrwa) \in Plain
    BY <2>2, Zenon DEF OpenStatus
  <2>4. Reply("open", zone_to_slba(z), 0, OpenStatus(z, zrwa))
    BY <2>1 DEF OpenZone
  <2> QED
    BY <2>3, <2>4, Zenon DEF MgmtOps
<1>4. CASE Close(z) \/ Finish(z) \/ Reset(z) \/ Offline(z) \/ FlushExplicitZrwa(z)
  BY <1>4 DEF Close, Finish, Reset, Offline, FlushExplicitZrwa, MgmtOps
<1> QED
  BY <1>3, <1>4 DEF MgmtSend

-----------------------------------------------------------------------------
(* The specification.                                                      *)

\* An append is redirected to an address again, and keeps its length.
LEMMA RedirectedCommand ==
  ASSUME TypeOK, NEW q \in Queues, pending[q] # None,
         NEW cmd \in Redirections(pending[q])
  PROVE  cmd \in Commands
<1>1. pending[q] \in Commands
  BY DEF TypeOK
<1>2. CASE pending[q].op = "append"
  <2>1. PICK d \in Descriptors(lba_to_zone(pending[q].slba)) :
               cmd = [pending[q] EXCEPT !.slba = d.wp]
    BY <1>2 DEF Redirections
  <2>2. d.wp \in Nat
    BY DescriptorRead DEF TypeOK
  <2> QED
    BY <1>1, <2>1, <2>2 DEF Commands
<1>3. CASE pending[q].op # "append"
  BY <1>1, <1>3 DEF Redirections
<1> QED
  BY <1>2, <1>3

\* zns_write_check answers with a status, and blames a full pool only on a
\* write to memory behind the descriptors.
LEMMA WriteStatusRange ==
  ASSUME DescriptorInv, NEW slba \in Nat, NEW nlb \in 1 .. MaxNlb,
         NEW d \in Descriptors(lba_to_zone(slba))
  PROVE  /\ WriteStatus(slba, nlb, d) \in Statuses
         /\ slba \in Lbas =>
              WriteStatus(slba, nlb, d) \notin {"NO_ACTIVE_ZONE", "NO_OPEN_ZONE"}
<1> DEFINE z == lba_to_zone(slba)
<1>1. WriteStatus(slba, nlb, d) \in
        {"BOUNDARY", "INVALID_WRITE", "NO_ACTIVE_ZONE", "NO_OPEN_ZONE", "ERR_FULL",
         "ERR_READ_ONLY", "ERR_OFFLINE", "SUCCESS"}
  BY Zenon DEF WriteStatus
<1>2. ASSUME slba \in Lbas
      PROVE  WriteStatus(slba, nlb, d) \notin {"NO_ACTIVE_ZONE", "NO_OPEN_ZONE"}
  <2>1. z \in Zones
    BY <1>2, LbaInZone DEF Lbas
  <2>2. d.state = state[z]
    BY <2>1, DescriptorRead DEF DescriptorInv
  <2>3. /\ ~(d.state = "EMPTY" /\ ResourceFull("ACTIVE"))
        /\ ~(d.state \in {"EMPTY", "CLOSED"} /\ ResourceFull("OPEN"))
    BY <2>1, <2>2, RoomForInactive DEF ActiveStates, OpenedStates
  <2> QED
    BY <2>3, Zenon DEF WriteStatus
<1> QED
  BY <1>1, <1>2 DEF Statuses, Failures

\* The types of Init.
LEMMA InitInv == Init => ZoneInv
<1> SUFFICES ASSUME Init PROVE ZoneInv
  OBVIOUS
<1>1. \A z \in Zones : zone_to_slba(z) \in Nat /\ zone_to_slba(z) < ZoneEnd(z)
                                              /\ ZoneEnd(z) \in Nat
  BY ZoneAddresses
<1>2. TypeOK
  <2>1. last \in Replies
    BY MaxNlbAssumption DEF Init, Replies, Statuses
  <2>2. state \in [Zones -> ZoneStates] /\ wp \in [Zones -> Nat]
    BY <1>1 DEF Init, ZoneStates
  <2>3. acquired \in [Resources -> Int]
    BY DEF Init
  <2>4. deviceFull \in BOOLEAN
    BY Zenon DEF Init
  <2>5. pending \in [Queues -> Commands \cup {None}] /\ strayed \in BOOLEAN
    BY DEF Init
  <2>6. sweep \in [op : MgmtOps, next : Zones] \cup {None}
    BY DEF Init
  <2> QED
    BY <2>1, <2>2, <2>3, <2>4, <2>5, <2>6, Zenon DEF TypeOK, Replies
<1>3. ResourceAccounting
  <2>1. ZonesIn(ActiveStates) = {} /\ ZonesIn(OpenedStates) = {}
    BY DEF Init, ZonesIn, ActiveStates, OpenedStates
  <2> QED
    BY <2>1, FS_EmptySet DEF Init, ResourceAccounting, Resources
<1>4. WritePointerMatchesState
  BY <1>1 DEF Init, WritePointerMatchesState, ActiveStates, OpenedStates
<1> QED
  BY <1>2, <1>3, <1>4 DEF ZoneInv

\* ZoneInv is inductive, and no step answers for lack of a zone.
LEMMA StepInv ==
  ASSUME ZoneInv, LimitsNeverBind, [Next]_vars
  PROVE  ZoneInv' /\ LimitsNeverBind'
<1>0. TypeOK /\ (~strayed => DescriptorInv)
  BY DEF ZoneInv, TypeOK, DescriptorInv, ResourceAccounting, CountersMatch
<1> DEFINE Kept == DescriptorInv' /\ last' \in Replies /\ LimitsNeverBind'
           Heads == /\ deviceFull' \in BOOLEAN
                    /\ pending' \in [Queues -> Commands \cup {None}]
                    /\ strayed' \in BOOLEAN
                    /\ sweep' \in [op : MgmtOps, next : Zones] \cup {None}
           Good == ZoneInv' /\ LimitsNeverBind'
<1>1. ASSUME Kept, Heads PROVE Good
  BY <1>1 DEF ZoneInv, TypeOK, DescriptorInv, Replies, ResourceAccounting, CountersMatch
<1>2. /\ deviceFull \in BOOLEAN
      /\ pending \in [Queues -> Commands \cup {None}]
      /\ strayed \in BOOLEAN
      /\ sweep \in [op : MgmtOps, next : Zones] \cup {None}
      /\ last \in Replies
  BY <1>0 DEF TypeOK, Replies
<1>3. ASSUME ~strayed, NEW q \in Queues, Submit(q) PROVE Kept /\ Heads
  <2>1. DescriptorInv'
    BY <1>0, <1>3, IdlePreserves DEF Submit
  <2>2. last' \in Replies /\ LimitsNeverBind'
    BY <1>3, MaxNlbAssumption DEF Submit, Reply, Replies, Statuses, LimitsNeverBind
  <2>3. pending' \in [Queues -> Commands \cup {None}]
    BY <1>2, <1>3, NrZonesAssumption, ZoneCapacityAssumption
       DEF Submit, HostCommands, Commands, Lbas
  <2> QED
    BY <1>2, <1>3, <2>1, <2>2, <2>3 DEF Submit
<1>4. ASSUME ~strayed, NEW q \in Queues, Retry(q) PROVE Kept /\ Heads
  <2>1. PICK cmd \in Redirections(pending[q]) :
               /\ pending' = [pending EXCEPT ![q] = cmd]
               /\ Reply(cmd.op, cmd.slba, cmd.nlb, "RETRY")
    BY <1>4 DEF Retry
  <2>2. cmd \in Commands
    BY <1>0, <1>4, RedirectedCommand DEF Retry
  <2>3. DescriptorInv'
    BY <1>0, <1>4, IdlePreserves DEF Retry
  <2>4. last' \in Replies /\ LimitsNeverBind'
    BY <2>1, <2>2, MaxNlbAssumption DEF Commands, Reply, Replies, Statuses, LimitsNeverBind
  <2> QED
    BY <1>2, <1>4, <2>1, <2>2, <2>3, <2>4 DEF Retry
<1>5. ASSUME ~strayed, NEW q \in Queues, WriteAccepted(q) PROVE Kept /\ Heads
  <2>1. PICK cmd \in Redirections(pending[q]) :
               /\ lba_to_zone(cmd.slba) \in Zones
               /\ \E d \in Descriptors(lba_to_zone(cmd.slba)) :
                    WriteStatus(cmd.slba, cmd.nlb, d) = "SUCCESS"
               /\ AdvanceZone(lba_to_zone(cmd.slba), cmd.nlb)
               /\ Accepted(cmd)
    BY <1>5, Zenon DEF WriteAccepted
  <2>2. cmd \in Commands
    BY <1>0, <1>5, RedirectedCommand DEF WriteAccepted
  <2>3. cmd.slba \in Nat /\ cmd.nlb \in 1 .. MaxNlb
    BY <2>2 DEF Commands
  <2>4. DescriptorInv'
    BY <1>0, <1>5, <2>1, <2>3, AcceptedWrite, AdvancePreserves
  <2>5. last' \in Replies /\ LimitsNeverBind'
    BY <2>1, <2>2, MaxNlbAssumption
       DEF Accepted, Commands, Reply, Replies, Statuses, LimitsNeverBind
  <2> QED
    BY <1>2, <1>5, <2>4, <2>5 DEF WriteAccepted, Accepted
<1>6. ASSUME ~strayed, NEW q \in Queues, WriteStrays(q) PROVE Good
  <2>1. PICK cmd \in Redirections(pending[q]) : Accepted(cmd)
    BY <1>6, Zenon DEF WriteStrays
  <2>2. cmd \in Commands
    BY <1>0, <1>6, RedirectedCommand DEF WriteStrays
  <2>3. last' \in Replies /\ LimitsNeverBind'
    BY <2>1, <2>2, MaxNlbAssumption
       DEF Accepted, Commands, Reply, Replies, Statuses, LimitsNeverBind
  <2>4. Heads
    BY <1>2, <1>6, <2>1 DEF WriteStrays, Accepted
  <2>5. acquired' \in [Resources -> Int]
    <3>1. \E s, full : acquired' = AfterWrite(s, full)
      BY <1>6, Zenon DEF WriteStrays
    <3> QED
      BY <1>0, <3>1 DEF TypeOK, DescriptorInv, AfterWrite, One, Resources
  <2>6. UNCHANGED <<state, wp>> /\ strayed'
    BY <1>6 DEF WriteStrays
  <2>7. WritePointerMatchesState'
    BY <2>6 DEF ZoneInv, WritePointerMatchesState
  <2> QED
    BY <1>0, <2>3, <2>4, <2>5, <2>6, <2>7
       DEF ZoneInv, TypeOK, Replies, ResourceAccounting
<1>7. ASSUME ~strayed, NEW q \in Queues, WriteRejected(q) PROVE Kept /\ Heads
  <2>1. DescriptorInv'
    BY <1>0, <1>7, IdlePreserves DEF WriteRejected
  <2>2. pending[q] \in Commands
    BY <1>2, <1>7 DEF WriteRejected
  <2>3. \E c \in Commands, st \in Statuses :
           /\ Reply(c.op, c.slba, c.nlb, st)
           /\ c.slba \in Lbas => st \notin {"NO_ACTIVE_ZONE", "NO_OPEN_ZONE"}
    <3>1. CASE deviceFull
      <4>1. Reply(pending[q].op, pending[q].slba, pending[q].nlb, "CAP_EXCEEDED")
        BY <1>7, <3>1 DEF WriteRejected
      <4>2. "CAP_EXCEEDED" \in Statuses
        BY DEF Statuses
      <4> QED
        BY <2>2, <4>1, <4>2
    <3>2. CASE ~deviceFull
      <4>0. PICK cmd \in Redirections(pending[q]) :
                   \E d \in Descriptors(lba_to_zone(cmd.slba)) :
                     Reply(cmd.op, cmd.slba, cmd.nlb, WriteStatus(cmd.slba, cmd.nlb, d))
        BY <1>7, <3>2 DEF WriteRejected
      <4>1. PICK d \in Descriptors(lba_to_zone(cmd.slba)) :
                   Reply(cmd.op, cmd.slba, cmd.nlb, WriteStatus(cmd.slba, cmd.nlb, d))
        BY <4>0
      <4>2. cmd \in Commands
        BY <1>0, <1>7, RedirectedCommand DEF WriteRejected
      <4>3. cmd.slba \in Nat /\ cmd.nlb \in 1 .. MaxNlb
        BY <4>2 DEF Commands
      <4>4. /\ WriteStatus(cmd.slba, cmd.nlb, d) \in Statuses
            /\ cmd.slba \in Lbas =>
                 WriteStatus(cmd.slba, cmd.nlb, d) \notin {"NO_ACTIVE_ZONE", "NO_OPEN_ZONE"}
        BY <1>0, <1>7, <4>3, WriteStatusRange
      <4> QED
        BY <4>1, <4>2, <4>4
    <3> QED
      BY <3>1, <3>2
  <2>4. last' \in Replies /\ LimitsNeverBind'
    BY <2>3, MaxNlbAssumption DEF Commands, Reply, Replies, LimitsNeverBind
  <2> QED
    BY <1>2, <1>7, <2>1, <2>4 DEF WriteRejected
<1>8. ASSUME ~strayed, NEW op \in MgmtOps, NEW z \in Zones, ZoneMgmt(op, z)
      PROVE  Kept /\ Heads
  BY <1>0, <1>2, <1>8, MgmtPreserves, MgmtReplies DEF ZoneMgmt, LimitsNeverBind
<1>9. ASSUME ~strayed, NEW op \in MgmtOps, SelectAllBegin(op) PROVE Kept /\ Heads
  <2>1. DescriptorInv'
    BY <1>0, <1>9, IdlePreserves DEF SelectAllBegin
  <2>2. last' \in Replies /\ LimitsNeverBind'
    BY <1>9, MaxNlbAssumption DEF SelectAllBegin, Reply, Replies, Statuses, LimitsNeverBind
  <2>3. 0 \in Zones
    BY NrZonesAssumption DEF Zones
  <2> QED
    BY <1>2, <1>9, <2>1, <2>2, <2>3 DEF SelectAllBegin
<1>10. ASSUME ~strayed, sweep # None, SelectAllStep PROVE Kept /\ Heads
  <2>1. sweep \in [op : MgmtOps, next : Zones]
    BY <1>2, <1>10
  <2>2. Kept
    BY <1>0, <1>10, <2>1, MgmtPreserves, MgmtReplies DEF SelectAllStep, LimitsNeverBind
  <2>3. sweep' \in [op : MgmtOps, next : Zones] \cup {None}
    BY <1>10, <2>1, NrZonesAssumption DEF SelectAllStep, Zones
  <2> QED
    BY <1>2, <1>10, <2>2, <2>3 DEF SelectAllStep
<1>11. CASE UNCHANGED vars
  <2>1. TypeOK' /\ ResourceAccounting' /\ WritePointerMatchesState'
    BY <1>11 DEF ZoneInv, vars, TypeOK, ResourceAccounting, WritePointerMatchesState, ZonesIn
  <2> QED
    BY <1>11, <2>1 DEF vars, ZoneInv, LimitsNeverBind
<1>12. Good
  BY <1>1, <1>3, <1>4, <1>5, <1>6, <1>7, <1>8, <1>9, <1>10, <1>11 DEF Next, Overwritten
<1> QED
  BY <1>12

\* The inductive invariant, and that no reply blames a full pool.
THEOREM ZoneInvariant == Spec => []ZoneInv /\ []LimitsNeverBind
<1>1. Init => ZoneInv /\ LimitsNeverBind
  BY InitInv DEF Init, LimitsNeverBind
<1>2. ZoneInv /\ LimitsNeverBind /\ [Next]_vars => ZoneInv' /\ LimitsNeverBind'
  BY StepInv
<1> QED
  BY <1>1, <1>2, PTL DEF Spec

\* Types hold in every reachable state: in particular a select_all command
\* never walks past the last zone, whatever memory behind the descriptors
\* has put into the address of a command that waits.
THEOREM TypeCorrect == Spec => []TypeOK
<1>1. ZoneInv => TypeOK
  BY DEF ZoneInv
<1> QED
  BY <1>1, ZoneInvariant, PTL

\* The active and open counters of res_infos are exact (acquire and release
\* are balanced on every path through zns_write_check and zns_mgmt_send.c).
THEOREM CountersExact == Spec => []ResourceAccounting
<1>1. ZoneInv => ResourceAccounting
  BY DEF ZoneInv
<1> QED
  BY <1>1, ZoneInvariant, PTL

\* Write pointers stay inside their zones and agree with the zone states.
THEOREM WritePointersAgree == Spec => []WritePointerMatchesState
<1>1. ZoneInv => WritePointerMatchesState
  BY DEF ZoneInv
<1> QED
  BY <1>1, ZoneInvariant, PTL

\* With the pools of __init_resource no write and no open is ever refused
\* for lack of an active or open zone, whatever the number of zones.
THEOREM PoolsNeverRefuse == Spec => []LimitsNeverBind
BY ZoneInvariant, PTL

-----------------------------------------------------------------------------
(* What a step may never do.                                               *)

\* A write pointer moves by a reset or by exactly what was written.
PointerStep ==
  \A z \in Zones :
    wp'[z] # wp[z] =>
      \/ /\ wp'[z] = zone_to_slba(z)
         /\ state'[z] = "EMPTY"
      \/ /\ last'.op \in {"write", "append"}
         /\ last'.slba = wp[z]
         /\ wp'[z] = wp[z] + last'.nlb

\* A full zone stays full or is reset.
FullStep ==
  \A z \in Zones :
    state[z] = "FULL" => state'[z] = "FULL" \/ (last'.op = "reset" /\ state'[z] = "EMPTY")

\* A refusal changes no zone and no counter.
RefusalStep ==
  last'.status \in Failures \cup {"RETRY"} => UNCHANGED <<state, wp, acquired>>

Lawful == PointerStep /\ FullStep /\ RefusalStep

-----------------------------------------------------------------------------
(* The handlers.                                                           *)

\* A command that touches no zone.
LEMMA IdleLawful ==
  ASSUME UNCHANGED <<state, wp, acquired>>
  PROVE  Lawful
BY DEF Lawful, PointerStep, FullStep, RefusalStep

\* An answer that is no refusal, to a command that moves no write pointer.
LEMMA StateChangeLawful ==
  ASSUME DescriptorInv, NEW z \in Zones, NEW s,
         state' = [state EXCEPT ![z] = s], UNCHANGED wp,
         state[z] = "FULL" => s = "FULL",
         last'.status = "SUCCESS"
  PROVE  Lawful
<1>1. PointerStep
  BY DEF PointerStep
<1>2. FullStep
  BY DEF FullStep, DescriptorInv
<1>3. RefusalStep
  BY DEF RefusalStep, Failures
<1> QED
  BY <1>1, <1>2, <1>3 DEF Lawful

\* An accepted write moves the write pointer of its zone over its LBAs.
LEMMA AdvanceLawful ==
  ASSUME DescriptorInv, NEW z \in Zones, NEW nlb \in 1 .. MaxNlb,
         AdvanceZone(z, nlb), state[z] # "FULL",
         last'.op \in {"write", "append"}, last'.slba = wp[z], last'.nlb = nlb,
         last'.status \in {"SUCCESS", "CAP_EXCEEDED"}
  PROVE  Lawful
<1>1. PointerStep
  <2>1. wp' = [wp EXCEPT ![z] = wp[z] + nlb] /\ wp \in [Zones -> Nat]
    BY DEF AdvanceZone, DescriptorInv
  <2> QED
    BY <2>1 DEF PointerStep
<1>2. FullStep
  <2>1. \A y \in Zones : y # z => state'[y] = state[y]
    BY DEF AdvanceZone, DescriptorInv
  <2> QED
    BY <2>1 DEF FullStep
<1>3. RefusalStep
  BY DEF RefusalStep, Failures
<1> QED
  BY <1>1, <1>2, <1>3 DEF Lawful

\* Zone management, action by action.
LEMMA MgmtLawful ==
  ASSUME DescriptorInv, NEW z \in Zones, NEW op, MgmtSend(op, z)
  PROVE  Lawful
<1>1. CASE Close(z)
  <2>1. CASE state[z] \in OpenedStates
    BY <1>1, <2>1, StateChangeLawful DEF Close, Reply, OpenedStates
  <2>2. CASE state[z] \notin OpenedStates
    BY <1>1, <2>2, IdleLawful DEF Close
  <2> QED
    BY <2>1, <2>2
<1>2. CASE Finish(z)
  <2>1. CASE state[z] \in {"READ_ONLY", "OFFLINE"}
    BY <1>2, <2>1, IdleLawful DEF Finish
  <2>2. CASE state[z] \notin {"READ_ONLY", "OFFLINE"}
    BY <1>2, <2>2, StateChangeLawful DEF Finish, Reply
  <2> QED
    BY <2>1, <2>2
<1>3. ASSUME NEW zrwa \in BOOLEAN, OpenZone(z, zrwa) PROVE Lawful
  <2>1. CASE OpenStatus(z, zrwa) = "SUCCESS"
    <3>1. state[z] # "FULL"
      BY <2>1 DEF OpenStatus
    <3> QED
      BY <1>3, <2>1, <3>1, StateChangeLawful DEF OpenZone, Reply
  <2>2. CASE OpenStatus(z, zrwa) # "SUCCESS"
    BY <1>3, <2>2, IdleLawful DEF OpenZone
  <2> QED
    BY <2>1, <2>2
<1>4. CASE Reset(z)
  <2>1. CASE state[z] \in {"READ_ONLY", "OFFLINE"}
    BY <1>4, <2>1, IdleLawful DEF Reset
  <2>2. CASE state[z] \notin {"READ_ONLY", "OFFLINE"}
    <3>1. /\ state' = [state EXCEPT ![z] = "EMPTY"]
          /\ wp' = [wp EXCEPT ![z] = zone_to_slba(z)]
          /\ last'.op = "reset" /\ last'.status = "SUCCESS"
      BY <1>4, <2>2 DEF Reset, Reply
    <3>2. PointerStep
      BY <3>1 DEF PointerStep, DescriptorInv
    <3>3. FullStep
      BY <3>1 DEF FullStep, DescriptorInv
    <3> QED
      BY <3>1, <3>2, <3>3 DEF Lawful, RefusalStep, Failures
  <2> QED
    BY <2>1, <2>2
<1>5. CASE Offline(z)
  <2>1. CASE state[z] = "READ_ONLY"
    BY <1>5, <2>1, StateChangeLawful DEF Offline, Reply
  <2>2. CASE state[z] # "READ_ONLY"
    <3>1. state' = state
      BY <1>5, <2>2 DEF Offline, DescriptorInv
    <3> QED
      BY <1>5, <3>1, IdleLawful DEF Offline
  <2> QED
    BY <2>1, <2>2
<1>6. CASE FlushExplicitZrwa(z)
  BY <1>6, IdleLawful DEF FlushExplicitZrwa
<1> QED
  BY <1>1, <1>2, <1>3, <1>4, <1>5, <1>6 DEF MgmtSend

\* Every step of the specification is lawful.
LEMMA NextLawful ==
  ASSUME ZoneInv, Next
  PROVE  Lawful
<1>0. TypeOK /\ (~strayed => DescriptorInv)
  BY DEF ZoneInv, TypeOK, DescriptorInv, ResourceAccounting, CountersMatch
<1>1. ASSUME NEW q \in Queues, Submit(q) \/ Retry(q) \/ WriteRejected(q) PROVE Lawful
  BY <1>1, IdleLawful DEF Submit, Retry, WriteRejected
<1>2. ASSUME ~strayed, NEW q \in Queues, WriteAccepted(q) PROVE Lawful
  <2>1. PICK cmd \in Redirections(pending[q]) :
               /\ lba_to_zone(cmd.slba) \in Zones
               /\ \E d \in Descriptors(lba_to_zone(cmd.slba)) :
                    WriteStatus(cmd.slba, cmd.nlb, d) = "SUCCESS"
               /\ AdvanceZone(lba_to_zone(cmd.slba), cmd.nlb)
               /\ Accepted(cmd)
    BY <1>2, Zenon DEF WriteAccepted
  <2>2. cmd \in Commands
    BY <1>0, <1>2, RedirectedCommand DEF WriteAccepted
  <2>3. cmd.op \in {"write", "append"} /\ cmd.slba \in Nat /\ cmd.nlb \in 1 .. MaxNlb
    BY <2>2 DEF Commands
  <2> DEFINE z == lba_to_zone(cmd.slba)
  <2>4. cmd.slba = wp[z] /\ state[z] # "FULL"
    BY <1>0, <1>2, <2>1, <2>3, AcceptedWrite DEF OpenedStates
  <2>5. /\ last'.op = cmd.op /\ last'.slba = cmd.slba /\ last'.nlb = cmd.nlb
        /\ last'.status \in {"SUCCESS", "CAP_EXCEEDED"}
    BY <2>1 DEF Accepted, Reply
  <2> HIDE DEF z
  <2> QED
    BY <1>0, <1>2, <2>1, <2>3, <2>4, <2>5, AdvanceLawful DEF z
<1>3. ASSUME NEW q \in Queues, WriteStrays(q) PROVE Lawful
  <2>1. last'.status \in {"SUCCESS", "CAP_EXCEEDED"}
    BY <1>3 DEF WriteStrays, Accepted, Reply
  <2>2. RefusalStep
    BY <2>1 DEF RefusalStep, Failures
  <2>3. UNCHANGED <<state, wp>>
    BY <1>3 DEF WriteStrays
  <2> QED
    BY <2>2, <2>3 DEF Lawful, PointerStep, FullStep
<1>4. ASSUME ~strayed, NEW op \in MgmtOps, NEW z \in Zones, ZoneMgmt(op, z) PROVE Lawful
  BY <1>0, <1>4, MgmtLawful DEF ZoneMgmt
<1>5. ASSUME NEW op \in MgmtOps, SelectAllBegin(op) PROVE Lawful
  BY <1>5, IdleLawful DEF SelectAllBegin
<1>6. ASSUME ~strayed, sweep # None, SelectAllStep PROVE Lawful
  <2>1. sweep.next \in Zones
    BY <1>0, <1>6 DEF TypeOK
  <2> QED
    BY <1>0, <1>6, <2>1, MgmtLawful DEF SelectAllStep
<1>7. ASSUME Overwritten PROVE Lawful
  BY <1>7, IdleLawful DEF Overwritten, vars
<1> QED
  BY <1>1, <1>2, <1>3, <1>4, <1>5, <1>6, <1>7 DEF Next

-----------------------------------------------------------------------------
\* No LBA is given to two commands without a reset of its zone in between,
\* however often the writes were put off and redirected (handle_write_request,
\* __increase_write_ptr).
THEOREM PointersMoveByWrites == Spec => WritePointerMoves
<1>1. ZoneInv /\ [Next]_vars =>
        [\A z \in Zones :
           wp'[z] # wp[z] =>
             \/ /\ wp'[z] = zone_to_slba(z)
                /\ state'[z] = "EMPTY"
             \/ /\ last'.op \in {"write", "append"}
                /\ last'.slba = wp[z]
                /\ wp'[z] = wp[z] + last'.nlb]_vars
  BY NextLawful DEF Lawful, PointerStep
<1> QED
  BY <1>1, ZoneInvariant, PTL DEF Spec, WritePointerMoves

\* Only a reset makes a full zone writable again: no open, close, finish or
\* retried write does.
THEOREM FullStaysFull == Spec => FullUntilReset
<1>1. ZoneInv /\ [Next]_vars =>
        [\A z \in Zones :
           state[z] = "FULL" =>
             state'[z] = "FULL" \/ (last'.op = "reset" /\ state'[z] = "EMPTY")]_vars
  BY NextLawful DEF Lawful, FullStep
<1> QED
  BY <1>1, ZoneInvariant, PTL DEF Spec, FullUntilReset

\* A refused command, and one that is put off, leaves zones and counters
\* alone: the checks of zns_write_check and open precede the acquisitions.
THEOREM RefusalsAreClean == Spec => RefusalLeavesNoTrace
<1>1. ZoneInv /\ [Next]_vars =>
        [last'.status \in Failures \cup {"RETRY"} => UNCHANGED <<state, wp, acquired>>]_vars
  BY NextLawful DEF Lawful, RefusalStep
<1> QED
  BY <1>1, ZoneInvariant, PTL DEF Spec, RefusalLeavesNoTrace
=============================================================================
