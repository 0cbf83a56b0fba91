------------------------------ MODULE L2PCache ------------------------------
(***************************************************************************)
(* The cache of mapping entries that both namespaces share (ssd.c,         *)
(* zms_read_write.c): a hash of slots, each an array of entries chained by *)
(* indices from head (least recently used) to tail.  Every namespace has   *)
(* an array l2pcache_idx that says where a page is cached; evicting an     *)
(* entry of the other namespace must clear the index of that one.          *)
(*                                                                         *)
(* An entry maps a page, a chunk, a sub-zone or a zone; it is kept under   *)
(* the first page of what it maps.  Entries of more than a page are        *)
(* resident and are not evicted.                                           *)
(***************************************************************************)
EXTENDS Integers, FiniteSets, Sequences

CONSTANTS
  NrZones,        \* NrZones[ns]: zones of namespace ns
  PgsPerZone,     \* pgs_per_zone[ns]
  PgsPerSubZone,  \* pslc_pgs_per_line
  PgsPerChunk,    \* pgs_per_chunk
  NumSlots,       \* cache->num_slots
  SlotSize        \* cache->slot_size

SLC == 0          \* ns->id of the namespaces; SLC maps pages, TLC maps zones
TLC == 1
Namespaces == {SLC, TLC}

ASSUME CacheAssumption == NumSlots \in Nat \ {0} /\ SlotSize \in Nat \ {0}
ASSUME ZoneAssumption  == /\ NrZones \in [Namespaces -> Nat]
                          /\ PgsPerZone \in [Namespaces -> Nat \ {0}]
ASSUME UnitAssumption  == PgsPerSubZone \in Nat \ {0} /\ PgsPerChunk \in Nat \ {0}

VARIABLES
  maptbl,         \* maptbl[<<ns, lpn>>]: UNMAPPED or the granularity (ppa.zms.map)
  cache,          \* struct l2pcache: mapping, slot_len, head, tail
  l2pcache_idx    \* l2pcache_idx[<<ns, lpn>>]: index in the slot of lpn, or -1

vars == <<maptbl, cache, l2pcache_idx>>

NIL      == -1
UNMAPPED == "UNMAPPED"
MAP_GRAN == <<"ZONE_MAP", "SUB_ZONE_MAP", "CHUNK_MAP", "PAGE_MAP">>
Grans    == {MAP_GRAN[i] : i \in DOMAIN MAP_GRAN}

Lpns(ns) == 0 .. NrZones[ns] * PgsPerZone[ns] - 1
Keys     == UNION {{<<ns, lpn>> : lpn \in Lpns(ns)} : ns \in Namespaces}
NoKey    == <<NIL, NIL>>
Slots    == 0 .. NumSlots - 1
Indices  == 0 .. SlotSize - 1

mapped(key) == maptbl[key] # UNMAPPED
SlotOf(key) == key[2] % NumSlots

pages_per_granularity(ns, gran) ==
  CASE gran = "PAGE_MAP"     -> 1
    [] gran = "CHUNK_MAP"    -> PgsPerChunk
    [] gran = "SUB_ZONE_MAP" -> PgsPerSubZone
    [] gran = "ZONE_MAP"     -> PgsPerZone[ns]

\* get_granularity_start_lpn: units are counted from the start of the zone.
Start(key, gran) ==
  LET offset == key[2] % PgsPerZone[key[1]]
  IN  <<key[1], key[2] - (offset % pages_per_granularity(key[1], gran))>>

check_resident(gran) == gran # "PAGE_MAP"

-----------------------------------------------------------------------------
\* ssd_init_l2pcache, __init_l2p.
Init ==
  /\ maptbl = [k \in Keys |-> UNMAPPED]
  /\ l2pcache_idx = [k \in Keys |-> NIL]
  /\ cache = [mapping |-> [s \in Slots |-> [i \in Indices |->
                            [key |-> NoKey, granularity |-> "PAGE_MAP", resident |-> FALSE,
                             next |-> NIL, last |-> NIL]]],
              slot_len |-> [s \in Slots |-> 0],
              head |-> [s \in Slots |-> 0],
              tail |-> [s \in Slots |-> 0]]

\* Mutation: the new tail is chained, but the entry it left is not closed up.
MoveToTailLeavesGap(c, s, i) ==
  LET m == c.mapping[s]
      t == c.tail[s]
      moved == [j \in Indices |->
                  [m[j] EXCEPT !.next = IF j = i THEN NIL ELSE IF j = t THEN i ELSE @,
                               !.last = IF j = i THEN t ELSE @]]
  IN  [c EXCEPT !.mapping[s] = moved, !.tail[s] = i,
                !.head[s] = IF i = @ THEN m[i].next ELSE @]

\* Entry i, which is not the tail, is unlinked and becomes the tail.
MoveToTail(c, s, i) ==
  LET m == c.mapping[s]
      t == c.tail[s]
      isHead == i = c.head[s]
      moved == [j \in Indices |->
                  [m[j] EXCEPT !.next = IF j = i THEN NIL
                                        ELSE IF j = t THEN i
                                        ELSE IF j = m[i].last /\ ~isHead THEN m[i].next ELSE @,
                               !.last = IF j = i THEN t
                                        ELSE IF j = m[i].next
                                               THEN (IF isHead THEN NIL ELSE m[i].last) ELSE @]]
  IN  [c EXCEPT !.mapping[s] = moved, !.tail[s] = i,
                !.head[s] = IF isHead THEN m[i].next ELSE @]

\* Mutation: using an entry does not make it the most recent one.
l2p_access_ignored(c, s, i) == c

l2p_access(c, s, i) == IF i = c.tail[s] THEN c ELSE MoveToTail(c, s, i)

Fill(c, s, i, key, gran) ==
  [c EXCEPT !.mapping[s][i].key = key,
            !.mapping[s][i].granularity = gran,
            !.mapping[s][i].resident = check_resident(gran)]

\* l2p_replace walks from the head over the resident entries.
Evictee(c, s) ==
  LET from[i \in Indices] ==
        IF i # c.tail[s] /\ c.mapping[s][i].resident THEN from[c.mapping[s][i].next] ELSE i
  IN  from[c.head[s]]

\* Mutation: the index is cleared in the namespace that inserts.
OwnerIsInserter(ns, nsid) == ns

\* Whose l2pcache_idx is cleared: that of namespace ns itself or of its
\* neighbour, "ns--" or "ns++".
Owner(ns, nsid) == IF nsid = ns THEN ns ELSE IF ns = 1 THEN ns - 1 ELSE ns + 1

\* l2p_insert with l2p_replace: the cache afterwards, the index (or -1: every
\* entry of the slot is resident) and the key that was evicted.
l2p_insert(key, gran) ==
  LET s    == SlotOf(key)
      len  == cache.slot_len[s]
      t    == cache.tail[s]
      i    == Evictee(cache, s)
      gone == cache.mapping[s][i].key
  IN  IF len < SlotSize
        THEN LET filled == [Fill(cache, s, len, key, gran) EXCEPT
                              !.mapping[s][len].next = NIL,
                              !.mapping[s][len].last = IF len = 0 THEN NIL ELSE t,
                              !.slot_len[s] = len + 1]
             IN  [cache |-> IF len = 0 THEN filled
                            ELSE [filled EXCEPT !.mapping[s][t].next = len, !.tail[s] = len],
                  idx   |-> len,
                  gone  |-> NoKey]
        ELSE IF i = t /\ cache.mapping[s][i].resident
          THEN [cache |-> cache, idx |-> NIL, gone |-> NoKey]
          ELSE [cache |-> Fill(l2p_access(cache, s, i), s, i, key, gran),
                idx   |-> i,
                gone  |-> <<Owner(key[1], gone[1]), gone[2]>>]

Reindexed(ins, key) ==
  [k \in Keys |-> IF k = key THEN ins.idx
                  ELSE IF k = ins.gone THEN NIL ELSE l2pcache_idx[k]]

\* Mutation: an entry that is cached already keeps its old granularity.
set_map_gran_if_absent(gran, key, tbl) ==
  /\ maptbl' = [tbl EXCEPT ![key] = gran]
  /\ \/ /\ l2pcache_idx[key] = NIL
        /\ cache' = l2p_insert(key, gran).cache
        /\ l2pcache_idx' = Reindexed(l2p_insert(key, gran), key)
     \/ l2pcache_idx[key] # NIL /\ UNCHANGED <<cache, l2pcache_idx>>

\* set_map_gran on the table tbl: the granularity is recorded in the table and
\* in the cache, where an entry is inserted if there is none.
set_map_gran(gran, key, tbl) ==
  /\ maptbl' = [tbl EXCEPT ![key] = gran]
  /\ \/ /\ l2pcache_idx[key] = NIL
        /\ cache' = l2p_insert(key, gran).cache
        /\ l2pcache_idx' = Reindexed(l2p_insert(key, gran), key)
     \/ /\ l2pcache_idx[key] # NIL
        /\ cache' = [cache EXCEPT
             !.mapping[SlotOf(key)][l2pcache_idx[key]].granularity = gran,
             !.mapping[SlotOf(key)][l2pcache_idx[key]].resident = check_resident(gran)]
        /\ UNCHANGED l2pcache_idx

-----------------------------------------------------------------------------
(* What the translation layer does with the cache.                         *)

IsZoneStart(key) == key = Start(key, "ZONE_MAP")
\* Zones are written in order.
Reached(key) == ~IsZoneStart(key) => mapped(<<key[1], key[2] - 1>>)

\* A page-mapped page is flushed or moved, or the first page of a zone-mapped
\* zone is flushed (update_or_reserve_mapping).
WritePage(key) ==
  /\ IF key[1] = SLC THEN Reached(key) ELSE IsZoneStart(key) /\ ~mapped(key)
  /\ set_map_gran("PAGE_MAP", key, maptbl)

\* The coarsest unit that the page completes.
Completed(key) ==
  LET done(i) == LET start == Start(key, MAP_GRAN[i])
                 IN  (key[2] - start[2] + 1) % pages_per_granularity(key[1], MAP_GRAN[i]) = 0
  IN  CHOOSE i \in DOMAIN MAP_GRAN : done(i) /\ \A j \in 1 .. i - 1 : ~done(j)

\* A further page of a zone-mapped zone (update_mapping_if_reserved); its entry
\* in the table is copied from the page before.
WriteReserved(key) ==
  /\ key[1] = TLC
  /\ ~IsZoneStart(key)
  /\ ~mapped(key)
  /\ mapped(<<TLC, key[2] - 1>>)
  /\ LET gran == MAP_GRAN[Completed(key)]
     IN  set_map_gran(gran, Start(key, gran),
                      [maptbl EXCEPT ![key] = maptbl[<<TLC, key[2] - 1>>]])

\* zone_reset leaves the cache alone.
ResetZone(ns, zid) ==
  /\ maptbl' = [k \in Keys |-> IF k[1] = ns /\ k[2] \div PgsPerZone[ns] = zid
                                 THEN UNMAPPED ELSE maptbl[k]]
  /\ UNCHANGED <<cache, l2pcache_idx>>

\* handle_read_request looks for the page from the coarsest granularity to the
\* finest: where an entry is indexed, that is the one.
Looked(key) == {i \in DOMAIN MAP_GRAN : l2pcache_idx[Start(key, MAP_GRAN[i])] # NIL}
FoundAt(key) == Start(key, MAP_GRAN[CHOOSE i \in Looked(key) : \A j \in Looked(key) : i <= j])

ReadHit(key) ==
  /\ Looked(key) # {}
  /\ cache' = l2p_access(cache, SlotOf(FoundAt(key)), l2pcache_idx[FoundAt(key)])
  /\ UNCHANGED <<maptbl, l2pcache_idx>>

\* map_read: the granularity at which the table maps the page.
MappedAt(key) == {i \in DOMAIN MAP_GRAN : maptbl[Start(key, MAP_GRAN[i])] = MAP_GRAN[i]}

ReadMiss(key) ==
  /\ Looked(key) = {}
  /\ MappedAt(key) # {}
  /\ LET i     == CHOOSE i \in MappedAt(key) : \A j \in MappedAt(key) : i <= j
         start == Start(key, MAP_GRAN[i])
         ins   == l2p_insert(start, MAP_GRAN[i])
     IN  /\ cache' = IF ins.idx = NIL THEN ins.cache
                     ELSE l2p_access(ins.cache, SlotOf(start), ins.idx)
         /\ l2pcache_idx' = Reindexed(ins, start)
  /\ UNCHANGED maptbl

Next ==
  \/ \E key \in Keys : WritePage(key) \/ WriteReserved(key) \/ ReadHit(key) \/ ReadMiss(key)
  \/ \E ns \in Namespaces : \E zid \in 0 .. NrZones[ns] - 1 : ResetZone(ns, zid)

Spec == Init /\ [][Next]_vars

-----------------------------------------------------------------------------
(* Properties.                                                             *)

EntryOf(key) == cache.mapping[SlotOf(key)][l2pcache_idx[key]]
InUse(s)     == 0 .. cache.slot_len[s] - 1

\* Every variable keeps its type.
TypeOK ==
  /\ maptbl \in [Keys -> Grans \cup {UNMAPPED}]
  /\ l2pcache_idx \in [Keys -> Indices \cup {NIL}]
  /\ DOMAIN cache = {"mapping", "slot_len", "head", "tail"}
  /\ cache.slot_len \in [Slots -> 0 .. SlotSize]
  /\ cache.head \in [Slots -> Indices] /\ cache.tail \in [Slots -> Indices]
  /\ cache.mapping \in
       [Slots -> [Indices -> [key : Keys \cup {NoKey}, granularity : Grans, resident : BOOLEAN,
                              next : Indices \cup {NIL}, last : Indices \cup {NIL}]]]

\* The index arrays and the entries tell the same story: a page is indexed
\* exactly where its entry is, whichever namespace evicted what was there.
IndexFindsEntry ==
  /\ TypeOK
  /\ \A k \in Keys : l2pcache_idx[k] # NIL =>
       l2pcache_idx[k] \in InUse(SlotOf(k)) /\ EntryOf(k).key = k
  /\ \A s \in Slots : \A i \in InUse(s) :
       LET k == cache.mapping[s][i].key
       IN  k \in Keys /\ SlotOf(k) = s /\ l2pcache_idx[k] = i

\* What the cache says of a mapped page is what the table says: a granularity
\* that changed in the table did not stay behind in the cache.
GranularityAgrees ==
  \A k \in Keys : l2pcache_idx[k] # NIL /\ mapped(k) => EntryOf(k).granularity = maptbl[k]

\* The entries of slot s along next, as many as are in use.
Chained(s) ==
  LET at[n \in 1 .. cache.slot_len[s]] ==
        IF n = 1 THEN cache.head[s]
        ELSE IF at[n - 1] = NIL THEN NIL ELSE cache.mapping[s][at[n - 1]].next
  IN  at

\* The chain of a slot runs from head to tail over every entry in use, and last
\* runs backwards: no entry gets out of reach of the eviction.
ChainIsWhole ==
  \A s \in Slots :
    LET chain == Chained(s)
        len   == cache.slot_len[s]
    IN  /\ {chain[n] : n \in 1 .. len} = InUse(s)
        /\ len > 0 => chain[len] = cache.tail[s] /\ cache.mapping[s][chain[len]].next = NIL
        /\ \A n \in 2 .. len : cache.mapping[s][chain[n]].last = chain[n - 1]

ByRecency(s) == LET chain == Chained(s)
                IN  [n \in DOMAIN chain |-> cache.mapping[s][chain[n]].key]

Lru == INSTANCE LruCache WITH
         order  <- [s \in Slots |-> ByRecency(s)],
         pinned <- {k \in Keys : l2pcache_idx[k] # NIL /\ EntryOf(k).resident}

\* The array of chained entries is a least-recently-used cache that never
\* evicts a resident entry.  Resident is what check_resident makes so: every
\* entry coarser than a page, those of chunks included, which the design
\* document counts among the evictable ones (docs/io-flow-conzone-dual.md:289,
\* 295-296).  This property is the code's side of that disagreement.
ImplementsLru == Lru!Spec

\* docs/io-flow-conzone-dual.md, 8: the page is looked up as part of a zone,
\* then of a sub-zone, a chunk, and at last by itself, and the entry that is
\* hit tells where the page is; so an entry that is hit must map the page.
HitsCoverThePage ==
  \A k \in Keys : mapped(k) /\ Looked(k) # {} =>
    LET e == EntryOf(FoundAt(k))
    IN  k[2] < e.key[2] + pages_per_granularity(k[1], e.granularity)

=============================================================================
