# A TLA+ development of ConZone-Dual

ConZone-Dual is a Linux kernel module that emulates a consumer zoned flash device
(NVMeVirt, with the "ConZone" flash translation layer, here with two zoned namespaces, one
on pSLC and one on TLC blocks). This directory models the parts that decide whether data
and commands survive: the zone state machine, the flash translation layer, the write
buffers, the mapping cache, the lock-free work queue, the completion queues and the timing
of the NAND, and of the other device types the module can be built for the conventional
translation layer and the key-value store. TLC checks the models on small
instances, TLAPS proves the zone state machine, the translation layer (its lines, counters and tables, that it has
room, and that it implements an abstract store), the write buffers, the mapping cache, the work queue, the completion
queues, the timing of the NAND, the conventional translation layer and the key-value store for every size. Paths below are relative to
`src/`.

## 1. The system

One kernel thread, the **dispatcher** (`main.c`), polls the doorbells, takes commands from
the submission queues, executes them at once in the model of the device and computes when
a real device would have finished. It puts the result into the work queue of an **I/O
worker** thread, which copies the data and posts the completion when its time has come.
Everything in the FTL runs in the dispatcher; the worker shares with it the work queue
(without a lock), the busy flags of the write buffers and the completion queues.

    host -- doorbell --> dispatcher: nvmev_proc_io_sq -> zoned_write / zoned_read / zns_flush / zns_zmgmt_send
                            |  zone descriptors, write buffers, mapping, lines, cache (dispatcher only)
                            |  enqueue (completion or buffer release, with a target time)
                            v
                         work queue of a worker -- copy, at target time --> completion queue, interrupt
                                                                        --> buffer_release

| component | state | operations | interacts by | what is hard about it | correct when |
|---|---|---|---|---|---|
| zone descriptors (`zns_mgmt_send.c`, `zns_ftl.c`, `zns_ftl.h`, write checks in `zms_read_write.c`) | state, wp of each zone, counters of active/open/ZRWA zones | write, append, close, finish, open, reset, offline, flush ZRWA, each for one zone or all | called by the dispatcher; a reset calls the FTL | writes that wait for a buffer are tried again later; resources acquired in steps | counters exact, write pointer fits the state, no LBA given twice, refusals change nothing |
| FTL (`zms_read_write.c`) | mapping table, reverse map, page and block states, line counters and lists, write pointers, credits | write a page, reserve a zone, collect, reset a zone | called when a buffer is flushed and by reset | redundant tables, guessed list membership, collection inside a write | every flushed page readable until its zone is reset; no line lost; always room |
| write buffers (`zms_read_write.c`, `ssd.c`) | zone, pages, busy flag of each buffer | assign, evict, fill, flush, release | the worker releases | busy flags change under the scan; retries in rounds over the queues | what was accepted is in NAND or in one buffer; released exactly once; no starvation |
| mapping cache (`zms_read_write.c`, `ssd.c`) | slots of chained entries, an index per namespace | insert, replace, access, change granularity | both namespaces share it | eviction across namespaces, four granularities, pinned entries | index and entries agree; LRU; granularity as in the table |
| work queue (`io.c`) | array of entries in a work and a free list | enqueue, reclaim, visit, copy, post | dispatcher and worker share it without a lock | stores in an order the other thread can see | every operation posted exactly once, lists whole |
| completion queues, doorbells (`io.c`, `main.c`, `pci.c`, `admin.c`) | head, phase, interrupt_ready, the ring; old doorbell | fill, signal, acknowledge | workers, dispatcher, host | no overrun check, head read outside the lock, stores the host sees one by one | each completion seen once; every command is completed |
| NAND timing (`ssd.c`) | command queue of each plane, when it is available, end of its migration | read, write, erase, nop | called by the FTL | host commands preempt queued migrations and delay them | one command at a time, migrations known while queued |
| channel model (`channel_model.c`) | ring of credits per interval, head, valid length | request | called by NAND timing and PCIe | the ring is reused, only part of it refilled | no credit given twice, new intervals untouched |
| conventional FTL (`conv_ftl.c`) | mapping, reverse map, page states, lines, write pointers, credits | write a page, collect | other device type | overwrites change lists and priorities of lines in the middle of anything | written pages readable, lines in one place, always a free line |
| victim queue (`pqueue.c`) | heap array, positions in the elements | insert, change priority, remove, pop | conventional FTL | positions kept while elements move | heap order, positions right |
| key-value FTL (`kv_ftl.c`, `append_only.c`, `bitmap.c`) | hash table with chains, allocator, iterators | store, batched store, retrieve, delete, iterate | other device type; run by the I/O worker | chains of colliding keys, iterators between changes | a key has the value last stored; iterations complete |
| legacy ZNS writes (`zns_read_write.c`) | zone descriptors, write buffer | write, append, ZRWA | other device type | buffer accounting on error exits | not modelled yet |
| admin, PCI, DMA, start-up (`admin.c`, `pci.c`, `dma.c`, `main.c`) | registers, queues | | | | not modelled but for the creation of queues |

`PROJECT.json` lists all components with their status, the hazards (what is hard to test,
each at its line) and, for every definition, the lines it models.

## 2. The modules

Names follow the source where TLA+ allows it. Definitions marked "Mutation:" are variants
with a plausible mistake. No specification uses them; each shows that some
property notices the mistake (`mutants` in `PROJECT.json`).

**ZnsZones** (with `MCZnsZones`, `ZnsZonesProofs`). `state`, `wp`, `acquired` are the zone
descriptors and `res_infos`; `pending[q]` is the write at the head of submission queue `q`.
A write is submitted, may be put off (`Retry`, a busy buffer) any number of times and is
checked and applied in one step (`WriteAccepted`), as `handle_write_request` does; an append
is redirected to the write pointer by overwriting the address in the command (`Redirections`),
and keeps that address only until the next try. When the last zone is written out this is the address behind
the namespace, and the check and every further try read `zone_descs[nr_zones]`, memory that is no descriptor (section 6). `Descriptors` is what
such a read may find: the zone's descriptor, or any element of `Behind`, a constant of which nothing is assumed but the
ranges of the fields. If what is found accepts the command (`WriteStrays`), the handler writes to that memory; the history variable
`strayed` records it and the model ends there. Each management action is an action;
`select_all` is a sweep of steps, during which nothing else runs. `last` is what the command
answered. Write-protected and offline zones are in the state space of the types though no
code makes one; ZRWA zones number zero in this build (`nr_zrwa_zones`), so the code that
handles them shows only as refusals. A write has at least the unit of a sector
(`WRITE_UNIT_SIZE` is 512), which makes the exit for unaligned writes unreachable; it is
left out.

**ZmsFtl** (with `MCZmsFtl`, `ZmsOnePlane`, `ZmsFtlProofs`), one namespace, chosen in the initial state from a set of them (`ns`:
geometry, mapping, zones in use). Physical pages are numbered per line in the
order in which the write pointer visits them. Mapping `"PAGE"` is the pSLC namespace,
`"ZONE"` the TLC one, which reserves a line for a zone when its first page is written. A
write of a page is one step. Credits, the start of a collection and its
victim are as in the code; a collection and a reset proceed page by page (`job`), with
nothing in between, as the dispatcher does not interleave commands. `noSpace` are the sticky
`device_full`/`pslc_full` flags, `halted` says that an `NVMEV_ASSERT` failed. A page index
beyond the tables (lines that share rows, `LineGroups`) is logged and ignored by the code,
which `SetRmap` and `Advance` follow. A namespace has any number of `planes` and `groups`: the device the repository builds has
four planes per die (`PLNS_PER_LUN`, `ssd_config.h:304`) and two groups (eight dies, `DIES_PER_ZONE` four, `ssd.c:330-332`).
An erase marks the blocks of one plane as free (`EraseBlocks`), so with four planes a line goes back to the free list with written
pages. The history variable `reused` records that such a line was taken for writing again. From then on the code puts new pages
where `mark_page_valid` refuses them (`zms_read_write.c:1113`), counters no longer follow, and the guess of a line's list
(line 1367) goes wrong; the model takes the step that reuses the line and its host stops there. The properties are stated up to that
step, section 6 says what comes after it.
**ZoneStore** is the abstract specification: each zone holds a prefix of its pages, a write
appends a page, a reset empties a zone at once. `ZmsFtl` implements it under the mapping
"the pages that are mapped, valid and attributed to their logical page by the reverse map".

**WriteBuffers** (with `MCWriteBuffers.cfg`, `IoProofs`). `write_buffer[i]` is zone, start and number of pages of a buffer, `busy` its
flag, `releases` the releases the worker still has to perform, `waiting[q]` the zone of the
write that was put off at the head of a queue. The dispatcher goes round the queues
(`nvmev_proc_dbs`), stays with a queue while its commands are answered and leaves it when one
is put off. While it scans the busy flags the worker may clear some of them: `seen` are the
buffers busy at the beginning, and `Glances` is what a scan may see. A buffer that fills is
flushed and emptied at once; the data beyond the last program unit stays (`Kept`). The wall
clock is left out: a release may come at any time after it was scheduled. `handler` is the handler of a command in progress.
Its specification is `WbSpec`, made of `WbInit`, `WbNext` and `WbFairness`, because `IoProofs` extends this module too.

**L2PCache** (with `MCL2PCache`, `L2PCacheProofs`). The array of chained entries with head, tail, lengths, and the
`l2pcache_idx` of both namespaces; insertion with replacement, access, change of granularity
and all callers: writes of either namespace, resets (which leave the cache alone), read hits
and misses. **LruCache** is the abstract specification: an ordered sequence per slot with
pinned keys. Entries of every granularity but a page are resident (`check_resident`), chunks too,
although the docs count chunk entries among those that can be evicted; `LruCache` states what the code does, section 6 the disagreement.

**IoWorkQueue** (with `IoProofs`). The work list of one worker. `next`, `prev`, `io_seq`, `io_seq_end`, `free_seq`,
`free_seq_end` are the fields of the source; each step is one visible store or a group of
stores the other thread cannot tell apart. The dispatcher's program counter goes through
allocation, insertion and the three parts of a reclaim; the worker's through the visit of an
entry, the mark `is_completed` and the move to `next`, at any interleaving with a clock. When
no entry is left the operation is dropped (`lost`). A walk along the links is the least set that has its first
entry and with an entry the next one (`Reached`): the search for the place of a new entry goes by `prev` from the tail, that
for the finished entries by `next` from the head, and each stops where the loop of the source breaks. `NotLapped` is what the model
assumes of the scheduling: the dispatcher does not hand out all free entries (16384) while the worker stands on one.

**CompletionQueue** (with `MCCompletionQueue`, `IoProofs`). A ring `entries` with `cq` (head, phase,
interrupt_ready), `io_workers` (each worker's position in `__fill_cq_result` and in signalling), the doorbell
as the host rings it (`db`) and as the dispatcher last saw it (`old_db`). A worker reads the head
before it takes the lock (`BeginFill`), stores up to the status with the phase bit (`FillStatus`)
and then the results and the head (`FillResult`). The host driver is external: it looks when it is
interrupted, or when it likes if it polls, takes entries while the phase bit has turned and rings the
doorbell. A result is the tag of the command it belongs to, so that a stale one shows.
`cq_tail` is written and never read, and is left out. A set-up says which submission queues share the ring and
who serves them: pairs, as the Linux driver creates them, and two queues of one worker. Its specification is `CqSpec`, made of `CqInit`,
`CqNext` and `CqFairness`: `IoProofs` extends this module, `IoWorkQueue` and `WriteBuffers`: what the dispatcher and an I/O worker share.

**ConvFtl** and **PQueue** (with `MCConvFtl`, `ConvFtlProofs`). One partition of the conventional translation layer: the
same tables as `ZmsFtl`, without reservations and zones, but with updates in place of any
page at any time, hence with lines whose priority changes while they are in the queue of victims.
`PQueue` is that heap, operation by operation: the source's loops shift the elements on a path, the
definitions find the path (`Way`, from the place where each step leads) and state the shift (`Shift`). `After` is what `mark_page_invalid`
leaves, `PutPage` the page written at a write pointer, for host and collection alike. A collection moves
the valid pages of a line in order of their offsets; the source goes flash page by flash page over dies, which
is another order of the same moves, and erases each die's block in the last flash page round where `FinishGc` erases the line at the
end (no page is written or read through the mapping on those blocks in between). Its erased reverse entries stay as they are.

**NandTiming**, **ChannelModel**, **BandwidthWindow** (with `MCNandTiming`, `NandTimingProofs`). `plane[p]` is the queue of commands of
a plane with their times, the time it becomes available and the end of its migration; `channel` the
credit ring of the channel. `plane_getstime` and `plane_update` are the two operators of the source, `NandRead`,
`NandWrite`, `NandErase`, `NandNop` the commands of `ssd_advance_nand`, asked at any time `now` and for any start time.
Latencies are constants. A build with `SLC_BYPASS` issues no migrations, one without it does; the
module covers both. A read transfers at most a flash page, which is `MAX_CH_XFER_SIZE`, in one piece. `ChannelModel` is the
function `chmodel_request` on a ring of intervals of which the first `valid_len` may have been used.
**BandwidthWindow** is the abstract specification: a window on an endless sequence of intervals, each with its full credits
until a transfer takes some; `NandTiming` implements it. PCIe is a second ring of the same kind.

**KvFtl** (with `MCKvFtl`, `KvFtlProofs`). The mapping table with `next_slot` chains, the append-only allocator (`latest`), the bytes
of the medium and the iterators. A search visits the chain from the hash slot (`Visited`); an insertion goes to the
hash slot or, when it is taken, to the next free slot behind the end of the chain; a deletion clears the
slot, `next_slot` included. `expected` is what a retrieve should return, `owed` and `given` the keys an iterator has yet to return
and has returned. `Careful` keeps the host from the three things that break the store (section 6).

How they fit together: `ZnsZones` abstracts from buffers (a write may be put off at any time)
and from the FTL (a full medium may be met at any time); `WriteBuffers` says when a write is put
off and what it gives to the FTL (`flushed`), `ZmsFtl` what becomes of it (`written`);
`IoWorkQueue` justifies that `WriteBuffers` performs each scheduled release exactly once, as
long as entries do not run out, and that `CompletionQueue` has each command in a worker's list exactly once (`queued`);
`CompletionQueue` is what posting means. `NandTiming` gives the times at which operations of `IoWorkQueue` become
due; nothing else depends on them.

## 3. What the runs show

| run | instance | states | shows |
|---|---|---|---|
| `zones` | 2 zones of 3 LBAs, writes of 1-2, 2 queues (symmetric), six descriptors behind the last | 2.7 M | counters exact, write pointers fit states, limits never bind, refusals leave no trace, pointers move only by resets and whole writes, full zones stay full |
| `ftl` | six namespaces: page and zone mapping each with one plane and one group (5 lines of 2 and of 3 pages), in the shipped geometry (4 planes, 2 groups, 4 lines of 8 pages), and with one plane and two groups (6 lines of 2) | 1.05 M | tables inverse to each other, counters and lists right, `ZoneStore` implemented, and room for hosts that leave spare lines, until a line that is not erased all over is reused; free lines erased where there is one plane |
| `work_queue` | 4 entries, 5 operations, 2 outstanding, times 0-2 | 270 k | lists intact, posted once, reclaimed only when posted, out of order only when due, posted in the end |
| `l2p_cache` | 1 zone of 4 and 1 of 8 pages, chunk 2, sub-zone 4, 2 slots of 3 | 47 k | index and entries agree, chain whole, granularities as in the table, implements `LruCache` |
| `write_buffers` | 3 zones of 2 pages, 2 buffers of 2 pages, 2 queues | 310 k | accepted pages are in NAND or whole in one buffer, one release per busy buffer, flush drains all, no livelock |
| `cq` | ring of 3 entries, 2 commands: a pair with interrupts, a polled pair, two queues sharing the ring with the interrupt served by the other worker | 165 k | completions exact, in-flight statistics right up to whole rounds, every command is seen |
| `conv` | 5 lines of 2 pages, 3 logical pages (symmetric) | 620 k | heap ordered with right positions, lines in one place with right counters, mapped pages live, never out of lines |
| `nand` | 1 plane, 2 blocks (symmetric), queue of 3, ring of 3 intervals of 2 credits, times to 3 | 128 k | commands do not overlap, migrations are known, the ring implements `BandwidthWindow` |
| `kv` | 3 keys of which 2 collide, 4 slots, lengths 1-2, 1 iterator | 190 k | values stored are retrieved, iterations complete (a careful host) |
| `ftl_planes`, `l2p_hits`, `kv_any_host` | | | the findings of section 6 |

### The bounds, and why they are enough

* `zones`: an append to a zone that is written out lands at the first LBA of the next zone, and behind the namespace if it was the
  last: two zones have both. `MCBehind` has what decides how a descriptor behind them is taken: zeroed memory, with which an append is
  redirected into the namespace; and what an empty, closed or full zone, one with a single LBA left or one in no state would
  look like there. The theorems need no choice. Three LBAs with writes of up to two give
  writes that fill, stop short of, and cross the end. Two queues give a retry overtaken by another
  write of the same zone.
* `ftl`: collections start at two or fewer free lines (`GcThresLinesHigh`, `zns_ftl.c:359`), so five lines leave room for full, partly invalid and collected lines at once.
  `hostZones` keeps the host to the zones that fit with room to collect; section 6 says what
  comes otherwise (last zone). `maxDebt` bounds how far the credits fall below zero when there is nothing to
  collect; the host stops there. Larger debts only repeat what happens at smaller ones, and that there is always room is proved for
  every debt (`RoomForAll`). It is a statement about spare room (`Roomy`): with four lines, or with three zones in use
  and a larger debt, it fails, because each of the two write pointers takes a line for itself, and a collection that starts only when no
  line is left breaks it. In the zone-mapped namespaces no collection moves a page: a zone fills
  a line, is reset as a whole, and so a line is either wholly valid or erased by the reset;
  collections that move pages are the business of the page-mapped ones. The shipped geometry is scaled down to a line of two wordlines of
  one die; planes, groups and the pages beyond the tables in the last line are as in the device. `SharedSlc` and `SharedTlc` have erases that leave nothing behind, so that
  collections, resets and accesses beyond the tables are seen together. `CHECK_DEADLOCK FALSE`:
  after a failed assertion, a reused line or with the host's bounds exhausted, nothing goes on.
* `ftl_planes`: the two shipped namespaces; a zone is written and reset.
* `work_queue`: fewer entries than operations, so that entries are reused and run out while the
  worker stands on reclaimed ones. `NotLapped` is the one thing the small array would otherwise
  distort: that the dispatcher hands out the very entry the worker stands on takes a whole round of the
  free list, which has 16384 entries in the source. `CHECK_DEADLOCK FALSE`: all operations
  have been issued and posted.
* `l2p_cache`: a slot of three is smaller than the entries that compete for it, and resident
  entries can pin it wholly. Chunks divide sub-zones, which divide zones, as in the source.
* `write_buffers`: more zones than buffers, so that zones evict each other; writes of a whole buffer and
  of part of it.
* `cq`: three entries and two commands are the smallest ring with an entry between head and tail; the phase turns
  every three completions and the host may read more than a round before it rings the doorbell. `maxInFlight` bounds the drift of
  `nr_in_flight`, which whole rounds read at once make unbounded. `CHECK_DEADLOCK FALSE`: with that bound
  reached the host stops.
* `conv`: three logical pages of ten. With four, the two write pointers can be left without a line: the
  spare area is part of the argument. The same properties hold with six and seven lines of three pages (4.5 and 3.6 million
  states), too long for a run. The heap of the run has at most four elements, so an assumption of `MCConvFtl` checks every
  operation on all heaps of up to six elements with three priorities.
* `nand`: transfers of up to three units run over the end of an interval of two, and the clock goes once round the
  ring. A queue of three is a host command with migrations before and behind it. With one block, or two host
  commands alone, nothing is preempted.
* `kv`: two keys with the same hash value and a third whose own slot is the one they spill to, so that chains cross. The allocator only
  appends: `StorageSize` bounds the stores (`CHECK_DEADLOCK FALSE`).

### Fairness

`IoWorkQueue` assumes weak fairness of the dispatcher's steps within an operation, of the worker and of
the clock: both threads loop until the module is unloaded, neither waits for the other.
Commands need not come. `WriteBuffers` assumes weak fairness of the dispatcher as a whole (it
polls for ever) and of each scheduled release (`EveryOpIsPosted` of `IoWorkQueue` is why). It
does not assume that a particular command or queue is served, and the property is accordingly weak:
while writes wait, some command is answered. That each write is answered is not claimed; the
code gives no turn to a zone that waits for a buffer. `CompletionQueue` assumes weak fairness of the host driver, of the
dispatcher and of a worker in the middle of something, and strong fairness of beginning to fill a particular
completion and of withdrawing a request for an interrupt: a worker visits every entry of its list and every queue it serves once in
each round of `nvmev_io_worker`, so neither is passed over for ever, though other work may disable it in between.

## 4. What is proved

`ZnsZonesProofs` proves, for every number of zones, zone size, capacity, set of queues and
largest write, and whatever is read behind the descriptors, under the assumptions that `ZnsZones` states about its constants (at least one
zone, 0 < capacity <= size, at least one LBA per write):

* `TypeCorrect`: `Spec => []TypeOK`
* `CountersExact`: `Spec => []ResourceAccounting`
* `WritePointersAgree`: `Spec => []WritePointerMatchesState`
* `PoolsNeverRefuse`: `Spec => []LimitsNeverBind`

The inductive invariant (`ZoneInvariant`) is their conjunction: the counters alone are not
inductive. That a release does not take a counter below its zones needs the state the
write pointer allows; that a write fills a zone exactly needs that an open zone has room; and
that the pools never refuse needs the counters to be exact, because then a counter at the size of
its pool means that every zone is active, the one at hand included. Each command is summarised
by `MovesZone` (one zone changes state, the counters change by the difference), so the counting
argument over finite sets is made once (`ZonesInUpdate`, `AccountingPreserved`,
`MovePreserves`), and each handler has a lemma of its own (`ClosePreserves`, `FinishPreserves`,
`OpenPreserves`, `ResetPreserves`, `OfflinePreserves`, `AdvancePreserves`). `StepInv` goes
through the disjuncts of `Next`. A command that was put off can have any address: where it is outside the namespace the
check reads an element of `Behind` (`DescriptorRead`), and only `WriteStrays` can accept it, which touches no zone but may
change the counters; `ResourceAccounting` claims nothing after it, everything else holds on.

The module also proves what a step may never do, under the same assumptions:

* `PointersMoveByWrites`: `Spec => WritePointerMoves`
* `FullStaysFull`: `Spec => FullUntilReset`
* `RefusalsAreClean`: `Spec => RefusalLeavesNoTrace`

The three are the parts of `Lawful`. Under the inductive invariant each step is lawful
(`NextLawful`): commands that touch no zone (`IdleLawful`), those that change a state and no pointer
(`StateChangeLawful`), accepted writes (`AdvanceLawful`) and, action by action, zone management
(`MgmtLawful`). Of the invariant they use the types and that descriptors are functions on the zones.

`IoProofs` proves of the write buffers, for every number of zones, buffers and queues, every size of a zone
and of a buffer and every largest write (`SizesAssumption`: each is at least one):

* `BuffersAreUnshared`: `WbSpec => []OneBufferPerZone` (its types included)
* `OneReleasePerUse`: `WbSpec => []BusyUntilReleased`
* `TailIsBuffered`: `WbSpec => []BuffersHoldTheTail`
* `FlushIsComplete`: `WbSpec => FlushLeavesNothing`

The inductive invariant (`BufferInvariant`) has two parts. `Contents` relates the buffers, the media
and the write pointers: no two buffers have a zone, a buffer with data holds what lies between the media
and the write pointer of its zone, and where something lies between there is a buffer. `ControlOK`
has the types and says where the dispatcher stands; `BusyUntilReleased` needs it, because a
buffer that was allocated is busy before its release is scheduled. None of the properties is inductive alone:
a buffer that is taken over loses its data unless it was flushed first, and a flush writes to the right place only if the
buffer starts where the media end. Each change of the buffers is one of three (a zone is
settled, a zone is cleared, a zone is given an empty buffer), and `Contents` is shown for these
once; each action has a lemma. That the loops over the buffers find what they look for (`First`,
`Fullest`) comes from the well-foundedness of `<`.

`IoProofs` proves of the completion queues, under `SetupAssumption` (a ring has at least two entries, and the host
has fewer commands under way on its submission queues than entries, as NVMe hosts do) and `WorkerAssumption`:

* `CompletionsAreExact`: `OneFiller => (CqSpec => []CompletionsExact)`
* `StatisticsAreRight`: `OneFiller => (CqSpec => []InFlightUpToRounds)`

`OneFiller` says that one worker serves all submission queues of a ring, as it is where each
completion queue has one submission queue. The run `cq` has only such set-ups too; workers that
share a ring read its head before they lock it, and can write to the same entry (section 6). The inductive
invariant (`RingInvariant`) has three parts. `Window` is the ring as the host sees it from its head: the `n` entries
ahead carry the phase the host waits for, the others do not, and the worker's head and phase are those of
the first entry behind them. `Located`: the commands under way are the disjoint union of those queued, those in a
worker's hand and those of the `n` entries. `HandsOK`: only the one worker works on the ring, and at its
head. By counting (`NeverFull`) `n` then stays below the size of the ring, so an entry is never
written before it was read, although the code does not check it.

For the statistics the invariant adds two parts. `Fresh`: an entry that was never filled lies ahead of the host,
of the doorbell and of what the dispatcher saw given back, so whatever is counted down for belongs to some command.
`Rounds`: what the counts are ahead (`Lead`) is a multiple of the size; it changes by one round where the head or
the acknowledged position passes the end of the ring. `SumOf` adds up by a recursive function on sets. That there is such a function
(`SumOfSums`), and that the sum moves with one of the counts (`SumsDiffer`, `SumMoves`), is shown by least counterexamples (`OneLess`).

`ZmsFtlProofs` proves, for every namespace with the sizes of `NamespaceAssumption` (any number of lines, pages
per line, planes, groups and zones in use, page or zone mapping; the shipped geometry is one of them) that is `Supported`:

* `LinesInOnePlace`: `Spec => []LineCensus` (its types included)
* `CountersRight`: `Spec => []CountersMatchPages`
* `TablesAgree`: `Spec => []MappingsAgree`
* `FreeIsErased`: `Spec => []OnePlaneErased`
* `ListsRight`: `Spec => []ListsMatchCounters`

`Supported` says that under zone mapping a host resets only zones it has written out; without it `LineCensus` fails (section 6). The
properties hold until a line that is not erased all over is taken (`reused`), which is stated in each of them; `FreeIsErased` says that
with one plane that never happens.

The argument has two layers. **ZmsOnePlane** has the lemmas for namespaces with one plane per die, where what is free is erased;
it states no theorem of its own. `ZmsFtlProofs` carries them over: an erase leaves the pages of the other planes as they are, but until
a write pointer takes the line nothing looks at them. A namespace whose free lines are *seen* as erased (`Seen`) is one with a single
plane, an instance of `ZmsOnePlane` (`One`); and as long as the lines a step takes are erased (`Clean`), the step is a step of that
instance (`Shadow`, action by action). So `FtlInv`, the invariant, is that of `ZmsOnePlane` on the seen pages, and `Raw`: no page of a free
line is valid, and with one plane all are erased. Without the view the invariant would not be inductive: the counters of a free line are
zero while its pages are not free.

The inductive invariant of `ZmsOnePlane` has these parts. `Census`: the free
list has no line twice, and the places of a line exclude each other. `Counted`: the counters are those of the pages. `OnLines`: a
write pointer goes through its line in order, free lines are erased, and only lines it has left lose pages to the victims.
`Agree`: the two tables are inverse on the valid pages. `InRange`: until the medium is out of space no write
pointer is beyond the tables, where accesses are skipped. `JobOK`, `PageZones` and `LineZones`: how far a collection or reset in
progress has come, and what is mapped of a zone meanwhile. The last is what makes the reset right under zone mapping: a reset
finds out where a line is from its valid count alone (`zms_read_write.c:1367`), and erases the chain
that begins at the first line it met; both are right only because a zone written out has exactly one line, a full one, and the queue
of victims is empty when no reset is under way. There is a lemma for each way in which a page or a line changes
(`PutPageKeeps`, `DropKeeps`, `MoveKeeps`, `LeaveLineKeeps`, `AdvanceKeeps`, ...) and one for each action;
`StepKeeps` goes through the disjuncts of `Next`. Counting is done once: `CountMoves` and `CountFacts`.

In the same way `ZmsFtlProofs` proves, for every supported namespace,

* `RoomForAll`: `Spec => AlwaysRoom`, for a threshold of at least two lines (`zns_ftl.c:359` sets two)
* `StoreImplemented`: `Spec => ImplementsStore`

`AlwaysRoom` speaks of hosts that leave lines to the write
pointers (`Roomy`), of any planes, groups and debt of credits: no assertion fails, and the namespace becomes full only once it uses a line with
pages beyond the tables. With two groups that is the last line only; with one group there are none, and such a namespace is never full. The invariant is `RoomInv`. `Room` counts the pages that can be written before another line is
erased: the free lines, and what is left under the write pointers. With page mapping it never falls below two lines (`PageRoom`), which is what
a write pointer needs to find a line when the other one has just taken one (`LineAhead`). Credits hold because a write takes a page of
room and a credit, and a collection gives back as many credits as pages: its victim is all valid or invalid pages, and what it moves and
what it frees make a line. It always frees at least one page. That leaves the case in which a collection is due and finds no victim
(`NoVictimRoom`), where no credit is given and the host writes on. Then every line that is not free or under a write pointer
is full of valid pages; there are no more valid pages than the host's zones have (`ValidBound`), hence no more full lines than zones
(`FullBound`), one less if the page just written shows that some are valid elsewhere (`JustWritten`), and counting lines (`LineCount`)
leaves two lines of room. With zone mapping each full line belongs to a zone of its own (`ZoneBound`), so a zone that is begun
finds a line.

`ImplementsStore` needs no room: until the namespace is full nothing is dropped, and what can be read of a zone is exactly what was written to it
(`ReadsWhatIsWritten`); each step then appends a page, clears a zone or is not seen by `ZoneStore`. `ZoneStore` promises nothing once
it has failed, which is when the namespace is full or has reused a line that is not erased.

`KvFtlProofs` proves, for any keys, hash function, number of slots, lengths and iterators, and a careful host (section 6 has
what happens with another):

* `CompleteIterations`: `Careful => (Spec => []IterationIsComplete)`
* `StoredValues`: `Careful => (Spec => []RetrievesWhatWasStored)`

The invariant is `KvInv`. That the search finds every entry (`EntriesAreFound`) is not inductive: a deletion clears
`next_slot`, so what must be known is that nothing is chained to a key the host may delete. This is `ChainsGetNewer`: a chain leads
from an older entry to a newer one, the offsets of the allocator being the ages, and the host deletes the newest. That a key has one slot
(`KeysAreUnique`) needs in turn that the search for it would have found the first (`EntriesAreFound`); values are kept because the regions of
two entries do not overlap (`RegionsDisjoint`), which is what a careful store keeps. A search is defined without recursion, as the least set that
has the first slot and with an entry the next one; `StillFound` says when a change of the table keeps an entry in it, and
`ChainEnds` that it has a last slot.

`IoProofs` proves of the work queue, for any number of entries from two up, any queue depth, number of operations, delays and times, and under
`NotLapped`, which is a guard of the model:

* `ListsStayIntact`: `Spec => []ListsIntact`
* `NeverPostedTwice`: `Spec => []PostedOnce`
* `ReclaimedAfterPosting`: `Spec => []ReclaimedWerePosted`
* `SortedButForDue`: `Spec => []InversionsAreDue`

The two threads share the lists without a lock, and it is not the lists that could go wrong: only the dispatcher changes links
(`WorkerLeavesLists`), so that `ListsOK` (the four places of an entry exclude each other, both lists end at their tails, `prev` mirrors
`next` on the work list) holds as for a sequential program. What could go wrong is the worker's walk. It may stand on an entry that was
finished and reclaimed meanwhile: before the entry is cut off it goes on to the work list, after that over the free list.
`WorkerOK` is why this is harmless: what lies ahead of a free entry it stands on is completed, so the worker
skips it, and an entry it is about to mark is not completed. It holds because a reclaimed entry was completed (`InHandOK`), stays so
until it is handed out from the head of the free list, and what lies ahead of it there was given back with it or later. `PostedOK` says that the operations of the
entries that are linked or in hand are distinct and that one was posted if its entry is completed or about to be marked;
with it a visit finds an operation that was not posted (`NotCompletedIsWork`: an entry the worker finds not completed is on the work list).
The invariant `QueueInv` is their conjunction with the four properties; `PostedOnce`, for one, is not inductive without the others. How links change is
said about `Reached`: `Splice` gives every list after an entry is linked between two, `SplitList` and `ReachedInOrder`
take a list apart, `OneBefore` says that links do not meet, `ListsDoNotReturn` that a list with an end has no cycle.

`NandTimingProofs` proves, for any planes and blocks, latencies, length of the ring, length and credits of its intervals, and every
order of requests for whatever times:

* `OneAtATime`: `Spec => []OneCommandAtATime` (its types included)
* `MigrationKnown`: `Spec => []MigrationIsKnown`
* `WindowImplemented`: `Spec => ImplementsWindow`

The invariant, `TimingInv`, has a part for each plane (`PlaneOK`) and one for the channel (`ChannelOK`). A plane needs to know of
the channel only that no transfer ends before it begins (`RequestFacts`), the channel nothing of the planes.
For a plane, `ClearedOK` says that what is complete can be taken out of the queue, `UpdateOK` that a command fits where
`plane_getstime` puts it (`StartFacts`): `InPlace` is the argument about times, for a queue with any command put
before any other and the rest delayed by as long as it takes. For the channel the invariant adds that nobody took credits of the
intervals beyond `valid_len`, which is why it is enough to refill the valid ones. `RingFacts` and `TurnedTwice` are the
arithmetic of the ring; `AtTimeFacts` says that the passing of time moves the window, `ConsumeFacts` that a transfer takes the credits of its
interval and of those after it, all of each but the last. `Consume` computes what is still missing interval by interval, by a
recursive function; that there is such a function is proved in `MissingCredits`, without an induction theorem (a least counterexample).

`L2PCacheProofs` proves, for any number of slots, entries per slot, zones and pages, and units of any size:

* `IndexIsRight`: `Spec => []IndexFindsEntry` (its types included)
* `ChainsAreWhole`: `Spec => []ChainIsWhole`
* `LruImplemented`: `Spec => ImplementsLru`
* `GranularitiesAgree`: `Nested => (Spec => []GranularityAgrees)`

The inductive invariant (`CacheInv`) says that the index arrays and the entries in use tell the same story (`Indexed`) and that
each slot has a chain: a list `c` of its entries, each once, from head to tail along `next` and back along `last`
(`Chain`). Neither half is inductive alone: that the key an eviction drops had its index there needs
`Indexed`, and that what is evicted is an entry in use, and the one to evict, needs the chain. An entry that moves to the tail makes another chain of the
same entries (`ToEnd`, `MovesChain`), one that was never used a longer one (`Longer`, `AppendFacts`); what an entry says does not matter
for it (`FilledChain`). The two walks, `Evictee` and `Chained`, are recursive functions. That such a function exists and finds the first entry that is not resident
(`WalkIs`, `EvicteeIs`), and the list `c` itself (`ChainedIs`), is shown by least counterexamples. `InsertFacts` says what
`l2p_insert` does in its three cases, `IndexTaken` that clearing the index of the evicted key, in the namespace `Owner` finds, keeps the arrays right.
For the refinement the keys along the chain are the order of `LruCache` (`RecencyIsNames`); a read hit is a use (`UseStep`), another
granularity pins or unpins (`PinStep`), an insertion makes room or is not seen (`InsertStep`).
`Nested` says that chunks are of more than a page and divide sub-zones and zones (`CHUNK_SIZE`, `ssd_config.h:412`, 4 MB). Without it a unit could
end inside another and the claim is false. The invariant behind it (`GransInv`) says that a zone is
mapped in order, in the units `WrittenInOrder` names, and that the last page of a chunk is in the cache as a single page only
(`EndsAreSingle`), for it never begins a larger unit; entries of pages that a reset unmapped may be left over until they are mapped again, and a
write that maps them in another unit meets them then. `DivisionIs` and `Splits` are the arithmetic of units.

`ConvFtlProofs` proves, for any number of lines from two up, pages per line, logical pages and threshold:

* `VictimsAreHeap`: `Spec => []QueueIsHeap` (its types included)
* `EveryLineAccounted`: `Spec => []LinesAccounted`
* `WrittenPagesLive`: `Spec => []MappedPagesLive`
* `SpareLinesSuffice`: `Spare => (Spec => []NeverOutOfLines)`

The heap comes first, and knows nothing of lines. `Way`, the places an element passes, is recursive along the steps it takes;
that the recursion has a value is shown by a least (or greatest) counterexample (`WayExists`), and all that is used of it is that it
is the least set with the place it starts from and with a place the next one (`WayFacts`). `RisesInHeap` and `SinksInHeap` say that a
shift along a way mends a heap that is wrong at one place only (`HeapButAbove`, `HeapButBelow`); `ShiftFacts` that a shift keeps the
elements, each once, and their positions. `InsertHeap`, `ChangeHeap` and `PopHeap` are what the queue promises.

The inductive invariant is `ConvInv`. `LinesOK` gives each line one place (`at`, in `Layout`: the free list, the full list, the queue, the
collection, a write pointer), and says what its pages are there: all free, all valid, written with an invalid one
among them, written up to the pointer. That the queue has exactly the lines
whose `pos` is not zero makes the test of `mark_page_invalid` one for membership. That a line leaves its write pointer for the right
list needs the counters to be those of the pages; that the pages of a line being written are free from the pointer on
keeps a page from being written twice. `TablesOK`: the two tables are inverse to each other on the valid pages that were not just moved out of the
victim, whose old pages stay valid until it is erased. `FlowOK`: credits are at zero exactly while a collection is due or going on.
Each way in which a line or page changes has a lemma about `Layout` (`InvalidateKeeps`, `PutKeeps`,
`CollectKeeps`, `FreeKeeps`) or the tables (`PutAgrees`, `MovedAgrees`, `AfterKeeps`), each action one of its own, and `StepKeeps` goes through `Next`.

`NeverOutOfLines` needs a hypothesis: with too little space to spare the write pointers do run out of lines, and the run shows it with
four logical pages instead of three. `Spare` says how much is enough: if the logical pages fill `f` lines, the device has five lines more
(less two pages), and a collection is due while two lines are free (`gc_thres_lines_high`, which the code sets to 2). The five are the three lines
of a refill that finds nothing to collect and the two under the write pointers. The conventional configuration (`SAMSUNG_970PRO`,
`ssd_config.h:75`) has 8192 lines and leaves 7% of the logical space to spare, some five hundred lines; the run's sizes satisfy it too, and
TLC evaluates it there (`SpareLeft`). The invariant is `RoomOK`, over `ConvInv`: the pages
that can be written without erasing a line (`Room`: the free lines and what is left at the write pointers) cover the
credits handed out and two lines; during a collection they cover the pages yet to be moved, the credits the victim will bring and one line, for the
victim brings that line back. Credits are the invalid pages of a victim, all of whose pages are written, so selecting one
costs no room (`SelectRoom`); a page written or moved takes one (`PutRoom`), and as more than a line of room is left the free list is not
empty when a line is used up. When there is nothing to collect, every line that is neither free nor under a
pointer is full, and full lines hold logical pages, each another one (`FullPages`, `LinesCovered`): that bounds them, and `Spare` leaves the rest.

Only model-checked, or out of reach of these proofs:

* liveness (`EveryOpIsPosted`, `SomeCommandIsAnswered`, `EveryCommandIsSeen`), and `ENABLED`.

## 5. What is not modelled, and why

Contents of pages and the copy itself (PRP lists, DMA); latencies as numbers; writes smaller than a page (such a write at the
page of the previous one is acknowledged without advancing the write pointer, `zms_read_write.c:2915`);
migration from pSLC to TLC, which `SLC_BYPASS` leaves without a caller in the dual device; the block
and meta namespaces; report zones and identify (no state); deletion of queues, which frees them while a worker may still use
them (`admin.c:162`); memory that is allocated and not freed (`submit_nand_cmd`, `zms_read_write.c:518`, for commands a plane never
queues); the order in which a preempting read overtakes the program of its own block (`ssd.c:761` compares the first
migration command that is yet to start only); concurrent key-value commands of several workers (`io.c:668`, no lock); the bitmap
allocator. The sticky `device_full` and `pslc_full` (`zms_read_write.c:812`) are in the model, but what should clear them is
stated nowhere: `AlwaysRoom` says when they are set, no property when they are cleared. `simple_ftl.c` has no state. `f2fs-tools-1.14.0`, which is most of the
lines of the repository, is third-party; `fioconfs`, `ssdconfigs` and `scripts` are inputs of experiments. The legacy
ZNS write path is in the plan.

## 6. Findings

Shown by a run:

* **Planes** (`ftl_planes`): erasing a line marks the blocks of one plane per die as free (`zms_read_write.c:2105-2122`). The device that
  is built has four (`PLNS_PER_LUN`, `ssd_config.h:304`), so up to three quarters of the pages of a line on the free list are still marked
  invalid; the docs say that `erase_line()` erases the old blocks and puts them back (`docs/io-flow-conzone-dual.md:327`).
  When the line is taken again (`reused`), `mark_page_valid` refuses those pages: they hold data with status `INVALID`, `vpc` does not count them, a
  collection does not move them, and the line's list, guessed from `vpc` (line 1367), can be the wrong one.
* **Cache hits** (`l2p_hits`): an entry that maps one page counts as a hit for the other pages of its zone
  (`zms_read_write.c:3186`).
* **Deleted keys** (`kv_any_host`): deleting a key cuts the chain of the keys that collided with it
  (`kv_ftl.c:483`), and a retrieve does not find them any more.

Met while modelling; what the runs claim is stated for set-ups without them:

* **Limits**: the pools of active and open zones are as large as the namespace
  (`zns_ftl.c:102`), while identify reports 6 of each (`admin.c:456`). `PoolsNeverRefuse` proves that the
  code never refuses.
* **Partial reset**: resetting a TLC zone that is partly written adds its line to the free list while it stays on the full list:
  `mark_line_free` takes `vpc != pgs_per_line` for membership of the victim queue (`zms_read_write.c:1367`), does not find the line there and
  adds its entry to the free list without removing it from the full one, where its comment says "move this line to free line list" (line 1402). With
  `Tlc` of `MCZmsFtl` changed to `partialReset |-> TRUE, hostZones |-> 0 .. 2, maxDebt |-> 1`, `LineCensus` fails. The zone-mapped
  namespaces of the run `ftl` and of the theorems therefore have a host that resets written-out zones only.
* **Append to the last zone**: an append to a zone that is written out is redirected to its write pointer, the first LBA of the next zone
  (`zms_read_write.c:2905-2908`), whose descriptor `zns_write_check` then looks at; if that zone is empty the append lands there. Behind the
  last zone there is none: the check, and the redirection when the command was put off with that address (line 2933), read
  `zone_descs[nr_zones]`, beyond the array of `zns_ftl.c:63`. Where the memory is zero a command that is tried again is redirected to LBA 0, and lands
  in zone 0 if that is empty; where it looks like a zone that accepts the command, a write pointer and a state are written to it (`WriteStrays`).
* **Chunk entries**: `docs/io-flow-conzone-dual.md:289` and `295-296` say that `CHUNK_MAP` entries are evicted by LRU and only sub-zone and zone
  entries are resident; `check_resident` (`zms_read_write.c:14-19`) makes every entry but a `PAGE_MAP` one resident. `LruCache` has the
  pinned keys of the code; an invariant of `L2PCache` that no entry in use with granularity `CHUNK_MAP` is resident fails.
* **Full for ever**: with two groups of lines the index of a page counts the rows of both (`ppa_2_pgidx`, `zms_read_write.c:150-173`), and
  the second half of the pages of the last line is beyond the tables. A write pointer that passes there sets `device_full` or `pslc_full`
  (lines 808-815), which nothing clears after start-up (`zns_ftl.c:866`): every later write fails, whatever is reset. In the shipped TLC
  namespace this comes first: lines are handed out in order, so that before one is reused the last has been taken (TLC: `reused => noSpace` there).
  pSLC reuses a line that is not erased only while a write pointer stands in the first half of the last line.
* **Last zone**: there are as many zones as lines, and none to spare for the collection: a
  host that writes all zones meets `NVMEV_ASSERT(curline)` (`zms_read_write.c:955`; `halted`).
* **Shared rings**: when queues of different workers share a completion queue, both can read the same head before they take
  the lock (`io.c:597`) and a completion is lost. `MCCompletionQueue` with `sqs |-> {1, 2}` shows it (`CompletionsExact` fails).
* **Torn completions**: the phase bit is stored before the results (`io.c:604-606`), so a host that is already looking can take
  the entry with the result of an earlier command, for an append its address. `CompletionsExact` allows this one window.
* **Statistics**: a host that reads a whole round of the ring before it rings the doorbell leaves `nr_in_flight` too high by
  that round; `InFlightUpToRounds` says it is right but for that.
* **Key-value stores**: a small value that grows is written over the next value (`kv_ftl.c:535`); a batched store does not record a
  new length (`kv_ftl.c:685`); the search for a free slot has no end when the table is full (`kv_ftl.c:182`); a key that is a prefix of
  another is taken for it (`kv_ftl.c:348` compares the length of the key searched for; the model has keys of one length);
  `iter_handle[16]` is used and not initialised (`kv_ftl.c:1059`); the allocator gives out more than there is (`append_only.c:25`).
* **Migration flag**: `check_migrating` asks the dies (`zms_read_write.c:752`), a dual build marks the planes only
  (`ssd.c:780`), so nothing ever waits for a migration.

## 7. Plan

Done: `ZnsZones` and its proofs, `ZmsFtl`/`ZoneStore` and its proofs (for any planes and groups), `WriteBuffers` and its proofs (in `IoProofs`), `L2PCache`/`LruCache` and its proofs,
`IoWorkQueue` and its proofs, `CompletionQueue` and its proofs, `ConvFtl`/`PQueue` and their proofs, `NandTiming`/`ChannelModel`/`BandwidthWindow`
and their proofs, `KvFtl` and its proofs.

Next, in this order:

1. `LegacyZnsWrite`: buffer accounting of `zns_read_write.c`, its error exits (an exit after the allocation does not give
   the space back, `zns_read_write.c:50`), the random write area.
2. A composition of `WriteBuffers` with `ZnsZones`, showing that `Retry` abstracts the put-off writes.
3. Deletion of queues in `CompletionQueue`; the bitmap allocator in `KvFtl`.

Proved: the theorems of section 4, which state every invariant that the runs check.
