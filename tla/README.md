# Verification of LibWrt's own run-time logic

LibWrt is an OpenWrt tree for Qualcomm IPQ (qualcommax) routers.  Most of it is
build system and vendored code.  This project models the parts that carry logic
of their own and are hard to test: the skb recycler that the target adds to the
kernel's networking core, netifd's wireless device handling, the page_frag
allocation scheme that the ath11k fix changes and `simulator /pagefrag_sim.py`
studies, the NMBM bad block management under NAND flash, and the unetmsg
publish/subscribe daemon.  Paths below are relative to the repository.

## Inventory

| Component | State | Operations | What is hard | What makes it correct |
|---|---|---|---|---|
| skb recycler (`target/linux/qualcommax/files/net/core/skbuff_recycle.[ch]`, patch `0981-1`) | per-CPU hot and spare lists, a ring of global pools, limits, enable switch, per-buffer flags | alloc, consume, consume a list, flush, CPU down, procfs writes | tasks, softirqs and CPUs interleave; checks are made before interrupts go off; hotplug; flags that outlive a buffer | a buffer has one owner, none is lost, the ring is not overrun, what alloc returns is clean |
| recycler lock (same file) | `glob_recycler.lock`, interrupt state | every path that takes it | the same lock from tasks and softirqs | everybody who waits gets it |
| reference dropping (patch `0981-1`) | `skb->users` | `consume_skb`, `sk_skb_reason_drop` | racing owners | released exactly once |
| wireless devices (`package/network/config/wifi-scripts/files/lib/netifd/wireless-device.uc`, `wireless.uc`) | per device: state, autostart, retries, pending change; one script queue, one running script | ubus up/down/retry/reconf/notify, reload, network changes, script exit, timeout, dead daemon | events arrive while a script runs or waits | no device stuck, no change lost, no late script, everything settles |
| page_frag (`simulator /pagefrag_sim.py`, ath11k patch `960`) | pages with counts, caches with offset and bias, fragments | allocate, free, drain, direct allocation | fragments freed in any order, pages reused, failing requests | counts exact, no early free, no leak, no overlap, rings apart |
| scenario replay (same file) | live records, totals | post, reap, alloc, free | incremental totals | totals equal a recount |
| NMBM (`target/linux/generic/files/drivers/mtd/nand/mtk_bmt_nmbm.c`, `mtk_bmt.c`) | on flash: signature, main and backup info table, bad block marks; in memory: block states, mapping, the borders of the spare area | attach, create, mtd erase, write, read, mark bad, table update and rescue, debugfs repair | power cuts between and inside flash operations, blocks that fail while a failure is handled, spare blocks running out | a table always survives, acknowledged data can be read back or is known to be given up, blocks have one use |
| unetmsg (`package/network/services/unetmsg`) | publish/subscribe tables, a channel to and one from each peer, a reconnect timer | local and remote publish, subscribe, connect, handshake, network update | lost, crossing and replaced channels, each end noticing on its own; restarts | remote tables follow local ones, nothing stale is kept, hosts find each other again |

The components interact little: the recycler's three modules look at the same
file at three grains (lists, lock, count); `PageFragReplay` drives `PageFrag`;
`wireless.uc` drives `wireless-device.uc`, both inside one event loop;
`mtk_bmt.c` calls the NMBM operations; the hosts of a unet network interact only
through their channels, and `UnetMsg` composes two of them.  `PROJECT.json`
lists every component, also those left out (hostapd glue, ead, button and relay
drivers, mtd tools, sysupgrade, the older bad block schemes, swconfig,
utilities, build system, documents), with the reason, and every hazard at its
line with the properties aimed at it.

## Modules

**SkbRecycler** (`MCSkbRecycler`, `SkbRecyclerProofs`).  A list is a set of
buffers: the code reads only lengths and takes any element.  A list operation
runs with interrupts off on the CPU that owns the list and takes the lock at
most once, so it is one step (`AllocHot`, `AllocRefill`, `AllocMiss`, `PutHot`,
`PutSpare`, `PutGlobal`, `PutFull`).  What the code reads before it turns
interrupts off, the enable switch, the limit and the verdict of
`consume_skb_can_recycle`, is a step of its own (`AllocEnter`, `ConsumeEnter`,
`ListFastEnter`), so flushes, procfs writes and other contexts come between.
The kernel is built with `CONFIG_PREEMPT_NONE` (`target/linux/generic/config-6.12`),
so a context does not change CPU in between.  A flush is one step per list and
one for the global pools.  `skb_cpu_callback` is one step with the transition:
hotplug excludes the per-CPU flush tasks, and nothing runs on a dead CPU.  A
buffer carries only what the recycler depends on: whether its
`skb_shared_info` is clean, whether its size is the recycle size, and the three
flags.  What drivers and the stack do to a buffer (`HostTouch`, `Marked`) is
external: the fast path and the DS rings mark only buffers whose shared info
they left alone, and the DS driver takes its mark off before the host touches a
buffer.  The other tests of `consume_skb_can_recycle` are one Boolean.

**SkbPool** (proofs in `SkbRecyclerProofs`).  What the recycler promises to its users, without CPUs, lists,
limits or flushes: a buffer is in the slab, owned, on its way back or cached;
only its owner changes its contents; an allocation gives out a clean one.
`SkbRecycler` instantiates it (`Pool`): owned are the buffers held outside,
returning those in the hands of a consume, cached those on any list or in the
ring; `ImplementsPool` says that every
step of the recycler is a step of the pool or leaves it alone.

**SkbLock** (`SkbLockProofs`).  A task and possibly a softirq per CPU; a softirq runs on top of
the task when interrupts are on.  Every path that takes the lock is "data"
(interrupts off first, lock only when needed), "proc" (irqsave throughout) or
"dead" (`skb_cpu_callback`, plain `spin_lock` around an irqsave section).
`SoftirqCPUs` and `HotplugCPUs` say where softirqs use the recycler and where
hotplug runs.

**SkbRefcount** (`SkbRefcountProofs`).  One buffer and its owners.  `skb_unref` (external) is a read
and, unless it saw one, an atomic decrement; `sk_skb_reason_drop` does that and
then calls `consume_skb`, which does it again.  `dropped` is a history variable.
After its release the buffer may come back from the recycler: `Realloc` sets the
count to one, except for a no-reset allocation of a buffer that the DS rings
marked (`ds_mark`), which takes the count as the last owner left it.  That is
sound because the last owner leaves without a decrement.

**WirelessDevice** (`WirelessDeviceProofs`).  netifd is one event loop, so a handler is one step,
including the setup or teardown it starts and the script it launches.  `dev` is
the wdev object, `queue` is `wdev_handler`, `cur` is `wdev_cur`, `timer` is
`handler_timer`; `stale` records whether the last setup script saw the current
configuration.  The queue is sorted by seconds, so any waiting device may come
first.  A script that cannot be started is one that ends at once; a timeout is
an end too (`netifd.process` is external: a cancelled process reports no exit).
`SET_RETRY` may set any count up to the default.  Left out: configuration
contents, `handler_data`, link notifications, MLO.

**PageFrag** (`MCPageFrag`, `PageFragProofs`).  One step is one call: caches
are serialised by the SRNG lock or by their lane.  `policy` is the
`ScenarioReplay`'s policy and selects the cache of a request.  `refill`,
`rollover` and `Take` are the parts of `PageFragCache.allocate`; a refill may
yield the small fallback page and a page of the emergency reserve at any time.
Page numbers are reused after a free.

**PageFragReplay** (`MCPageFragReplay`, `PageFragReplayProofs`).  Extends `PageFrag` with the stage of
each buffer and the totals, updated as the code does: subtract the contribution
of the affected pages, call, add it again.  Totals by class of slack and
requested bytes are kept in the same way and left out, as is time.

**Nmbm** (`MCNmbm`, `NmbmProofs`).  The chip (`flash`, `marked`) is apart from the memory of
the driver (`ni`, `cache`, `wr`, `ctx`, `op`), so that `Cut` keeps the one and
loses the other.  A step is one erase or one write of a block, which may fail,
and after which power may go; in the middle of one, the block in hand may become
unreadable.  The functions that write tables are unfolded at their writes:
`wr.site` names the write in progress, and what a function does next, when a
block took the table or when no block is left, is one case each of what follows
that site; `ctx` names the caller.  `Attach` finds the signature, loads both
tables and repairs what is missing; `Create` and `MapTail` are
`nmbm_create_info_table`; `mtd_erase`, `mtd_write`, `mtd_read_fails` and
`Retire` are the mtd operations with the remap they may end in
(`bbt_nand_copy` in `mtk_bmt.c`); `unmap_block` is the debugfs repair.
`want`, `lost` and `seen` are observers.  `want` is what each page was acknowledged
as, and changes only by what clients and the flash do: a write, an erase, a failure
of one, power lost in the middle of one.  `lost` are the pages the driver gives up
although nobody asked it to: those from the first one that `bbt_nand_copy` cannot
copy (its result is ignored), a block copied to one whose erase failed (ignored as
well) and what is then written there, a block that `mark_good` moves without copying
it, and one whose debugfs repair the power cut.  Nothing but an erase or a successful
write of the page takes a page out of it.  `seen.astray` notes that `nmbm_map_block`
passed a bad spare block or that `unmap_block_nmbm` took a block that is not the
logical block's own.  A table is the record of its contents, and loads or not:
checksums and page formats are left out.  The raw NAND driver is external.

**UnetMsg** (`MCUnetMsg`, `UnetMsgProofs`).  Two hosts and their clients.  A channel is a record
with its two ends, the handshake, what is under way, and whether it is cut; the
end `a` opened it.  `network_connect_peers` is the timer's callback, `hello`,
`network_check_auth` and `auth_data` the steps of the handshake at either end,
`network_socket_handle_request` the arrival of an announcement,
`tx_disconnect` and `rx_disconnect` the callbacks that notice a dead channel.
The sockets have `TCP_USER_TIMEOUT` and no keepalive, so an end is told of a cut only
if something it sent is not acknowledged or the peer's closing reaches it: `sign`
holds the ends of a cut channel that are told.  Either may be told when the cut
happens, the opening end must be when announcements under way are lost, and `Sent`
adds it when something is sent later.
Several channels of a link may be open at once (an old one whose end has not
noticed, a new one).  `cut`, `handshake_timeout`, `network_update`,
`network_reopen` and `restart` are what goes wrong or changes.  `open` says whether
a host has the network: `network_open` returns without a timer when its listen
fails (`Opening`), at start, after a restart or after a change of the address, and
the next message of unetd tries again (`network_open`, `network_update`).
`peers[<<a, b>>]` are the names that `b` allows from `a`.  unetd's tokens
and the sockets of ubus channels are external.  `told` is an observer, and so is
`empty` of a channel; `list` holds the names noted on it (`sock_data.publish` and
`subscribe`).

## Runs

| Run | Properties | Bounds |
|---|---|---|
| `skb_data` | `TypeOK`, `RingExact`, `ListsBounded`, `CachedReusable`, `AllocDeliversClean`, `ImplementsPool` | 1 CPU, 2 contexts, 3 buffers, 2 pools, hot limit 1, spare limit 0..1, batches up to 2 |
| `skb_admin` | `OneOwner`, `NoneLost`, `DeadCpuDrained`, `OpsComplete`, `FlushEmptiesCache`, `ImplementsPool` | 2 CPUs, 1 context, 2 buffers, 2 pools, hot limit 0..1, spare limit 0 |
| `skb_lock` | `TypeOK`, `NoSelfDeadlock`, `WaitersProceed` | 3 CPUs, hotplug on the one without softirq users |
| `skb_lock_hotplug` | `WaitersProceed`, violated | 2 CPUs |
| `skb_refcount` | `NoUseAfterRelease`, `ConsumeNeverLeaks` | 4 owners |
| `skb_refcount_drop` | `NoLeak`, violated | 2 owners |
| `wireless_device` | `TypeOK`, `NeverStuck`, `IdleWhenDown`, `ChangeRemembered`, `GaveUpIsDown`, `Settles` | 2 devices, 1 retry, 6 outside events |
| `wireless_down` | `DownTakesEffect`, violated | 1 device, 4 outside events |
| `pagefrag` | `TypeOK`, `RefcountExact`, `NoUseAfterFree`, `NoPageLeak`, `NoOverlap`, `RingsApart` | 3 pages, 2 fragments, 3 rings, page sizes 2 and 3, request sizes 1, 3, 4 |
| `replay` | `AggregateExact`, `UsageSound` | 3 pages, 2 buffers, 2 rings |
| `nmbm` | `TypeOK`, `TableSurvives`, `DataIntact`, `Exclusive` | 9 blocks, 2 of them data, blocks of 2 pages, 3 faults, 1 power cut |
| `unetmsg` | `TypeOK`, `Agreement`, `NothingStale`, `SubscribersTold`, `Reconnects` | 2 hosts, 2 names, 2 clients, 2 channels per link and direction, 1 announcement in flight, 1 fault |

Limits of zero and one reach every branch: an empty spare list moved into the
ring, a refill from an empty pool, a full hot list, spare list and ring.  Three
buffers fill the hot and the spare list and leave one for the ring; with a hot
limit lowered to zero two are enough to get a buffer into the ring.  With two
pools the ring is full with one, so wrapping and being full happen at once.  In
`pagefrag`, request sizes fit both kinds of page, only the large one, and none;
two fragments and three pages suffice for a page left to its fragment while the
cache moves on twice.  Symmetry (buffers, contexts, CPUs; pages, fragments) is
used only in runs without liveness.

In `nmbm`, nine blocks hold two data blocks, two tables with a spare block, two
blocks to map to and the signature.  Three faults wear out every spare place of
a table (so the main table moves, is rescued through a temporary copy, or the
driver goes on with one table) or use up the blocks to map to; new chips with
factory bad blocks reach remapping at creation and its failure.  Faults
count factory bad blocks, failed operations and debugfs writes, so that they
bound the length of a behaviour as well.  These bounds are too small for what
follows once `nmbm_map_block` has passed bad blocks, and the properties of this run
are stated until then (`~seen.astray`): a table written over a mapped block needs two
passed blocks, two failing ones behind them and a write of the backup table.  What
the premise and `lost` leave out is under Findings.  Both attachers are there: the
boot loader that creates what is missing, and the kernel that only loads.

In `unetmsg`, a client of one host publishes a name to which a client of the other
subscribes.  Nobody uses the second name, which may be all that a host allows its
peer: announcements that are not allowed arrive then, and are ignored.  That the
first and the last of several clients of a name differ is left to the theorems,
`PeersAgree` and `SubscribersHear`, which have any number of clients; with three
clients and one name the run passes as well, but three clients and two names take
too long.
Two channels of a link suffice for an old one that one end still takes as open.
One fault is one cut, failed or slow handshake, configuration change or restart;
it happens in any state, also during the first connection; a failing listen and the
handshake timers of a channel that was cut already cost none.  A client waits while
an announcement is under way on its host's channel.  Two faults and two
announcements in flight were tried for the safety properties alone and also
pass; they are too large to keep as a run.

Deadlock checking is off where the system may stop: a leaked buffer, a lock
nobody releases, wireless devices once the bound on outside events is used up,
and a chip that cannot be attached.

## Fairness

- Recycler: a context inside an operation and a scheduled flush go on (weak
  fairness): kernel code runs to its end.  Nobody has to start anything.
- Lock: strong fairness of each context's steps.  arm64's queued spinlocks
  serve waiters in order; a task is promised progress only while its CPU keeps
  coming back to it.
- Wireless: the running script ends or its 30 s timeout fires, and an armed
  timer fires (weak fairness).  Nothing is assumed of users or of what a script
  reports.

- unetmsg: the reconnect timer fires and what is ready on a channel is handled,
  its closing included (weak fairness): uloop polls every descriptor and runs
  every expired timer, those of a handshake on a channel that was cut among them.
  TCP owes an end nothing that has nothing unacknowledged: `tx_disconnect` and
  `rx_disconnect` of a cut channel are enabled only for the ends in `sign`.  Nothing
  is assumed of clients or of unetd, and trouble is bounded.

## Findings

1. `skb_cpu_callback` (`skbuff_recycle.c:418`) takes `glob_recycler.lock` with
   interrupts on, while softirqs take the same lock: self-deadlock on the CPU
   that takes another one down.  Run `skb_lock_hotplug`.
2. `sk_skb_reason_drop` (patch `0981-1`, line 443) drops the reference twice:
   after a real decrement to zero the buffer is never released.  Run
   `skb_refcount_drop`.
3. `stop()` during a setup (`wireless-device.uc:433`) sets `cancel_setup`, which
   nothing reads: `wifi down` is lost.  Run `wireless_down`.

Met while modelling, without a run of their own; TLC finds each when what excepts it
is left out of the property:

- `nmbm_map_block` (`mtk_bmt_nmbm.c:1567`) lowers `mapping_blocks_top_ba` by one
  also when the walk passed bad blocks, so the next remap may take a block that is
  mapped already (`Exclusive` without `~seen.astray`).  With ten blocks and factory
  bad blocks 0, 1 and 7, creation maps logical block 0 to block 8 and block 1,
  passing 7, to block 6, and leaves the top at 6; block 8 wears out, and logical
  block 0 goes to 6 too.
- For the same reason the limit of the backup table (`mtk_bmt_nmbm.c:1455`) may lie
  above a mapped block.  With ten blocks, one of them data, and factory bad blocks 0,
  6 and 7, logical block 0 is mapped to 8; 8 wears out, the walk passes 7 and 6 and
  takes 5, the top stays at 6; blocks 3 and 4 fail to take the backup table, and the
  driver goes on to erase block 5.  On a larger chip this ends with no table: once the
  main table has been erased for its own update, the only one left maps a block at
  which it lies itself, and line 1718 refuses it (`TableSurvives` without its premise).
- `remap_block_nmbm` ignores the results of `bbt_nand_erase` and `bbt_nand_copy`
  (`mtk_bmt_nmbm.c:2228`, `2230`), and the copy returns at the first page that fails
  (`mtk_bmt.c:52-61`): the write that caused the remap goes on, and pages before it,
  acknowledged and still readable in the old block, are gone (`DataIntact` without
  `lost`).

## Proofs

Eight modules hold proofs.  All theorems are for every value of the constants
that satisfies the named `ASSUME`s of the modules (finite sets of buffers,
fragments, pages and names; a ring of at least two pools; compound pages no
smaller than pages; request sizes that fit a page, for the replay), which TLC
evaluates in every run.  Each follows the same scheme: an invariant that is
inductive, one lemma per action (or per part of a long one) that it is kept, and
the property as a consequence.

**SkbRecyclerProofs**, for every set of CPUs and contexts, every finite set of
buffers, every ring of at least two pools and every limit:

- `TypeCorrect`: `TypeOK` is inductive by itself.
- `RingNeverOverrun`: `RingExact` is inductive given `TypeOK`; only a refill, a
  move of a spare list and a flush touch the ring (`RingFrame`), and the slot
  arithmetic modulo `NPools` is the lemma `NextSlot`.
- `OwnershipExclusive`: `OneOwner` speaks of pairs of places; the inductive form
  is `AllAlone`, which says for each buffer and each kind of place that it is
  nowhere else, and needs only facts about one buffer per action (`AloneStep`).

and, building on these:

- `DeadCpusStayDrained` needs `OpsOnline`: an operation under way runs on a CPU
  that is up, so nothing is put on a list after `skb_cpu_callback` drained it.
- `NothingLost` by `AllSomewhere`, the counterpart of `AllAlone`: each buffer is
  at some place.
- `CacheAlwaysReusable` and `AllocationsClean` rest on `AllFlagsSound`: a buffer
  outside the slab that is marked fast or DS is clean, one that is held is not
  marked fast and has the recycle size if it came from the recycler, a cached one
  has the recycle size.  A cached buffer is out of
  reach of its former owner, which is `AllAlone` again.
- `ListsStayBounded` by `BatchesBounded` (no context carries more than
  `MaxBatch` buffers) and `RingExact` (a spare list moves into an empty pool).
- `RecyclerImplementsPool`: under the mapping of `SkbPool`, each action of the
  recycler is one action of the pool or a stutter (`PoolStep`), from the
  invariants above.

**SkbLockProofs**, for any number of CPUs: `TypeCorrect`; `OnlyCallbackStuck`,
that nobody but `skb_cpu_callback` can hold the lock below a softirq that spins
for it; and `SelfDeadlockImpossible`, which has the hypothesis that no CPU of
`HotplugCPUs` is one of `SoftirqCPUs`.  That hypothesis is what the code does not
ensure (finding 1): the theorem says that it is all that is missing.  The
invariant: the holder is the one context inside a critical section
(`HolderExact`), each context is at a place of its own path (`PathSound`), and
interrupts are off where the path has turned them off (`IrqSound`).

**SkbRefcountProofs**, for any finite number of owners:
`UseAfterReleaseImpossible`, that when the buffer is released nobody else holds it or
is still inside `skb_unref`, and `LeakByConsumeImpossible`.  The count agrees with
the owners left in a way that depends on how far the buffer is: shared, down to
the last owner, released, stray (a drop took the count to zero and goes on to
`consume_skb`), or leaked by that.  The invariant names these stages, and adds
that the count of a buffer with the DS mark is one with nobody about to decrement
it (`MarkSound`) and that who is in `sk_skb_reason_drop` has been noted
(`DropSeen`).

**WirelessDeviceProofs**, for any number of devices and retries: `TypeCorrect`,
`StuckImpossible`, `DownIsIdle`, `ChangeNeverForgotten`, `GivenUpStaysDown`.  One
invariant per device (`Sound`) gives all four: what waits in the queue or runs
fits the device's state (`Busy`, `Idle`), a pending change is remembered
(`Remembers`), a device out of retries goes down (`GivesUp`), a teardown waits or
runs only for a device that is being torn down (`TearsDown`), one that does not
exist any more is down (`Exists`); `Served` says that a waiting queue has a
running script or an armed timer.

**PageFragProofs**, for every page size, every compound size at least as large,
all request sizes, any number of caches and pages and every finite set of
fragments.  A call passes through states in which counts do not add up, so the
invariant `Sound(pg, cs, lv)` is stated for arbitrary pages, caches and
fragments, and each part of a call has a lemma.  `RefcountExact` is not
inductive: a free must know that the page in a cache does not reach zero, so
`Sound` adds that a page is allocated exactly while its count is not zero, that
a page is in at most one cache, and that a cache holds more references than it
has bytes left (the point of the `+ 1` in `PAGE_FRAG_CACHE_BIAS`).  From it
follow `TypeCorrect`, `RefcountCorrect`, `UseAfterFreeImpossible` and
`LeakImpossible`.  `OverlapImpossible` and `RingsStayApart` need `Laid`: the
fragments of a page lie inside it, apart from each other and above the offset of
its cache (`Carved`), and the rings that ever had a fragment of it are those its
cache serves (`Owned`).

**PageFragReplayProofs**, for every finite set of pages and buffers.
`ReplayImplementsPageFrag`: a replay is a behaviour of the allocator, so all of
the above holds in it.  `TotalsExact`: a request changes the contribution of two
pages at most, the one its cache had and the one it has then, and the second
counted nothing unless it is the first (`Touches`); hence taking off and putting
back these pages gives what a recount gives (`RecountExact`).  This is where
`FitsAssumption` enters: a request that does not fit a fresh page makes the cache
leave a page that was in neither set; the code stops with `MemoryError` then.
`UsageAlwaysSound`: by `Carved` the fragments' lengths add up to the number of
bytes they cover, which is at most the page's size.  The sums are folds; the
provers cannot instantiate the library's induction theorems, so the module
derives what it needs about folds from the least element of a set of numbers
(`LeastNat`, `SetInduction`, `FoldAny`), with sets in place of predicates.

**UnetMsgProofs**, for any number of hosts, clients and channels and a finite set
of names (the run has two hosts): `TypeCorrect`; `StaleImpossible`, that the remote
state of a peer is what came over its present rx channel; `SubscribersHear`;
`PeersAgree`.  Cuts that nobody notices and hosts that do not listen are in all of
them.  The invariant `IInv` has, besides the types and the keys of the
tables (`KeysSound`), for each link: that nothing is announced on a channel before
both of its ends are authenticated (`StageSound`), that the remote state is that
of the rx channel, the only authenticated one open at the receiver (`RxSound`), that the last announcement under way
about a name decides what the receiver will believe (`HeardSound`), and whom a
host has told (`ToldSound`).  `PeersAgree` is `HeardSound` where nothing is under
way.

**NmbmProofs**, for every size of chip and data area, every number of pages and spare
blocks, all sets of factory bad blocks, and any number of faults and power cuts:
`Types`, `TablesSurvive`, `BlocksExclusive` and `DataHolds`, each until a mapping goes
astray.  `TableSurvives`, `Exclusive` and `DataIntact` have that premise themselves;
`Types` adds it to `TypeOK` (`InPlace`).  It is about what the code does, not about
the layout: from the moment `nmbm_map_block` has passed bad blocks, two logical blocks
may have one block, a table may be written over a mapped block, and the map that is
then written may not load (see Findings).  For `TableSurvives`: on twelve blocks,
two of them data, with factory bad blocks 1, 8 and 9, logical block 1 is mapped to 10;
logical block 0 wears out, passes 9 and 8 and takes 7, with the top at 8; blocks 4, 5
and 6 fail, the backup table overwrites 7, and the erase of the main table at 2
leaves none that loads.

- None of them is inductive.  That a table survives the step that erases the
  other one depends on where the write in progress stands and on what was decided
  several writes before.  `IInv` therefore says what is on the flash in every state:
  the chip is `PoweredOff`, or the first table is being made (`Creating`), or an
  instance is in use (`Running`), in one of the phases of a call (`Phase`).
- `FlashOK` is about the flash alone, and is what a power cut leaves: there is one
  signature, there are at most two tables, each lies below the signature and maps
  nothing to the blocks up to its own (`TabOK`), and of two tables the newer knows the
  bad blocks of the older one, equal counts mean equal tables, and a lower one that is
  not older maps nothing below the higher one (`PairOK`).  The last is what lets
  `nmbm_load_info_table` accept the second table after it took the first.
- `Common` relates the instance to it: its areas are in order (`Areas`), and it knows
  of each table that it is at most as new and which blocks it calls bad (`Known`).
  `AtRest` says that the tables there are, are those in use; `WriteAt` and `CleanAt`
  say for each of the ten places at which a table is written, and the three at which
  blocks before one are erased, which tables there are, and that every block before
  the main table is bad (`Gone`), so that the next attach finds that table first.
- The steps of the model are composed of the functions of the code, and so is the
  proof: one lemma for what each function leads to (`rebuild_info_table`,
  `rescue_main_info_table`, ...), one per site for `OnWritten` and `OnExhausted`, then
  one per action.  The longest part is `Attach`: the tables that the search finds are
  the ones there are (`Found`), the one it takes its contents from is the newest, and
  what it computes from that satisfies `Common` again.
- `Watching` has the types of the observers, which hold without the premise.
- `DataHolds`, that what was acknowledged can be read back (`DataIntact`), needs a
  second invariant, `DInv`, inductive relative to `IInv`.  While the power is off no
  instance says where the data is, so `Stored` says it of the flash: by way of each of
  the tables everything reads as `want` has it, save what is `lost` (`Sure`), and an older table maps a logical
  block to where a newer one does, or to the data area, or to a higher spare block
  (`Above`).  The last keeps what an older table maps to out of the blocks in which
  tables are written and of the spare blocks still to be given out.
- With an instance in use, `RunData` adds how far the tables are behind it at each
  point of a call (`Level`): between calls, when `want` changes, all are up to date;
  while a remap erases and fills the new block they lack just that block (`Earlier`),
  and the flash still holds the old one; while a table is written, those that `Stale`
  names may be behind.  With `protected` set the tables are no longer written, and
  nothing is claimed of them.
- `Copying` is what `bbt_nand_copy` relies on: the old block can be read or is known
  to be lost, nothing is sure of the pages beyond those it copies, and the new
  block is erased unless `bbt_nand_erase` failed (`dirty`).  `Ordered` says that pages
  are written in order, so that a write that fails need copy only the pages before its
  own.  `NoRebuild` says that `nmbm_update_info_table` starts the tables anew only
  when no usable block is left for them: it then fails and sets `protected`.
- A repair (`unmap_block`) is the exception: its tables map to the block before it is
  copied, and the logical block is left out of `Stored` (`Repairing`) until it is.
  A cut there loses the block, which `lost` notes.
- The exceptions of `DataIntact` are those named under `want` and `lost` in Modules.
  They are losses of the code, not a choice of the proof (see Findings).

Only model-checked:

- `OpsComplete`, `FlushEmptiesCache`, `WaitersProceed`, `Settles`, `Reconnects`:
  liveness under fairness is out of the prover's reach.
- `TypeOK` of NMBM after a mapping has gone astray, within the bounds of `nmbm`.

## Limits

- A wireless section that is removed and added again unchanged while its device
  is torn down keeps `delete` set (`update()` returns early at line 380); the
  model's reload always changes the section.
- Notifications are assumed to come from the running script.
- The hot branch of `skb_recycler_consume_list_fast` does not reinitialise the
  caller's list head (line 332); its callers are outside the repository.
- `CONFIG_SKB_RECYCLER_PREALLOC` and the debug objects are off in this build.
- Once NMBM is down to one table, or has set `protected` because no table could be
  written, a power cut may cost the table; `Cut` is excluded there (`OneTable`),
  and `TableSurvives` says nothing of it.  `mtk_bmt.c` does not look at
  `protected`: it goes on writing.
- The debugfs repair publishes the new mapping before it copies the block
  (`mtk_bmt.c:322`, `331`); a cut in between loses the block, which `lost` notes.
  With a factory bad block earlier in the data area, the block it computes
  (`mtk_bmt_nmbm.c:2316`) is not the original one and may lie beyond the data area.
- mtk_bmt has no lock; calls of its operations that overlap are not modelled.  An
  info table fits one block.  A power cut leaves the block in hand old, new or wholly
  unreadable.  The remap range of `mtk_bmt.c:100` (a device tree property that keeps
  blocks from being remapped) is left out.
- In `skb_data` the hot limit is constant; `skb_admin` changes it, and
  `ListsStayBounded` is proved for all limits.
- In `PageFrag` the lifetime of a fragment and its source are functions of its ring,
  as they are in the simulator's scenarios.
- unetmsg: one network only (remote state is keyed by host name, so two networks
  would share it); a peer that loses power without closing its connections is cuts and
  a restart, and a cut that nobody is told of may last for ever: `Reconnects` excepts
  a channel cut while idle over which nothing was sent since (`Unnoticed`), and hosts
  whose listen failed.  One subscriber is run, and `told` is kept per name
  (`handle_publish` tells all subscribers of it); the theorem `SubscribersHear` has
  any number of clients; an address that changes while the
  peer's other data stay is not noticed by `network_update`; a key whose last
  client has gone is announced as enabled after a reconnect, which `Agreement`
  allows (`empty`).  ACLs, requests and their answers change no table and are
  left out.

## Not modelled

`PROJECT.json` gives the reason for each component.  Most of the repository is
build system, device trees, kernel patches against files that are not in it, and
vendor drivers (switch register tables, boot loaders), whose behaviour is that of
hardware and of a kernel outside the tree.  The older bad block schemes keep a
single table without repair.  hostapd and wpa_supplicant control depend on the
vendored daemons.  What is left (trelay, button hotplug, ead, swconfig, small
utilities) is sequential and nearly stateless.

## Plan

1. *Done*: `SkbRecycler`, `SkbLock`, `SkbRefcount`, `WirelessDevice`,
   `PageFrag`, `PageFragReplay`; first theorems.
2. *Done*: `UnetMsg`, `Nmbm`; `SkbPool` and the refinement; the count of a buffer
   over its reuse by the DS rings.
3. *Done*: proofs of every safety property of the recycler, its lock and its
   count, and of the refinement `ImplementsPool`.
4. *Done*: proofs for page_frag (`NoOverlap`, `RingsApart`) and for the replay.
5. *Done*: proofs for `WirelessDevice` and `UnetMsg`.
6. *Done*: proofs for `Nmbm`, for every layout until a mapping goes astray; last,
   that the data can be read back.
7. *Done*: the premises and exceptions of the NMBM properties (`astray`, `lost`);
   losses that TCP does not report, failing listens and names that are not allowed in
   `UnetMsg`.
