---------------------------- MODULE SkbRecycler ----------------------------
(***************************************************************************)
(* The generic skb recycler of the qualcommax target                       *)
(* (target/linux/qualcommax/files/net/core/skbuff_recycle.c) with the      *)
(* allocation and release paths that patch 0981-1 puts in front of it.     *)
(*                                                                         *)
(* A list of buffers is a set: the recycler reads only the length of a     *)
(* list and takes any element that is there, so the LIFO order is left     *)
(* out.  A list operation runs with interrupts off on the CPU that owns    *)
(* the list, and takes glob_recycler.lock at most once; it is one step.    *)
(* What the code reads before it disables interrupts (the enable switch,   *)
(* the CPU's limit, the verdict of consume_skb_can_recycle) is a step of   *)
(* its own, so other contexts run between the check and its use.  The      *)
(* kernel is built with CONFIG_PREEMPT_NONE: a context stays on its CPU    *)
(* between the two steps, but softirqs and other CPUs interleave.          *)
(***************************************************************************)
EXTENDS Integers, FiniteSets

CONSTANTS
    CPUs,       \* possible CPUs
    Ctxs,       \* execution contexts (tasks, softirqs) that use the recycler
    Skbs,       \* the buffers of the slab
    NPools,     \* SKB_RECYCLE_MAX_SHARED_POOLS, a power of two
    LimMax,     \* bound: the largest limit written through procfs
    InitMax,    \* the hot list's limit at boot (1024 in the code)
    InitSpare,  \* the spare list's limit at boot (256 in the code)
    MaxBatch,   \* bound: the longest list given to consume_skb_list_fast
    HostOps,    \* bound: what drivers and the stack ask for and do to buffers
    AdminOps    \* bound: which administrative operations happen

ASSUME PoolsAssumption == NPools \in Nat /\ NPools >= 2
ASSUME LimitAssumption ==
    /\ LimMax \in Nat /\ LimMax >= 1
    /\ InitMax \in 0..LimMax /\ InitSpare \in 0..LimMax
ASSUME BatchAssumption == MaxBatch \in Nat /\ MaxBatch >= 1
ASSUME SkbsAssumption == IsFiniteSet(Skbs)
ASSUME OpsAssumption ==
    /\ HostOps \subseteq {"over", "touch", "expand", "fast", "ds"}
    /\ AdminOps \subseteq {"flush", "hotplug", "max_skbs", "max_spare", "enable"}

VARIABLES
    recycle_list,   \* per CPU: the hot list
    spare_list,     \* per CPU: recycle_spare_list
    pool,           \* glob_recycler.pool
    head, tail,     \* glob_recycler.head, .tail
    max_skbs,       \* skb_recycler_max_skbs_core
    max_spare,      \* skb_recycler_max_spare_skbs_core
    enable,         \* skb_recycling_enable
    online,         \* CPUs that are up
    flushing, todo, \* a write to procfs "flush" and what each CPU still owes it
    slab,           \* buffers that are not allocated
    held,           \* buffers owned by a driver or by the stack
    skb,            \* per buffer: the fields the recycler depends on
    op              \* per context: the operation it is in the middle of

lists  == <<recycle_list, spare_list, pool, head, tail>>
limits == <<max_skbs, max_spare, enable>>
cpus   == <<online, flushing, todo>>
vars   == <<lists, limits, cpus, slab, held, skb, op>>

Slots == 0..(NPools - 1)
Limits == 0..LimMax

(***************************************************************************)
(* A buffer: whether skb_shared_info is as a fresh allocation leaves it,   *)
(* whether its data area has the recycle size, and the recycler's flags    *)
(* is_from_recycler, fast_recycled and recycled_for_ds.                    *)
(***************************************************************************)
SkbState == [shinfo : {"clean", "dirty"}, size : {"std", "other"},
             from : BOOLEAN, fast : BOOLEAN, ds : BOOLEAN]

Fresh(size) == [shinfo |-> "clean", size |-> size,
                from |-> FALSE, fast |-> FALSE, ds |-> FALSE]

skb_recycler_clear_flags(b) ==
    [b EXCEPT !.from = FALSE, !.fast = FALSE, !.ds = FALSE]

Idle == [pc |-> "idle", skbs |-> {}]
Allocating(c, reset) == [pc |-> "alloc", skbs |-> {}, cpu |-> c, reset |-> reset]
Putting(c, S) == [pc |-> "put", skbs |-> S, cpu |-> c, lim |-> max_skbs[c]]

OpState == {Idle}
    \union [pc : {"alloc"}, skbs : {{}}, cpu : CPUs, reset : BOOLEAN]
    \union [pc : {"put"}, skbs : SUBSET Skbs, cpu : CPUs, lim : Limits]

(* (i + 1) & SKB_RECYCLE_MAX_SHARED_POOLS_MASK, and a mutant without mask  *)
Next_slot_unmasked(i) == i + 1
Next_slot(i) == (i + 1) % NPools

(* skb_queue_splice_init leaves its source empty; a mutant that does not   *)
Spliced_noinit(l, k) == l
Spliced(l, k) == [l EXCEPT ![k] = {}]

-----------------------------------------------------------------------------
(* skb_recycler_init *)
Init ==
    /\ recycle_list = [c \in CPUs |-> {}]
    /\ spare_list = [c \in CPUs |-> {}]
    /\ pool = [i \in Slots |-> {}]
    /\ head = 0 /\ tail = 0
    /\ max_skbs = [c \in CPUs |-> InitMax]
    /\ max_spare = [c \in CPUs |-> InitSpare]
    /\ enable = TRUE
    /\ online = CPUs
    /\ flushing = FALSE
    /\ todo = [c \in CPUs |-> "none"]
    /\ slab = Skbs /\ held = {}
    /\ skb = [s \in Skbs |-> Fresh("std")]
    /\ op = [t \in Ctxs |-> Idle]

-----------------------------------------------------------------------------
(* Allocation: __netdev_alloc_skb (reset) and                              *)
(* __netdev_alloc_skb_no_skb_reset (~reset).                               *)

(* __alloc_skb, or no memory *)
SlabAlloc(size) ==
    \/ \E s \in slab :
        /\ slab' = slab \ {s}
        /\ held' = held \union {s}
        /\ skb' = [skb EXCEPT ![s] = Fresh(size)]
    \/ UNCHANGED <<slab, held, skb>>

(* The end of skb_recycler_alloc: shinfo is zeroed unless a flag says that *)
(* the host never touched it, and the flags survive the zeroing.           *)
recycler_reset_never(b, reset) ==   \* mutant: ~reset is taken to mean "leave it"
    [b EXCEPT !.shinfo = IF reset /\ ~b.ds /\ ~b.fast THEN "clean" ELSE @,
              !.from = TRUE]

recycler_reset(b, reset) ==
    [b EXCEPT !.shinfo = IF (reset \/ ~b.ds) /\ ~b.fast THEN "clean" ELSE @,
              !.from = TRUE]

(* What the two callers do to the flags of the buffer they return, and a   *)
(* mutant that only drops the DS mark                                      *)
netdev_alloc_flags_ds_only(b, reset) == [b EXCEPT !.ds = @ /\ ~reset]
netdev_alloc_flags(b, reset) ==
    IF reset THEN skb_recycler_clear_flags(b) ELSE [b EXCEPT !.fast = FALSE]

Deliver(s, reset) ==
    /\ held' = held \union {s}
    /\ skb' = [skb EXCEPT ![s] = netdev_alloc_flags(recycler_reset(@, reset), reset)]
    /\ UNCHANGED slab

(* The recycler is off or the request is too long for it *)
AllocSkip(len) ==
    /\ ~enable \/ len = "over"
    /\ SlabAlloc(IF len = "over" THEN "other" ELSE "std")
    /\ UNCHANGED <<lists, limits, cpus, op>>

AllocEnter(t, c, reset) ==
    /\ op[t] = Idle /\ c \in online
    /\ enable
    /\ op' = [op EXCEPT ![t] = Allocating(c, reset)]
    /\ UNCHANGED <<lists, limits, cpus, slab, held, skb>>

AllocHot(t) ==
    /\ op[t].pc = "alloc"
    /\ \E s \in recycle_list[op[t].cpu] :
        /\ recycle_list' = [recycle_list EXCEPT ![op[t].cpu] = @ \ {s}]
        /\ Deliver(s, op[t].reset)
    /\ op' = [op EXCEPT ![t] = Idle]
    /\ UNCHANGED <<spare_list, pool, head, tail, limits, cpus>>

(* The hot list is empty: move the oldest global pool into it, then take   *)
(* from it.  That pool may itself be empty.                                *)
AllocRefill_retry(t) ==   \* mutant: tries again when the pool was empty
    /\ op[t].pc = "alloc"
    /\ recycle_list[op[t].cpu] = {}
    /\ head # tail
    /\ \E s \in pool[head] :
        /\ recycle_list' = [recycle_list EXCEPT ![op[t].cpu] = pool[head] \ {s}]
        /\ Deliver(s, op[t].reset)
    /\ pool' = Spliced(pool, head)
    /\ head' = Next_slot(head)
    /\ op' = [op EXCEPT ![t] = Idle]
    /\ UNCHANGED <<spare_list, tail, limits, cpus>>

AllocRefill(t) ==
    /\ op[t].pc = "alloc"
    /\ recycle_list[op[t].cpu] = {}
    /\ head # tail
    /\ pool' = Spliced(pool, head)
    /\ head' = Next_slot(head)
    /\ \/ \E s \in pool[head] :
            /\ recycle_list' = [recycle_list EXCEPT ![op[t].cpu] = pool[head] \ {s}]
            /\ Deliver(s, op[t].reset)
       \/ /\ pool[head] = {}
          /\ SlabAlloc("std")
          /\ UNCHANGED recycle_list
    /\ op' = [op EXCEPT ![t] = Idle]
    /\ UNCHANGED <<spare_list, tail, limits, cpus>>

AllocMiss(t) ==
    /\ op[t].pc = "alloc"
    /\ recycle_list[op[t].cpu] = {}
    /\ head = tail
    /\ SlabAlloc("std")
    /\ op' = [op EXCEPT ![t] = Idle]
    /\ UNCHANGED <<lists, limits, cpus>>

-----------------------------------------------------------------------------
(* Release: consume_skb and consume_skb_list_fast.                         *)

(* skb_release_data and kfree_skbmem, and a mutant that forgets them *)
Free_leak(S) == UNCHANGED slab
Free(S) == slab' = slab \union S

(* consume_skb_can_recycle: plain stands for the tests on things the model *)
(* leaves out (interrupts enabled, linear, not cloned, no extensions...).  *)
consume_skb_can_recycle(b, plain) == plain /\ b.size = "std"

(* A driver's fast transmit path and the PPE DS rings mark the buffers     *)
(* they give back; both leave shinfo as they got it, and the fast path     *)
(* takes only buffers that is_from_recycler says the recycler gave it      *)
(* (external).                                                             *)
Marked(b, mark) ==
    CASE mark = "fast" -> [b EXCEPT !.fast = TRUE]
      [] mark = "ds"   -> [b EXCEPT !.ds = TRUE]
      [] OTHER         -> b

MayMark(b, mark) ==
    \/ mark = "none"
    \/ mark \in HostOps /\ b.shinfo = "clean" /\ (mark = "fast" => b.from)

ConsumeEnter(t, c, s, mark) ==
    /\ op[t] = Idle /\ c \in online /\ s \in held
    /\ enable
    /\ consume_skb_can_recycle(skb[s], TRUE)
    /\ MayMark(skb[s], mark)
    /\ held' = held \ {s}
    /\ skb' = [skb EXCEPT ![s] = Marked(@, mark)]
    /\ op' = [op EXCEPT ![t] = Putting(c, {s})]
    /\ UNCHANGED <<lists, limits, cpus, slab>>

ConsumeRefuse(s, plain) ==
    /\ s \in held
    /\ ~enable \/ ~consume_skb_can_recycle(skb[s], plain)
    /\ held' = held \ {s}
    /\ Free({s})
    /\ UNCHANGED <<lists, limits, cpus, skb, op>>

(* The fast path trusts its callers: the buffers of the list came from the *)
(* recycler (is_from_recycler) and went through the fast transmit path.    *)
ListFastEnter(t, c, S) ==
    /\ op[t] = Idle /\ c \in online
    /\ \A s \in S : MayMark(skb[s], "fast")
    /\ enable
    /\ held' = held \ S
    /\ skb' = [s \in Skbs |-> IF s \in S THEN Marked(skb[s], "fast") ELSE skb[s]]
    /\ op' = [op EXCEPT ![t] = Putting(c, S)]
    /\ UNCHANGED <<lists, limits, cpus, slab>>

ListFastRefuse(S) ==
    /\ \A s \in S : MayMark(skb[s], "fast")
    /\ ~enable
    /\ held' = held \ S
    /\ Free(S)
    /\ UNCHANGED <<lists, limits, cpus, skb, op>>

(* The tails of skb_recycler_consume and skb_recycler_consume_list_fast    *)
HotFull_off_by_one(t) == Cardinality(recycle_list[op[t].cpu]) > op[t].lim
HotFull(t) == Cardinality(recycle_list[op[t].cpu]) >= op[t].lim
SpareFull(t) == Cardinality(spare_list[op[t].cpu]) >= max_spare[op[t].cpu]

(* The ring keeps one slot free, and a mutant that would use all of them *)
GlobalFull_never == FALSE
GlobalFull == Next_slot(tail) = head

PutHot(t) ==
    /\ op[t].pc = "put"
    /\ ~HotFull(t)
    /\ recycle_list' = [recycle_list EXCEPT ![op[t].cpu] = @ \union op[t].skbs]
    /\ op' = [op EXCEPT ![t] = Idle]
    /\ UNCHANGED <<spare_list, pool, head, tail, limits, cpus, slab, held, skb>>

PutSpare(t) ==
    /\ op[t].pc = "put"
    /\ HotFull(t) /\ ~SpareFull(t)
    /\ spare_list' = [spare_list EXCEPT ![op[t].cpu] = @ \union op[t].skbs]
    /\ op' = [op EXCEPT ![t] = Idle]
    /\ UNCHANGED <<recycle_list, pool, head, tail, limits, cpus, slab, held, skb>>

PutGlobal_drop(t) ==   \* mutant: the buffer is queued nowhere
    /\ op[t].pc = "put"
    /\ HotFull(t) /\ SpareFull(t)
    /\ ~GlobalFull
    /\ pool' = [pool EXCEPT ![tail] = @ \union spare_list[op[t].cpu]]
    /\ tail' = Next_slot(tail)
    /\ spare_list' = Spliced(spare_list, op[t].cpu)
    /\ op' = [op EXCEPT ![t] = Idle]
    /\ UNCHANGED <<recycle_list, head, limits, cpus, slab, held, skb>>

(* The full spare list becomes a global pool; the buffer starts a new one  *)
PutGlobal(t) ==
    /\ op[t].pc = "put"
    /\ HotFull(t) /\ SpareFull(t)
    /\ ~GlobalFull
    /\ pool' = [pool EXCEPT ![tail] = @ \union spare_list[op[t].cpu]]
    /\ tail' = Next_slot(tail)
    /\ spare_list' = [spare_list EXCEPT ![op[t].cpu] = op[t].skbs]
    /\ op' = [op EXCEPT ![t] = Idle]
    /\ UNCHANGED <<recycle_list, head, limits, cpus, slab, held, skb>>

(* Everything is full: the caller frees the buffers *)
PutFull(t) ==
    /\ op[t].pc = "put"
    /\ HotFull(t) /\ SpareFull(t) /\ GlobalFull
    /\ Free(op[t].skbs)
    /\ op' = [op EXCEPT ![t] = Idle]
    /\ UNCHANGED <<lists, limits, cpus, held, skb>>

-----------------------------------------------------------------------------
(* Owners of a buffer (external, but for the flags pskb_expand_head clears) *)

(* The host processes the packet; the DS driver takes its mark off first   *)
HostTouch(s) ==
    /\ "touch" \in HostOps
    /\ s \in held
    /\ skb' = [skb EXCEPT ![s].shinfo = "dirty", ![s].ds = FALSE]
    /\ UNCHANGED <<lists, limits, cpus, slab, held, op>>

pskb_expand_head_keep(s, size) ==   \* mutant: keeps the flags
    /\ "expand" \in HostOps
    /\ s \in held
    /\ skb' = [skb EXCEPT ![s].size = size]
    /\ UNCHANGED <<lists, limits, cpus, slab, held, op>>

pskb_expand_head(s, size) ==
    /\ "expand" \in HostOps
    /\ s \in held
    /\ skb' = [skb EXCEPT ![s] = skb_recycler_clear_flags([@ EXCEPT !.size = size])]
    /\ UNCHANGED <<lists, limits, cpus, slab, held, op>>

-----------------------------------------------------------------------------
(* procfs "flush": every online CPU frees its two lists, then the writer   *)
(* frees the global pools.  CPUs cannot go down while the per-CPU tasks    *)
(* are scheduled (schedule_on_each_cpu holds cpus_read_lock).              *)

FlushStart ==
    /\ "flush" \in AdminOps
    /\ ~flushing
    /\ flushing' = TRUE
    /\ todo' = [c \in CPUs |-> IF c \in online THEN "hot" ELSE "none"]
    /\ UNCHANGED <<lists, limits, online, slab, held, skb, op>>

FlushHot(c) ==
    /\ todo[c] = "hot"
    /\ Free(recycle_list[c])
    /\ recycle_list' = Spliced(recycle_list, c)
    /\ todo' = [todo EXCEPT ![c] = "spare"]
    /\ UNCHANGED <<spare_list, pool, head, tail, limits, online, flushing, held, skb, op>>

FlushSpare_skip(c) ==   \* mutant: forgets the spare list
    /\ todo[c] = "spare"
    /\ todo' = [todo EXCEPT ![c] = "none"]
    /\ UNCHANGED <<lists, limits, online, flushing, slab, held, skb, op>>

FlushSpare(c) ==
    /\ todo[c] = "spare"
    /\ Free(spare_list[c])
    /\ spare_list' = Spliced(spare_list, c)
    /\ todo' = [todo EXCEPT ![c] = "none"]
    /\ UNCHANGED <<recycle_list, pool, head, tail, limits, online, flushing, held, skb, op>>

FlushGlobal ==
    /\ flushing /\ \A c \in CPUs : todo[c] = "none"
    /\ Free(UNION {pool[i] : i \in Slots})
    /\ pool' = [i \in Slots |-> {}]
    /\ head' = 0 /\ tail' = 0
    /\ flushing' = FALSE
    /\ UNCHANGED <<recycle_list, spare_list, limits, online, todo, held, skb, op>>

-----------------------------------------------------------------------------
(* CPU hotplug.  The dead CPU runs nothing any more; hotplug holds the     *)
(* lock that flush needs, so its callback is one step with the transition. *)

skb_cpu_callback_hot_only(c) ==   \* mutant: forgets the spare list
    /\ "hotplug" \in AdminOps
    /\ c \in online /\ online # {c}
    /\ \A t \in Ctxs : op[t] # Idle => op[t].cpu # c
    /\ \A d \in CPUs : todo[d] = "none"
    /\ online' = online \ {c}
    /\ Free(recycle_list[c])
    /\ recycle_list' = Spliced(recycle_list, c)
    /\ UNCHANGED <<spare_list, pool, head, tail, limits, flushing, todo, held, skb, op>>

skb_cpu_callback(c) ==
    /\ "hotplug" \in AdminOps
    /\ c \in online /\ online # {c}
    /\ \A t \in Ctxs : op[t] # Idle => op[t].cpu # c
    /\ \A d \in CPUs : todo[d] = "none"
    /\ online' = online \ {c}
    /\ Free(recycle_list[c] \union spare_list[c])
    /\ recycle_list' = Spliced(recycle_list, c)
    /\ spare_list' = Spliced(spare_list, c)
    /\ UNCHANGED <<pool, head, tail, limits, flushing, todo, held, skb, op>>

CpuUp(c) ==
    /\ c \notin online
    /\ \A d \in CPUs : todo[d] = "none"
    /\ online' = online \union {c}
    /\ UNCHANGED <<lists, limits, flushing, todo, slab, held, skb, op>>

-----------------------------------------------------------------------------
(* The other procfs files.  A write that does not parse or is negative is  *)
(* ignored; the readable copies of the two global defaults are left out.   *)

WriteMaxSkbs(v) ==
    /\ "max_skbs" \in AdminOps
    /\ max_skbs' = [c \in CPUs |-> v]
    /\ UNCHANGED <<lists, max_spare, enable, cpus, slab, held, skb, op>>

WriteMaxSpare(v) ==
    /\ "max_spare" \in AdminOps
    /\ max_spare' = [c \in CPUs |-> v]
    /\ UNCHANGED <<lists, max_skbs, enable, cpus, slab, held, skb, op>>

WriteMaxSkbsCpu(c, v) ==
    /\ "max_skbs" \in AdminOps
    /\ max_skbs' = [max_skbs EXCEPT ![c] = v]
    /\ UNCHANGED <<lists, max_spare, enable, cpus, slab, held, skb, op>>

WriteMaxSpareCpu(c, v) ==
    /\ "max_spare" \in AdminOps
    /\ max_spare' = [max_spare EXCEPT ![c] = v]
    /\ UNCHANGED <<lists, max_skbs, enable, cpus, slab, held, skb, op>>

WriteEnable(b) ==
    /\ "enable" \in AdminOps
    /\ enable' = b
    /\ UNCHANGED <<lists, max_skbs, max_spare, cpus, slab, held, skb, op>>

-----------------------------------------------------------------------------
Batches == {S \in SUBSET held : S # {} /\ Cardinality(S) <= MaxBatch}

Alloc ==
    \/ \E len \in {"fits"} \union (HostOps \intersect {"over"}) : AllocSkip(len)
    \/ \E t \in Ctxs, c \in CPUs, reset \in BOOLEAN : AllocEnter(t, c, reset)
    \/ \E t \in Ctxs : AllocHot(t) \/ AllocRefill(t) \/ AllocMiss(t)

Consume ==
    \/ \E t \in Ctxs, c \in CPUs, s \in Skbs, m \in {"none", "fast", "ds"} :
        ConsumeEnter(t, c, s, m)
    \/ \E s \in Skbs, plain \in BOOLEAN : ConsumeRefuse(s, plain)
    \/ \E t \in Ctxs, c \in CPUs, S \in Batches : ListFastEnter(t, c, S)
    \/ \E S \in Batches : ListFastRefuse(S)
    \/ \E t \in Ctxs : PutHot(t) \/ PutSpare(t) \/ PutGlobal(t) \/ PutFull(t)

Host ==
    \E s \in Skbs : HostTouch(s) \/ \E z \in {"std", "other"} : pskb_expand_head(s, z)

Flush == FlushStart \/ FlushGlobal \/ \E c \in CPUs : FlushHot(c) \/ FlushSpare(c)

Hotplug == \E c \in CPUs : skb_cpu_callback(c) \/ CpuUp(c)

Procfs ==
    \/ \E v \in Limits : WriteMaxSkbs(v) \/ WriteMaxSpare(v)
    \/ \E c \in CPUs, v \in Limits : WriteMaxSkbsCpu(c, v) \/ WriteMaxSpareCpu(c, v)
    \/ \E b \in BOOLEAN : WriteEnable(b)

Next == Alloc \/ Consume \/ Host \/ Flush \/ Hotplug \/ Procfs

(* A context in the middle of an operation and a scheduled flush go on: the *)
(* kernel runs them to completion.  Nobody is obliged to start anything.    *)
Finish(t) ==
    \/ AllocHot(t) \/ AllocRefill(t) \/ AllocMiss(t)
    \/ PutHot(t) \/ PutSpare(t) \/ PutGlobal(t) \/ PutFull(t)

Fairness ==
    /\ \A t \in Ctxs : WF_vars(Finish(t))
    /\ \A c \in CPUs : WF_vars(FlushHot(c) \/ FlushSpare(c))
    /\ WF_vars(FlushGlobal)

Spec == Init /\ [][Next]_vars
FairSpec == Spec /\ Fairness
-----------------------------------------------------------------------------
(* Properties *)

TypeOK ==
    /\ recycle_list \in [CPUs -> SUBSET Skbs]
    /\ spare_list \in [CPUs -> SUBSET Skbs]
    /\ pool \in [Slots -> SUBSET Skbs]
    /\ head \in Slots /\ tail \in Slots
    /\ max_skbs \in [CPUs -> Limits] /\ max_spare \in [CPUs -> Limits]
    /\ enable \in BOOLEAN
    /\ online \in SUBSET CPUs
    /\ flushing \in BOOLEAN
    /\ todo \in [CPUs -> {"none", "hot", "spare"}]
    /\ slab \in SUBSET Skbs /\ held \in SUBSET Skbs
    /\ skb \in [Skbs -> SkbState]
    /\ op \in [Ctxs -> OpState]

(* The places a buffer can be, and what is there *)
Places == {<<"slab">>, <<"held">>}
    \union {<<"hot", c>> : c \in CPUs} \union {<<"spare", c>> : c \in CPUs}
    \union {<<"pool", i>> : i \in Slots} \union {<<"op", t>> : t \in Ctxs}

At(p) ==
    CASE p[1] = "slab"  -> slab
      [] p[1] = "held"  -> held
      [] p[1] = "hot"   -> recycle_list[p[2]]
      [] p[1] = "spare" -> spare_list[p[2]]
      [] p[1] = "pool"  -> pool[p[2]]
      [] OTHER          -> op[p[2]].skbs

(* No buffer is ever on two lists, on a list and in the hands of an owner, *)
(* or on a list and in the slab: alloc, consume, flush and hotplug never   *)
(* hand out or free one twice, whatever the interleaving.                  *)
OneOwner == \A p, q \in Places : p # q => At(p) \intersect At(q) = {}

(* No buffer is ever lost: each one is in the slab, with an owner, in an   *)
(* unfinished release, or on a list that alloc or flush will find.         *)
NoneLost == \A s \in Skbs : \E p \in Places : s \in At(p)

(* Slot i of glob_recycler.pool lies between head and tail *)
InRing(i) == IF head <= tail THEN head <= i /\ i < tail ELSE i < tail \/ head <= i

(* The ring is never overrun: a slot outside head..tail holds no buffer,   *)
(* so moving a spare list into pool[tail] never merges two lists and head  *)
(* never passes a pool that still has buffers.                             *)
RingExact == \A i \in Slots : ~InRing(i) => pool[i] = {}

(* However limits are lowered while releases are under way, and although   *)
(* the fast path splices a whole batch after one length test, no list      *)
(* grows past the largest limit by more than one batch less one buffer.    *)
ListCap == LimMax + MaxBatch - 1
ListsBounded ==
    /\ \A c \in CPUs : /\ Cardinality(recycle_list[c]) <= ListCap
                       /\ Cardinality(spare_list[c]) <= ListCap
    /\ \A i \in Slots : Cardinality(pool[i]) <= ListCap

(* A CPU that is down caches nothing: skb_cpu_callback drained both lists, *)
(* and no release that began before can still put something there.         *)
DeadCpuDrained == \A c \in CPUs \ online : recycle_list[c] = {} /\ spare_list[c] = {}

(* Every buffer on its way to the cache or in it *)
Cached(s) ==
    \/ \E c \in CPUs : s \in recycle_list[c] \union spare_list[c]
    \/ \E i \in Slots : s \in pool[i]
    \/ \E t \in Ctxs : s \in op[t].skbs

(* A cached buffer has the recycle size, even one the fast path took on    *)
(* trust, and if it is flagged so that alloc will skip zeroing shinfo then *)
(* its shinfo is indeed clean.                                             *)
CachedReusable ==
    \A s \in Skbs : Cached(s) =>
        /\ skb[s].size = "std"
        /\ skb[s].fast \/ skb[s].ds => skb[s].shinfo = "clean"

(* Every buffer alloc gives out has a clean shinfo and is long enough when *)
(* it comes from a list, however its previous life left its flags; and no  *)
(* owner starts with fast_recycled set.                                    *)
AllocDeliversClean ==
    [][\A s \in held' \ held :
        /\ skb'[s].shinfo = "clean" /\ ~skb'[s].fast
        /\ s \notin slab => skb'[s].size = "std"]_vars

(* The recycler implements the pool of SkbPool: seen through its lists,    *)
(* every step of alloc, consume, flush, hotplug and procfs is one of the   *)
(* pool or leaves it as it is.  No buffer is duplicated, lost, handed out  *)
(* dirty, or changed by anyone but its owner.                              *)
Pool == INSTANCE SkbPool WITH
    free <- slab,
    owned <- held,
    returning <- UNION {op[t].skbs : t \in Ctxs},
    cached <- (UNION {recycle_list[c] \union spare_list[c] : c \in CPUs})
                \union (UNION {pool[i] : i \in Slots}),
    clean <- {s \in Skbs : skb[s].shinfo = "clean"}

ImplementsPool == Pool!Spec

(* Every alloc and consume that passed its checks comes to an end whatever *)
(* happens to the lists meanwhile: the branches leave no case out.         *)
OpsComplete == \A t \in Ctxs : (op[t] # Idle) ~> (op[t] = Idle)

(* A flush does what it is for: if no alloc or consume runs from its start *)
(* on, then at some point nothing is cached anywhere, although CPUs go up  *)
(* and down between its per-CPU tasks and its global part.                 *)
FlushBegun == flushing /\ \A c \in online : todo[c] = "hot"
Quiet == \A t \in Ctxs : op[t] = Idle
NothingCached == \A s \in Skbs : ~Cached(s)
FlushEmptiesCache == []((FlushBegun /\ []Quiet) => <>NothingCached)
=============================================================================
