------------------------- MODULE SkbRecyclerProofs -------------------------
(***************************************************************************)
(* Theorems about SkbRecycler, for every number of CPUs, contexts, buffers *)
(* and pools: its types and the ring of pools first, then what its lists   *)
(* hold and what alloc makes of it: no buffer is lost, no dead CPU keeps   *)
(* one, a cached buffer can be used again, no list outgrows its limit, and *)
(* the whole implements SkbPool.                                           *)
(***************************************************************************)
EXTENDS SkbRecycler, FiniteSetTheorems, TLAPS

(* The masked increment of glob_recycler.head and .tail is the successor   *)
(* that wraps to zero after the last slot.                                 *)
LEMMA NextSlot ==
    ASSUME NEW i \in Slots
    PROVE  /\ Next_slot(i) \in Slots
           /\ i + 1 < NPools => Next_slot(i) = i + 1
           /\ i + 1 = NPools => Next_slot(i) = 0
BY PoolsAssumption, SMT DEF Slots, Next_slot

(* What an unfinished operation looks like.                                *)
LEMMA OpShape ==
    ASSUME TypeOK, NEW t \in Ctxs
    PROVE  /\ op[t].skbs \in SUBSET Skbs
           /\ op[t].pc = "alloc" => op[t].cpu \in CPUs /\ op[t].reset \in BOOLEAN
           /\ op[t].pc = "put" => op[t].cpu \in CPUs /\ op[t].lim \in Limits
BY DEF TypeOK, OpState, Idle

(* The flag and shinfo updates of the recycler keep a buffer well typed.   *)
LEMMA SkbTypes ==
    ASSUME NEW b \in SkbState, NEW reset \in BOOLEAN
    PROVE  /\ skb_recycler_clear_flags(b) \in SkbState
           /\ recycler_reset(b, reset) \in SkbState
           /\ netdev_alloc_flags(b, reset) \in SkbState
           /\ \A m \in {"none", "fast", "ds"} : Marked(b, m) \in SkbState
           /\ \A z \in {"std", "other"} : [b EXCEPT !.size = z] \in SkbState
           /\ [b EXCEPT !.shinfo = "dirty", !.ds = FALSE] \in SkbState
           /\ Fresh("std") \in SkbState /\ Fresh("other") \in SkbState
BY DEF SkbState, skb_recycler_clear_flags, recycler_reset, netdev_alloc_flags,
       Marked, Fresh

(* Taking a buffer from the slab keeps the types.                          *)
LEMMA SlabAllocType ==
    ASSUME TypeOK, NEW z \in {"std", "other"}, SlabAlloc(z)
    PROVE  slab' \in SUBSET Skbs /\ held' \in SUBSET Skbs /\ skb' \in [Skbs -> SkbState]
<1>1. Fresh(z) \in SkbState
    BY DEF Fresh, SkbState
<1>2. CASE UNCHANGED <<slab, held, skb>>
    BY <1>2 DEF TypeOK
<1>3. ASSUME NEW s \in slab, slab' = slab \ {s}, held' = held \union {s},
             skb' = [skb EXCEPT ![s] = Fresh(z)]
      PROVE  slab' \in SUBSET Skbs /\ held' \in SUBSET Skbs /\ skb' \in [Skbs -> SkbState]
    BY <1>1, <1>3 DEF TypeOK
<1>4. QED
    BY <1>2, <1>3 DEF SlabAlloc

(* So does handing out a cached buffer.                                    *)
LEMMA DeliverType ==
    ASSUME TypeOK, NEW s \in Skbs, NEW reset \in BOOLEAN, Deliver(s, reset)
    PROVE  slab' \in SUBSET Skbs /\ held' \in SUBSET Skbs /\ skb' \in [Skbs -> SkbState]
BY SkbTypes DEF TypeOK, Deliver

(* One step of the recycler keeps every variable in its type.              *)
LEMMA TypeStep == TypeOK /\ [Next]_vars => TypeOK'
<1> SUFFICES ASSUME TypeOK, [Next]_vars PROVE TypeOK'
    OBVIOUS
<1> USE DEF lists, limits, cpus
<1>1. ASSUME NEW len \in {"fits", "over"}, AllocSkip(len) PROVE TypeOK'
    <2>1. (IF len = "over" THEN "other" ELSE "std") \in {"std", "other"}
        OBVIOUS
    <2>2. QED
        BY <1>1, <2>1, SlabAllocType DEF AllocSkip, TypeOK
<1>2. ASSUME NEW t \in Ctxs, NEW c \in CPUs, NEW reset \in BOOLEAN, AllocEnter(t, c, reset)
      PROVE  TypeOK'
    BY <1>2 DEF AllocEnter, Allocating, TypeOK, OpState
<1>3. ASSUME NEW t \in Ctxs, AllocHot(t) PROVE TypeOK'
    <2>1. PICK s \in recycle_list[op[t].cpu] :
            /\ recycle_list' = [recycle_list EXCEPT ![op[t].cpu] = @ \ {s}]
            /\ Deliver(s, op[t].reset)
        BY <1>3 DEF AllocHot
    <2>2. op[t].cpu \in CPUs /\ op[t].reset \in BOOLEAN
        BY <1>3, OpShape DEF AllocHot
    <2>3. s \in Skbs
        BY <2>2 DEF TypeOK
    <2>4. slab' \in SUBSET Skbs /\ held' \in SUBSET Skbs /\ skb' \in [Skbs -> SkbState]
        BY <2>1, <2>2, <2>3, DeliverType
    <2>5. op' \in [Ctxs -> OpState]
        BY <1>3 DEF AllocHot, TypeOK, OpState
    <2>6. QED
        BY <1>3, <2>1, <2>2, <2>4, <2>5 DEF AllocHot, TypeOK
<1>4. ASSUME NEW t \in Ctxs, AllocRefill(t) PROVE TypeOK'
    <2>1. op[t].cpu \in CPUs /\ op[t].reset \in BOOLEAN
        BY <1>4, OpShape DEF AllocRefill
    <2>2. head' \in Slots /\ pool' \in [Slots -> SUBSET Skbs]
        BY <1>4, NextSlot DEF AllocRefill, TypeOK, Spliced
    <2>3. op' \in [Ctxs -> OpState]
        BY <1>4 DEF AllocRefill, TypeOK, OpState
    <2>4. CASE pool[head] = {} /\ SlabAlloc("std") /\ UNCHANGED recycle_list
        BY <1>4, <2>2, <2>3, <2>4, SlabAllocType DEF AllocRefill, TypeOK
    <2>5. ASSUME NEW s \in pool[head], Deliver(s, op[t].reset),
                 recycle_list' = [recycle_list EXCEPT ![op[t].cpu] = pool[head] \ {s}]
          PROVE  TypeOK'
        <3>1. s \in Skbs /\ pool[head] \in SUBSET Skbs
            BY DEF TypeOK
        <3>2. slab' \in SUBSET Skbs /\ held' \in SUBSET Skbs /\ skb' \in [Skbs -> SkbState]
            BY <2>1, <2>5, <3>1, DeliverType
        <3>3. QED
            BY <1>4, <2>2, <2>3, <2>5, <3>1, <3>2 DEF AllocRefill, TypeOK
    <2>6. QED
        BY <1>4, <2>4, <2>5 DEF AllocRefill
<1>5. ASSUME NEW t \in Ctxs, AllocMiss(t) PROVE TypeOK'
    BY <1>5, SlabAllocType DEF AllocMiss, TypeOK, OpState
<1>6. ASSUME NEW t \in Ctxs, NEW c \in CPUs, NEW s \in Skbs,
             NEW m \in {"none", "fast", "ds"}, ConsumeEnter(t, c, s, m)
      PROVE  TypeOK'
    <2>1. Putting(c, {s}) \in OpState
        BY DEF Putting, OpState, TypeOK
    <2>2. skb' \in [Skbs -> SkbState]
        BY <1>6, SkbTypes DEF ConsumeEnter, TypeOK
    <2>3. QED
        BY <1>6, <2>1, <2>2 DEF ConsumeEnter, TypeOK
<1>7. ASSUME NEW s \in Skbs, NEW plain \in BOOLEAN, ConsumeRefuse(s, plain) PROVE TypeOK'
    BY <1>7 DEF ConsumeRefuse, Free, TypeOK
<1>8. ASSUME NEW t \in Ctxs, NEW c \in CPUs, NEW S \in Batches, ListFastEnter(t, c, S)
      PROVE  TypeOK'
    <2>1. Putting(c, S) \in OpState
        BY DEF Putting, OpState, TypeOK, Batches
    <2>2. skb' \in [Skbs -> SkbState]
        <3>1. \A s \in Skbs : Marked(skb[s], "fast") \in SkbState
            BY SkbTypes DEF TypeOK
        <3>2. QED
            BY <1>8, <3>1 DEF ListFastEnter, TypeOK
    <2>3. QED
        BY <1>8, <2>1, <2>2 DEF ListFastEnter, TypeOK
<1>9. ASSUME NEW S \in Batches, ListFastRefuse(S) PROVE TypeOK'
    BY <1>9 DEF ListFastRefuse, Free, TypeOK, Batches
<1>10. ASSUME NEW t \in Ctxs, PutHot(t) \/ PutSpare(t) \/ PutGlobal(t) \/ PutFull(t)
       PROVE  TypeOK'
    <2>1. op[t].cpu \in CPUs /\ op[t].skbs \in SUBSET Skbs
        BY <1>10, OpShape DEF PutHot, PutSpare, PutGlobal, PutFull
    <2>2. op' \in [Ctxs -> OpState]
        BY <1>10 DEF PutHot, PutSpare, PutGlobal, PutFull, TypeOK, OpState
    <2>3. CASE PutHot(t)
        BY <2>1, <2>2, <2>3 DEF PutHot, TypeOK
    <2>4. CASE PutSpare(t)
        BY <2>1, <2>2, <2>4 DEF PutSpare, TypeOK
    <2>5. CASE PutGlobal(t)
        BY <2>1, <2>2, <2>5, NextSlot DEF PutGlobal, TypeOK
    <2>6. CASE PutFull(t)
        BY <2>1, <2>2, <2>6 DEF PutFull, Free, TypeOK
    <2>7. QED
        BY <1>10, <2>3, <2>4, <2>5, <2>6
<1>11. ASSUME NEW s \in Skbs, HostTouch(s) PROVE TypeOK'
    BY <1>11, SkbTypes DEF HostTouch, TypeOK
<1>12. ASSUME NEW s \in Skbs, NEW z \in {"std", "other"}, pskb_expand_head(s, z)
       PROVE  TypeOK'
    BY <1>12, SkbTypes DEF pskb_expand_head, TypeOK
<1>13. CASE FlushStart
    BY <1>13 DEF FlushStart, TypeOK
<1>14. CASE FlushGlobal
    <2>1. UNION {pool[i] : i \in Slots} \in SUBSET Skbs
        BY DEF TypeOK
    <2>2. 0 \in Slots
        BY PoolsAssumption DEF Slots
    <2>3. QED
        BY <1>14, <2>1, <2>2 DEF FlushGlobal, Free, TypeOK
<1>15. ASSUME NEW c \in CPUs, FlushHot(c) \/ FlushSpare(c) PROVE TypeOK'
    BY <1>15 DEF FlushHot, FlushSpare, Free, Spliced, TypeOK
<1>16. ASSUME NEW c \in CPUs, skb_cpu_callback(c) \/ CpuUp(c) PROVE TypeOK'
    BY <1>16 DEF skb_cpu_callback, CpuUp, Free, Spliced, TypeOK
<1>17. ASSUME NEW v \in Limits, WriteMaxSkbs(v) \/ WriteMaxSpare(v) PROVE TypeOK'
    BY <1>17 DEF WriteMaxSkbs, WriteMaxSpare, TypeOK
<1>18. ASSUME NEW c \in CPUs, NEW v \in Limits, WriteMaxSkbsCpu(c, v) \/ WriteMaxSpareCpu(c, v)
       PROVE  TypeOK'
    BY <1>18 DEF WriteMaxSkbsCpu, WriteMaxSpareCpu, TypeOK
<1>19. ASSUME NEW b \in BOOLEAN, WriteEnable(b) PROVE TypeOK'
    BY <1>19 DEF WriteEnable, TypeOK
<1>20. CASE UNCHANGED vars
    BY <1>20 DEF vars, TypeOK
<1>21. QED
    BY <1>1, <1>2, <1>3, <1>4, <1>5, <1>6, <1>7, <1>8, <1>9, <1>10, <1>11, <1>12, <1>13,
       <1>14, <1>15, <1>16, <1>17, <1>18, <1>19, <1>20
       DEF Next, Alloc, Consume, Host, Flush, Hotplug, Procfs

(* Every variable of the recycler keeps its type for ever.                 *)
THEOREM TypeCorrect == Spec => []TypeOK
<1>1. Init => TypeOK
    <2>1. 0 \in Slots
        BY PoolsAssumption DEF Slots
    <2>2. Fresh("std") \in SkbState
        BY DEF Fresh, SkbState
    <2>3. InitMax \in Limits /\ InitSpare \in Limits
        BY LimitAssumption DEF Limits
    <2>4. Idle \in OpState
        BY DEF OpState
    <2> SUFFICES ASSUME Init PROVE TypeOK
        OBVIOUS
    <2>5. enable \in BOOLEAN /\ flushing \in BOOLEAN
        BY DEF Init
    <2>6. /\ recycle_list \in [CPUs -> SUBSET Skbs] /\ spare_list \in [CPUs -> SUBSET Skbs]
          /\ pool \in [Slots -> SUBSET Skbs] /\ todo \in [CPUs -> {"none", "hot", "spare"}]
        BY DEF Init
    <2>7. /\ max_skbs \in [CPUs -> Limits] /\ max_spare \in [CPUs -> Limits]
          /\ skb \in [Skbs -> SkbState] /\ op \in [Ctxs -> OpState]
        BY <2>2, <2>3, <2>4 DEF Init
    <2>8. QED
        BY <2>1, <2>5, <2>6, <2>7 DEF Init, TypeOK
<1>2. QED
    BY <1>1, TypeStep, PTL DEF Spec
-----------------------------------------------------------------------------
(* The ring of global pools *)

(* Only a refill, a move of a spare list and a flush touch the ring.       *)
LEMMA RingFrame ==
    ASSUME [Next]_vars
    PROVE  \/ UNCHANGED <<pool, head, tail>>
           \/ \E t \in Ctxs : AllocRefill(t) \/ PutGlobal(t)
           \/ FlushGlobal
<1> USE DEF lists, limits, cpus
<1>1. CASE Alloc
    BY <1>1 DEF Alloc, AllocSkip, AllocEnter, AllocHot, AllocMiss
<1>2. CASE Consume
    BY <1>2 DEF Consume, ConsumeEnter, ConsumeRefuse, ListFastEnter, ListFastRefuse,
                PutHot, PutSpare, PutFull
<1>3. CASE Host \/ Flush
    BY <1>3 DEF Host, HostTouch, pskb_expand_head, Flush, FlushStart, FlushHot, FlushSpare
<1>4. CASE Hotplug \/ Procfs
    BY <1>4 DEF Hotplug, skb_cpu_callback, CpuUp, Procfs, WriteMaxSkbs, WriteMaxSpare,
                WriteMaxSkbsCpu, WriteMaxSpareCpu, WriteEnable
<1>5. CASE UNCHANGED vars
    BY <1>5 DEF vars
<1>6. QED
    BY <1>1, <1>2, <1>3, <1>4, <1>5 DEF Next

(* Every step keeps the slots outside head..tail empty.                    *)
LEMMA RingStep ==
    ASSUME TypeOK, RingExact, [Next]_vars
    PROVE  RingExact'
<1>1. CASE UNCHANGED <<pool, head, tail>>
    BY <1>1 DEF RingExact, InRing
<1>2. ASSUME NEW t \in Ctxs, AllocRefill(t) PROVE RingExact'
    <2>1. head \in Slots /\ tail \in Slots /\ head # tail /\ UNCHANGED tail
        BY <1>2 DEF AllocRefill, TypeOK
    <2>2. head' = Next_slot(head) /\ pool' = [pool EXCEPT ![head] = {}]
        BY <1>2 DEF AllocRefill, Spliced
    <2>3. ASSUME NEW i \in Slots, i # head, ~InRing(i)' PROVE ~InRing(i)
        BY <2>1, <2>2, <2>3, NextSlot, PoolsAssumption DEF InRing, Slots
    <2>4. QED
        BY <2>1, <2>2, <2>3 DEF RingExact, TypeOK
<1>3. ASSUME NEW t \in Ctxs, PutGlobal(t) PROVE RingExact'
    <2>1. head \in Slots /\ tail \in Slots /\ UNCHANGED head
        BY <1>3, SMT DEF PutGlobal, TypeOK
    <2>2. tail' = Next_slot(tail) /\ Next_slot(tail) # head
        BY <1>3 DEF PutGlobal, GlobalFull
    <2>3. \A i \in Slots : i # tail => pool'[i] = pool[i]
        BY <1>3 DEF PutGlobal, TypeOK
    <2>4. ASSUME NEW i \in Slots, ~InRing(i)' PROVE i # tail /\ ~InRing(i)
        BY <2>1, <2>2, <2>4, NextSlot, PoolsAssumption DEF InRing, Slots
    <2>5. QED
        BY <2>3, <2>4 DEF RingExact
<1>4. CASE FlushGlobal
    BY <1>4 DEF FlushGlobal, RingExact
<1>5. QED
    BY <1>1, <1>2, <1>3, <1>4, RingFrame

(* The ring of shared pools is never overrun, for any number of pools,     *)
(* CPUs and contexts, whatever the limits and however flushes interleave.  *)
THEOREM RingNeverOverrun == Spec => []RingExact
<1>1. Init => RingExact
    BY DEF Init, RingExact
<1>2. QED
    BY <1>1, TypeCorrect, RingStep, PTL DEF Spec
-----------------------------------------------------------------------------
(* Ownership of buffers *)

(* OneOwner, place by place: the inductive form.                           *)
Alone(s) ==
    /\ ~(s \in slab /\ s \in held)
    /\ \A c \in CPUs : s \in recycle_list[c] =>
        /\ s \notin slab /\ s \notin held
        /\ \A d \in CPUs : s \notin spare_list[d] /\ (s \in recycle_list[d] => c = d)
    /\ \A c \in CPUs : s \in spare_list[c] =>
        /\ s \notin slab /\ s \notin held
        /\ \A d \in CPUs : s \in spare_list[d] => c = d
    /\ \A i \in Slots : s \in pool[i] =>
        /\ s \notin slab /\ s \notin held
        /\ \A d \in CPUs : s \notin recycle_list[d] /\ s \notin spare_list[d]
        /\ \A j \in Slots : s \in pool[j] => i = j
    /\ \A t \in Ctxs : s \in op[t].skbs =>
        /\ s \notin slab /\ s \notin held
        /\ \A d \in CPUs : s \notin recycle_list[d] /\ s \notin spare_list[d]
        /\ \A j \in Slots : s \notin pool[j]
        /\ \A u \in Ctxs : s \in op[u].skbs => t = u

AllAlone == \A s \in Skbs : Alone(s)

(* Every step keeps each buffer in at most one place.                      *)
LEMMA AloneStep ==
    ASSUME TypeOK, AllAlone, [Next]_vars
    PROVE  AllAlone'
<1> SUFFICES ASSUME NEW s \in Skbs PROVE Alone(s)'
    BY DEF AllAlone
<1> USE DEF lists, limits, cpus
<1>a. Alone(s)
    BY DEF AllAlone
<1>i. Idle.skbs = {}
    BY DEF Idle
<1>1. ASSUME NEW z, SlabAlloc(z), UNCHANGED lists,
             \A t \in Ctxs : op'[t].skbs = op[t].skbs
      PROVE  Alone(s)'
    BY <1>1, <1>a DEF SlabAlloc, Alone
<1>2. ASSUME NEW len, AllocSkip(len) PROVE Alone(s)'
    BY <1>1, <1>2 DEF AllocSkip
<1>3. ASSUME NEW t \in Ctxs, NEW c, NEW reset, AllocEnter(t, c, reset) PROVE Alone(s)'
    <2>1. \A u \in Ctxs : op'[u].skbs = op[u].skbs
        BY <1>3, <1>i DEF AllocEnter, Allocating, TypeOK
    <2>2. QED
        BY <1>3, <1>a, <2>1 DEF AllocEnter, Alone
<1>4. ASSUME NEW t \in Ctxs, AllocHot(t) PROVE Alone(s)'
    <2>1. op[t].cpu \in CPUs /\ op[t].skbs = {}
        BY <1>4 DEF AllocHot, TypeOK, OpState, Idle
    <2>2. \A u \in Ctxs : op'[u].skbs = op[u].skbs
        BY <1>4, <1>i, <2>1 DEF AllocHot, TypeOK
    <2>3. PICK x \in recycle_list[op[t].cpu] :
            recycle_list' = [recycle_list EXCEPT ![op[t].cpu] = @ \ {x}] /\ held' = held \union {x}
        BY <1>4 DEF AllocHot, Deliver
    <2>4. UNCHANGED <<spare_list, pool, slab>>
        BY <1>4 DEF AllocHot, Deliver
    <2>5. QED
        BY <1>a, <2>1, <2>2, <2>3, <2>4 DEF Alone, TypeOK
<1>5. ASSUME NEW t \in Ctxs, AllocRefill(t) PROVE Alone(s)'
    <2>1. op[t].cpu \in CPUs /\ op[t].skbs = {}
        BY <1>5 DEF AllocRefill, TypeOK, OpState, Idle
    <2>2. \A u \in Ctxs : op'[u].skbs = op[u].skbs
        BY <1>5, <1>i, <2>1 DEF AllocRefill, TypeOK
    <2>3. head \in Slots /\ pool' = [pool EXCEPT ![head] = {}] /\ UNCHANGED spare_list
        BY <1>5 DEF AllocRefill, Spliced, TypeOK
    <2>4. CASE pool[head] = {} /\ SlabAlloc("std") /\ UNCHANGED recycle_list
        BY <1>a, <2>2, <2>3, <2>4 DEF Alone, SlabAlloc, TypeOK
    <2>5. ASSUME NEW x \in pool[head], Deliver(x, op[t].reset),
                 recycle_list' = [recycle_list EXCEPT ![op[t].cpu] = pool[head] \ {x}]
          PROVE  Alone(s)'
        <3>1. held' = held \union {x} /\ UNCHANGED slab
            BY <2>5 DEF Deliver
        <3>2. recycle_list[op[t].cpu] = {}
            BY <1>5 DEF AllocRefill
        <3>3. QED
            BY <1>a, <2>1, <2>2, <2>3, <2>5, <3>1, <3>2 DEF Alone, TypeOK
    <2>6. QED
        BY <1>5, <2>4, <2>5 DEF AllocRefill
<1>6. ASSUME NEW t \in Ctxs, AllocMiss(t) PROVE Alone(s)'
    <2>1. op[t].skbs = {}
        BY <1>6 DEF AllocMiss, TypeOK, OpState, Idle
    <2>2. \A u \in Ctxs : op'[u].skbs = op[u].skbs
        BY <1>6, <1>i, <2>1 DEF AllocMiss, TypeOK
    <2>3. QED
        BY <1>1, <1>6, <2>2 DEF AllocMiss
<1>7. ASSUME NEW t \in Ctxs, NEW S \in SUBSET held, NEW c, op[t] = Idle,
             held' = held \ S, op' = [op EXCEPT ![t] = Putting(c, S)],
             UNCHANGED <<lists, slab>>
      PROVE  Alone(s)'
    <2>1. \A u \in Ctxs : op'[u].skbs = IF u = t THEN S ELSE op[u].skbs
        BY <1>7 DEF Putting, TypeOK
    <2>2. QED
        BY <1>7, <1>a, <1>i, <2>1 DEF Alone, TypeOK
<1>8. ASSUME NEW t \in Ctxs, NEW c \in CPUs, NEW x \in Skbs, NEW m, ConsumeEnter(t, c, x, m)
      PROVE  Alone(s)'
    <2>1. {x} \in SUBSET held
        BY <1>8 DEF ConsumeEnter
    <2>2. QED
        BY <1>7, <1>8, <2>1 DEF ConsumeEnter
<1>9. ASSUME NEW t \in Ctxs, NEW c \in CPUs, NEW S \in Batches, ListFastEnter(t, c, S)
      PROVE  Alone(s)'
    BY <1>7, <1>9 DEF ListFastEnter, Batches
<1>10. ASSUME NEW S \in SUBSET held, held' = held \ S, slab' = slab \union S,
              UNCHANGED <<lists, op>>
       PROVE  Alone(s)'
    BY <1>10, <1>a DEF Alone, TypeOK
<1>11. ASSUME NEW x \in Skbs, NEW plain, ConsumeRefuse(x, plain) PROVE Alone(s)'
    <2>1. {x} \in SUBSET held
        BY <1>11 DEF ConsumeRefuse
    <2>2. QED
        BY <1>10, <1>11, <2>1 DEF ConsumeRefuse, Free
<1>12. ASSUME NEW S \in Batches, ListFastRefuse(S) PROVE Alone(s)'
    BY <1>10, <1>12 DEF ListFastRefuse, Free, Batches
<1>13. ASSUME NEW t \in Ctxs, PutHot(t) \/ PutSpare(t) \/ PutGlobal(t) \/ PutFull(t)
       PROVE  Alone(s)'
    <2>1. op[t].cpu \in CPUs /\ UNCHANGED held
        BY <1>13, OpShape DEF PutHot, PutSpare, PutGlobal, PutFull
    <2>2. \A u \in Ctxs : op'[u].skbs = IF u = t THEN {} ELSE op[u].skbs
        BY <1>13, <1>i DEF PutHot, PutSpare, PutGlobal, PutFull, TypeOK
    <2>3. CASE PutHot(t)
        BY <1>a, <2>1, <2>2, <2>3 DEF PutHot, Alone, TypeOK
    <2>4. CASE PutSpare(t)
        BY <1>a, <2>1, <2>2, <2>4 DEF PutSpare, Alone, TypeOK
    <2>5. CASE PutGlobal(t)
        BY <1>a, <2>1, <2>2, <2>5 DEF PutGlobal, Alone, TypeOK
    <2>6. CASE PutFull(t)
        BY <1>a, <2>1, <2>2, <2>6 DEF PutFull, Free, Alone, TypeOK
    <2>7. QED
        BY <1>13, <2>3, <2>4, <2>5, <2>6
<1>14. CASE Host
    BY <1>14, <1>a DEF Host, HostTouch, pskb_expand_head, Alone
<1>15. CASE FlushStart
    BY <1>15, <1>a DEF FlushStart, Alone
<1>16. CASE FlushGlobal
    <2>1. /\ slab' = slab \union UNION {pool[i] : i \in Slots}
          /\ pool' = [i \in Slots |-> {}]
          /\ UNCHANGED <<recycle_list, spare_list, held, op>>
        BY <1>16 DEF FlushGlobal, Free
    <2>2. s \in slab' <=> s \in slab \/ \E i \in Slots : s \in pool[i]
        BY <2>1
    <2>3. QED
        BY <1>a, <2>1, <2>2 DEF Alone
<1>17. ASSUME NEW c \in CPUs, FlushHot(c) \/ FlushSpare(c) PROVE Alone(s)'
    BY <1>17, <1>a DEF FlushHot, FlushSpare, Free, Spliced, Alone, TypeOK
<1>18. ASSUME NEW c \in CPUs, skb_cpu_callback(c) \/ CpuUp(c) PROVE Alone(s)'
    BY <1>18, <1>a DEF skb_cpu_callback, CpuUp, Free, Spliced, Alone, TypeOK
<1>19. CASE Procfs
    BY <1>19, <1>a DEF Procfs, WriteMaxSkbs, WriteMaxSpare, WriteMaxSkbsCpu,
                       WriteMaxSpareCpu, WriteEnable, Alone
<1>20. CASE UNCHANGED vars
    BY <1>20, <1>a DEF vars, Alone
<1>21. QED
    BY <1>2, <1>3, <1>4, <1>5, <1>6, <1>8, <1>9, <1>11, <1>12, <1>13, <1>14, <1>15,
       <1>16, <1>17, <1>18, <1>19, <1>20
       DEF Next, Alloc, Consume, Flush, Hotplug

(* The place-by-place form says what OneOwner says.                        *)
LEMMA AloneIsOneOwner == TypeOK /\ AllAlone => OneOwner
<1> SUFFICES ASSUME TypeOK, AllAlone, NEW p \in Places, NEW q \in Places, p # q,
                    NEW s \in At(p), s \in At(q)
             PROVE  FALSE
    BY DEF OneOwner
<1>1. Alone(s)
    BY DEF AllAlone, TypeOK, Places, At, OpState, Idle
<1>2. QED
    BY <1>1 DEF Alone, Places, At

(* No buffer is ever in two places, for any number of buffers, CPUs and    *)
(* contexts: the recycler neither hands out nor frees a buffer twice.      *)
THEOREM OwnershipExclusive == Spec => []OneOwner
<1>1. Init => AllAlone
    BY DEF Init, AllAlone, Alone, Idle
<1>2. QED
    BY <1>1, TypeCorrect, AloneStep, AloneIsOneOwner, PTL DEF Spec

-----------------------------------------------------------------------------
(* A CPU that is down caches nothing *)

(* An operation that is not over runs on a CPU that is up: skb_cpu_callback *)
(* runs when nothing runs on its CPU any more.                              *)
OpsOnline == \A t \in Ctxs : op[t] # Idle => op[t].cpu \in online

(* Only contexts on a CPU that is up put buffers on its lists.              *)
LEMMA DrainedStep ==
    ASSUME TypeOK, OpsOnline, DeadCpuDrained, [Next]_vars
    PROVE  OpsOnline' /\ DeadCpuDrained'
<1> USE DEF lists, limits, cpus, OpsOnline, DeadCpuDrained
<1>1. ASSUME NEW t \in Ctxs, op[t] # Idle, op' = [op EXCEPT ![t] = Idle], UNCHANGED online,
             \A c \in CPUs : c # op[t].cpu =>
                recycle_list'[c] = recycle_list[c] /\ spare_list'[c] = spare_list[c]
      PROVE  OpsOnline' /\ DeadCpuDrained'
    BY <1>1 DEF TypeOK
<1>2. \A t \in Ctxs : op[t].pc \in {"alloc", "put"} => op[t] # Idle
    BY DEF Idle
<1>3. ASSUME NEW t \in Ctxs, AllocHot(t) \/ AllocRefill(t) \/ AllocMiss(t)
      PROVE  OpsOnline' /\ DeadCpuDrained'
    <2>1. op[t] # Idle /\ op' = [op EXCEPT ![t] = Idle] /\ UNCHANGED online
        BY <1>2, <1>3 DEF AllocHot, AllocRefill, AllocMiss
    <2>2. \A c \in CPUs : c # op[t].cpu =>
                recycle_list'[c] = recycle_list[c] /\ spare_list'[c] = spare_list[c]
        BY <1>3 DEF AllocHot, AllocRefill, AllocMiss, TypeOK
    <2>3. QED
        BY <1>1, <2>1, <2>2
<1>4. ASSUME NEW t \in Ctxs, PutHot(t) \/ PutSpare(t) \/ PutGlobal(t) \/ PutFull(t)
      PROVE  OpsOnline' /\ DeadCpuDrained'
    <2>1. op[t] # Idle /\ op' = [op EXCEPT ![t] = Idle] /\ UNCHANGED online
        BY <1>2, <1>4 DEF PutHot, PutSpare, PutGlobal, PutFull
    <2>2. \A c \in CPUs : c # op[t].cpu =>
                recycle_list'[c] = recycle_list[c] /\ spare_list'[c] = spare_list[c]
        BY <1>4 DEF PutHot, PutSpare, PutGlobal, PutFull, TypeOK
    <2>3. QED
        BY <1>1, <2>1, <2>2
<1>5. ASSUME NEW t \in Ctxs, NEW c \in online, NEW o, o.cpu = c, op' = [op EXCEPT ![t] = o],
             UNCHANGED <<lists, cpus>>
      PROVE  OpsOnline' /\ DeadCpuDrained'
    BY <1>5 DEF TypeOK
<1>6. ASSUME NEW t \in Ctxs, NEW c \in CPUs, NEW reset \in BOOLEAN, AllocEnter(t, c, reset)
      PROVE  OpsOnline' /\ DeadCpuDrained'
    BY <1>5, <1>6 DEF AllocEnter, Allocating
<1>7. ASSUME NEW t \in Ctxs, NEW c \in CPUs, NEW s \in Skbs, NEW m, ConsumeEnter(t, c, s, m)
      PROVE  OpsOnline' /\ DeadCpuDrained'
    BY <1>5, <1>7 DEF ConsumeEnter, Putting
<1>8. ASSUME NEW t \in Ctxs, NEW c \in CPUs, NEW S \in Batches, ListFastEnter(t, c, S)
      PROVE  OpsOnline' /\ DeadCpuDrained'
    BY <1>5, <1>8 DEF ListFastEnter, Putting
<1>9. ASSUME UNCHANGED <<recycle_list, spare_list, online, op>>
      PROVE  OpsOnline' /\ DeadCpuDrained'
    BY <1>9
<1>10. ASSUME NEW len, AllocSkip(len) PROVE OpsOnline' /\ DeadCpuDrained'
    BY <1>9, <1>10 DEF AllocSkip
<1>11. ASSUME NEW s, NEW plain, ConsumeRefuse(s, plain) PROVE OpsOnline' /\ DeadCpuDrained'
    BY <1>9, <1>11 DEF ConsumeRefuse
<1>12. ASSUME NEW S, ListFastRefuse(S) PROVE OpsOnline' /\ DeadCpuDrained'
    BY <1>9, <1>12 DEF ListFastRefuse
<1>13. CASE Host
    BY <1>9, <1>13 DEF Host, HostTouch, pskb_expand_head
<1>14. CASE FlushStart \/ FlushGlobal
    BY <1>9, <1>14 DEF FlushStart, FlushGlobal
<1>15. ASSUME NEW c \in CPUs, FlushHot(c) \/ FlushSpare(c) PROVE OpsOnline' /\ DeadCpuDrained'
    BY <1>15 DEF FlushHot, FlushSpare, Spliced, TypeOK
<1>16. ASSUME NEW c \in CPUs, skb_cpu_callback(c) PROVE OpsOnline' /\ DeadCpuDrained'
    BY <1>16 DEF skb_cpu_callback, Spliced, TypeOK
<1>17. ASSUME NEW c \in CPUs, CpuUp(c) PROVE OpsOnline' /\ DeadCpuDrained'
    BY <1>17 DEF CpuUp
<1>18. CASE Procfs
    BY <1>9, <1>18 DEF Procfs, WriteMaxSkbs, WriteMaxSpare, WriteMaxSkbsCpu,
                       WriteMaxSpareCpu, WriteEnable
<1>19. CASE UNCHANGED vars
    BY <1>9, <1>19 DEF vars
<1>20. QED
    BY <1>3, <1>4, <1>6, <1>7, <1>8, <1>10, <1>11, <1>12, <1>13, <1>14, <1>15, <1>16,
       <1>17, <1>18, <1>19
       DEF Next, Alloc, Consume, Flush, Hotplug

(* After skb_cpu_callback nothing is left on the lists of a CPU until it   *)
(* comes up again, whatever releases and flushes were under way.           *)
THEOREM DeadCpusStayDrained == Spec => []DeadCpuDrained
<1>1. Init => OpsOnline /\ DeadCpuDrained
    BY DEF Init, OpsOnline, DeadCpuDrained
<1>2. QED
    BY <1>1, TypeCorrect, DrainedStep, PTL DEF Spec
-----------------------------------------------------------------------------
(* No buffer is lost *)

(* NoneLost for one buffer, place by place.                                *)
Somewhere(s) ==
    \/ s \in slab \/ s \in held
    \/ \E c \in CPUs : s \in recycle_list[c]
    \/ \E c \in CPUs : s \in spare_list[c]
    \/ \E i \in Slots : s \in pool[i]
    \/ \E t \in Ctxs : s \in op[t].skbs

AllSomewhere == \A s \in Skbs : Somewhere(s)

(* Every step that takes a buffer from one place puts it in another.       *)
LEMMA SomewhereStep ==
    ASSUME TypeOK, AllSomewhere, [Next]_vars
    PROVE  AllSomewhere'
<1> SUFFICES ASSUME NEW s \in Skbs PROVE Somewhere(s)'
    BY DEF AllSomewhere
<1> USE DEF lists, limits, cpus
<1>a. Somewhere(s)
    BY DEF AllSomewhere
<1>i. Idle.skbs = {}
    BY DEF Idle
<1>1. ASSUME NEW z, SlabAlloc(z), UNCHANGED lists,
             \A t \in Ctxs : op'[t].skbs = op[t].skbs
      PROVE  Somewhere(s)'
    BY <1>1, <1>a DEF SlabAlloc, Somewhere
<1>2. ASSUME NEW len, AllocSkip(len) PROVE Somewhere(s)'
    BY <1>1, <1>2 DEF AllocSkip
<1>3. ASSUME NEW t \in Ctxs, NEW c, NEW reset, AllocEnter(t, c, reset) PROVE Somewhere(s)'
    <2>1. \A u \in Ctxs : op'[u].skbs = op[u].skbs
        BY <1>3, <1>i DEF AllocEnter, Allocating, TypeOK
    <2>2. QED
        BY <1>3, <1>a, <2>1 DEF AllocEnter, Somewhere
<1>4. ASSUME NEW t \in Ctxs, AllocHot(t) \/ AllocRefill(t) \/ AllocMiss(t)
      PROVE  Somewhere(s)'
    <2>1. op[t].cpu \in CPUs /\ op[t].skbs = {}
        BY <1>4 DEF AllocHot, AllocRefill, AllocMiss, TypeOK, OpState, Idle
    <2>2. \A u \in Ctxs : op'[u].skbs = op[u].skbs
        BY <1>4, <1>i, <2>1 DEF AllocHot, AllocRefill, AllocMiss, TypeOK
    <2>3. CASE AllocHot(t)
        <3>1. PICK x \in recycle_list[op[t].cpu] :
                /\ recycle_list' = [recycle_list EXCEPT ![op[t].cpu] = @ \ {x}]
                /\ held' = held \union {x} /\ UNCHANGED <<spare_list, pool, slab>>
            BY <2>3 DEF AllocHot, Deliver
        <3>2. QED
            BY <1>a, <2>1, <2>2, <3>1 DEF Somewhere, TypeOK
    <2>4. CASE AllocRefill(t)
        <3>1. /\ head \in Slots /\ recycle_list[op[t].cpu] = {}
              /\ pool' = [pool EXCEPT ![head] = {}] /\ UNCHANGED spare_list
            BY <2>4 DEF AllocRefill, Spliced, TypeOK
        <3>2. CASE pool[head] = {} /\ SlabAlloc("std") /\ UNCHANGED recycle_list
            BY <1>a, <2>2, <3>1, <3>2 DEF Somewhere, SlabAlloc, TypeOK
        <3>3. ASSUME NEW x \in pool[head], held' = held \union {x}, UNCHANGED slab,
                     recycle_list' = [recycle_list EXCEPT ![op[t].cpu] = pool[head] \ {x}]
              PROVE  Somewhere(s)'
            BY <1>a, <2>1, <2>2, <3>1, <3>3 DEF Somewhere, TypeOK
        <3>4. QED
            BY <2>4, <3>2, <3>3 DEF AllocRefill, Deliver
    <2>5. CASE AllocMiss(t)
        BY <1>1, <2>2, <2>5 DEF AllocMiss
    <2>6. QED
        BY <1>4, <2>3, <2>4, <2>5
<1>5. ASSUME NEW t \in Ctxs, NEW S, NEW c, op[t] = Idle,
             held' = held \ S, op' = [op EXCEPT ![t] = Putting(c, S)],
             UNCHANGED <<lists, slab>>
      PROVE  Somewhere(s)'
    <2>1. \A u \in Ctxs : op'[u].skbs = IF u = t THEN S ELSE op[u].skbs
        BY <1>5 DEF Putting, TypeOK
    <2>2. QED
        BY <1>5, <1>a, <1>i, <2>1 DEF Somewhere
<1>6. ASSUME NEW t \in Ctxs, NEW c, NEW x, NEW m, ConsumeEnter(t, c, x, m) PROVE Somewhere(s)'
    BY <1>5, <1>6 DEF ConsumeEnter
<1>7. ASSUME NEW t \in Ctxs, NEW c, NEW S, ListFastEnter(t, c, S) PROVE Somewhere(s)'
    BY <1>5, <1>7 DEF ListFastEnter
<1>8. ASSUME NEW x, NEW plain, ConsumeRefuse(x, plain) PROVE Somewhere(s)'
    BY <1>8, <1>a DEF ConsumeRefuse, Free, Somewhere
<1>9. ASSUME NEW S, ListFastRefuse(S) PROVE Somewhere(s)'
    BY <1>9, <1>a DEF ListFastRefuse, Free, Somewhere
<1>10. ASSUME NEW t \in Ctxs, PutHot(t) \/ PutSpare(t) \/ PutGlobal(t) \/ PutFull(t)
       PROVE  Somewhere(s)'
    <2>1. op[t].cpu \in CPUs /\ UNCHANGED held
        BY <1>10, OpShape DEF PutHot, PutSpare, PutGlobal, PutFull
    <2>2. \A u \in Ctxs : op'[u].skbs = IF u = t THEN {} ELSE op[u].skbs
        BY <1>10, <1>i DEF PutHot, PutSpare, PutGlobal, PutFull, TypeOK
    <2>3. CASE PutHot(t)
        BY <1>a, <2>1, <2>2, <2>3 DEF PutHot, Somewhere, TypeOK
    <2>4. CASE PutSpare(t)
        BY <1>a, <2>1, <2>2, <2>4 DEF PutSpare, Somewhere, TypeOK
    <2>5. CASE PutGlobal(t)
        <3>1. /\ pool' = [pool EXCEPT ![tail] = @ \union spare_list[op[t].cpu]] /\ tail \in Slots
              /\ spare_list' = [spare_list EXCEPT ![op[t].cpu] = op[t].skbs]
              /\ UNCHANGED <<recycle_list, slab>>
            BY <2>5 DEF PutGlobal, TypeOK
        <3>2. QED
            BY <1>a, <2>1, <2>2, <3>1 DEF Somewhere, TypeOK
    <2>6. CASE PutFull(t)
        BY <1>a, <2>1, <2>2, <2>6 DEF PutFull, Free, Somewhere, TypeOK
    <2>7. QED
        BY <1>10, <2>3, <2>4, <2>5, <2>6
<1>11. CASE Host
    BY <1>11, <1>a DEF Host, HostTouch, pskb_expand_head, Somewhere
<1>12. CASE FlushStart
    BY <1>12, <1>a DEF FlushStart, Somewhere
<1>13. CASE FlushGlobal
    <2>1. /\ slab' = slab \union UNION {pool[i] : i \in Slots}
          /\ UNCHANGED <<recycle_list, spare_list, held, op>>
        BY <1>13 DEF FlushGlobal, Free
    <2>2. s \in slab' <=> s \in slab \/ \E i \in Slots : s \in pool[i]
        BY <2>1
    <2>3. QED
        BY <1>a, <2>1, <2>2 DEF Somewhere
<1>14. ASSUME NEW c \in CPUs, FlushHot(c) \/ FlushSpare(c) PROVE Somewhere(s)'
    BY <1>14, <1>a DEF FlushHot, FlushSpare, Free, Spliced, Somewhere, TypeOK
<1>15. ASSUME NEW c \in CPUs, skb_cpu_callback(c) \/ CpuUp(c) PROVE Somewhere(s)'
    BY <1>15, <1>a DEF skb_cpu_callback, CpuUp, Free, Spliced, Somewhere, TypeOK
<1>16. CASE Procfs
    BY <1>16, <1>a DEF Procfs, WriteMaxSkbs, WriteMaxSpare, WriteMaxSkbsCpu,
                       WriteMaxSpareCpu, WriteEnable, Somewhere
<1>17. CASE UNCHANGED vars
    BY <1>17, <1>a DEF vars, Somewhere
<1>18. QED
    BY <1>2, <1>3, <1>4, <1>6, <1>7, <1>8, <1>9, <1>10, <1>11, <1>12, <1>13, <1>14,
       <1>15, <1>16, <1>17
       DEF Next, Alloc, Consume, Flush, Hotplug

(* The place-by-place form says what NoneLost says.                        *)
LEMMA SomewhereIsNoneLost == AllSomewhere => NoneLost
<1> SUFFICES ASSUME AllSomewhere, NEW s \in Skbs PROVE \E p \in Places : s \in At(p)
    BY DEF NoneLost
<1>1. Somewhere(s)
    BY DEF AllSomewhere
<1>2. CASE s \in slab \/ s \in held
    <2>1. <<"slab">> \in Places /\ At(<<"slab">>) = slab
        BY DEF Places, At
    <2>2. <<"held">> \in Places /\ At(<<"held">>) = held
        BY DEF Places, At
    <2>3. QED
        BY <1>2, <2>1, <2>2
<1>3. ASSUME NEW c \in CPUs, s \in recycle_list[c] \/ s \in spare_list[c]
      PROVE  \E p \in Places : s \in At(p)
    <2>1. <<"hot", c>> \in Places /\ At(<<"hot", c>>) = recycle_list[c]
        BY DEF Places, At
    <2>2. <<"spare", c>> \in Places /\ At(<<"spare", c>>) = spare_list[c]
        BY DEF Places, At
    <2>3. QED
        BY <1>3, <2>1, <2>2
<1>4. ASSUME NEW i \in Slots, s \in pool[i] PROVE \E p \in Places : s \in At(p)
    <2>1. <<"pool", i>> \in Places /\ At(<<"pool", i>>) = pool[i]
        BY DEF Places, At
    <2>2. QED
        BY <1>4, <2>1
<1>5. ASSUME NEW t \in Ctxs, s \in op[t].skbs PROVE \E p \in Places : s \in At(p)
    <2>1. <<"op", t>> \in Places /\ At(<<"op", t>>) = op[t].skbs
        BY DEF Places, At
    <2>2. QED
        BY <1>5, <2>1
<1>6. QED
    BY <1>1, <1>2, <1>3, <1>4, <1>5 DEF Somewhere

(* No buffer ever leaks: alloc, consume, flush, hotplug and their refusals *)
(* leave each one where somebody will find it.                             *)
THEOREM NothingLost == Spec => []NoneLost
<1>1. Init => AllSomewhere
    BY DEF Init, AllSomewhere, Somewhere
<1>2. QED
    BY <1>1, TypeCorrect, SomewhereStep, SomewhereIsNoneLost, PTL DEF Spec
-----------------------------------------------------------------------------
(* What alloc hands out *)

(* A flag that makes alloc skip the zeroing of shinfo is set only on a     *)
(* buffer whose shinfo is clean.  An owner never has one with              *)
(* fast_recycled set, and one that is_from_recycler says came from the     *)
(* recycler still has the recycle size.                                    *)
FlagsSound(s) ==
    /\ s \notin slab => (skb[s].fast \/ skb[s].ds => skb[s].shinfo = "clean")
    /\ s \in held => ~skb[s].fast /\ (skb[s].from => skb[s].size = "std")
    /\ Cached(s) => skb[s].size = "std"

AllFlagsSound == \A s \in Skbs : FlagsSound(s)

(* What alloc takes from a list is clean, not marked and of the recycle    *)
(* size afterwards; nobody else's buffer changes.                          *)
LEMMA DeliverClean ==
    ASSUME TypeOK, NEW x \in Skbs, FlagsSound(x), x \notin slab, Cached(x),
           NEW reset \in BOOLEAN, Deliver(x, reset)
    PROVE  /\ skb'[x].shinfo = "clean" /\ ~skb'[x].fast /\ skb'[x].size = "std"
           /\ \A s \in Skbs : s # x => skb'[s] = skb[s]
           /\ held' = held \union {x} /\ UNCHANGED slab
<1>1. skb[x] \in SkbState /\ (skb[x].fast \/ skb[x].ds => skb[x].shinfo = "clean")
    BY DEF TypeOK, FlagsSound
<1>2. skb'[x] = netdev_alloc_flags(recycler_reset(skb[x], reset), reset)
    BY DEF Deliver, TypeOK
<1>3. skb'[x].shinfo = "clean" /\ skb'[x].fast = FALSE /\ skb'[x].size = skb[x].size
    BY <1>1, <1>2 DEF SkbState, netdev_alloc_flags, recycler_reset, skb_recycler_clear_flags
<1>4. QED
    BY <1>3 DEF Deliver, TypeOK, FlagsSound

(* A buffer straight from the slab is clean and not marked.                *)
LEMMA SlabClean ==
    ASSUME TypeOK, NEW z, SlabAlloc(z)
    PROVE  \/ UNCHANGED <<slab, held, skb>>
           \/ \E x \in slab :
                /\ slab' = slab \ {x} /\ held' = held \union {x}
                /\ skb'[x] = Fresh(z)
                /\ \A s \in Skbs : s # x => skb'[s] = skb[s]
BY DEF SlabAlloc, TypeOK

(* Where a buffer is cached, seen from the steps that move buffers.        *)
LEMMA AloneCached ==
    ASSUME NEW s, Alone(s), s \in slab \/ s \in held
    PROVE  ~Cached(s)
BY DEF Alone, Cached

(* Every step keeps the flags of each buffer true.                         *)
LEMMA FlagsStep ==
    ASSUME TypeOK, AllAlone, AllFlagsSound, [Next]_vars
    PROVE  AllFlagsSound'
<1> SUFFICES ASSUME NEW s \in Skbs PROVE FlagsSound(s)'
    BY DEF AllFlagsSound
<1> USE DEF lists, limits, cpus
<1>a. FlagsSound(s) /\ Alone(s)
    BY DEF AllFlagsSound, AllAlone
<1>c. s \in slab \/ s \in held => ~Cached(s)
    BY <1>a, AloneCached
<1>i. Idle.skbs = {}
    BY DEF Idle
<1>1. ASSUME NEW z, SlabAlloc(z), Cached(s)' => Cached(s) PROVE FlagsSound(s)'
    <2>1. CASE UNCHANGED <<slab, held, skb>>
        BY <1>1, <2>1, <1>a DEF FlagsSound
    <2>2. ASSUME NEW x \in slab, slab' = slab \ {x}, held' = held \union {x},
                 skb'[x] = Fresh(z), s # x => skb'[s] = skb[s]
          PROVE  FlagsSound(s)'
        BY <1>1, <2>2, <1>a, <1>c DEF FlagsSound, Fresh
    <2>3. QED
        BY <1>1, <2>1, <2>2, SlabClean
<1>2. ASSUME NEW x \in Skbs, NEW reset \in BOOLEAN, Deliver(x, reset), Cached(x),
             Cached(s)' => Cached(s)
      PROVE  FlagsSound(s)'
    <2>1. FlagsSound(x) /\ x \notin slab
        BY <1>2, AloneCached DEF AllFlagsSound, AllAlone
    <2>2. /\ skb'[x].shinfo = "clean" /\ ~skb'[x].fast /\ skb'[x].size = "std"
          /\ s # x => skb'[s] = skb[s]
          /\ held' = held \union {x} /\ UNCHANGED slab
        BY <1>2, <2>1, DeliverClean
    <2>3. QED
        BY <1>2, <2>2, <1>a DEF FlagsSound
<1>3. ASSUME NEW len, AllocSkip(len) PROVE FlagsSound(s)'
    BY <1>1, <1>3 DEF AllocSkip, Cached
<1>4. ASSUME NEW t \in Ctxs, NEW c, NEW reset, AllocEnter(t, c, reset) PROVE FlagsSound(s)'
    <2>1. \A u \in Ctxs : op'[u].skbs = op[u].skbs
        BY <1>4, <1>i DEF AllocEnter, Allocating, TypeOK
    <2>2. QED
        BY <1>4, <1>a, <2>1 DEF AllocEnter, FlagsSound, Cached
<1>5. ASSUME NEW t \in Ctxs, AllocHot(t) \/ AllocRefill(t) \/ AllocMiss(t)
      PROVE  FlagsSound(s)'
    <2>1. op[t].cpu \in CPUs /\ op[t].reset \in BOOLEAN /\ op[t].skbs = {}
        BY <1>5 DEF AllocHot, AllocRefill, AllocMiss, TypeOK, OpState, Idle
    <2>2. \A u \in Ctxs : op'[u].skbs = op[u].skbs
        BY <1>5, <1>i, <2>1 DEF AllocHot, AllocRefill, AllocMiss, TypeOK
    <2>3. CASE AllocHot(t)
        <3>1. PICK x \in recycle_list[op[t].cpu] :
                /\ recycle_list' = [recycle_list EXCEPT ![op[t].cpu] = @ \ {x}]
                /\ Deliver(x, op[t].reset) /\ UNCHANGED <<spare_list, pool>>
            BY <2>3 DEF AllocHot
        <3>2. x \in Skbs /\ Cached(x)
            BY <2>1 DEF TypeOK, Cached
        <3>3. Cached(s)' => Cached(s)
            BY <2>1, <2>2, <3>1 DEF Cached, TypeOK
        <3>4. QED
            BY <1>2, <2>1, <3>1, <3>2, <3>3
    <2>4. CASE AllocRefill(t)
        <3>1. head \in Slots /\ pool' = [pool EXCEPT ![head] = {}] /\ UNCHANGED spare_list
            BY <2>4 DEF AllocRefill, Spliced, TypeOK
        <3>2. CASE SlabAlloc("std") /\ UNCHANGED recycle_list
            <4>1. Cached(s)' => Cached(s)
                BY <2>2, <3>1, <3>2 DEF Cached, TypeOK
            <4>2. QED
                BY <1>1, <3>2, <4>1
        <3>3. ASSUME NEW x \in pool[head], Deliver(x, op[t].reset),
                     recycle_list' = [recycle_list EXCEPT ![op[t].cpu] = pool[head] \ {x}]
              PROVE  FlagsSound(s)'
            <4>1. x \in Skbs /\ Cached(x)
                BY <3>1 DEF TypeOK, Cached
            <4>2. Cached(s)' => Cached(s)
                BY <2>1, <2>2, <3>1, <3>3 DEF Cached, TypeOK
            <4>3. QED
                BY <1>2, <2>1, <3>3, <4>1, <4>2
        <3>4. QED
            BY <2>4, <3>2, <3>3 DEF AllocRefill
    <2>5. CASE AllocMiss(t)
        BY <1>1, <2>2, <2>5 DEF AllocMiss, Cached
    <2>6. QED
        BY <1>5, <2>3, <2>4, <2>5
<1>6. ASSUME NEW t \in Ctxs, NEW S \in SUBSET held, NEW c, op[t] = Idle,
             held' = held \ S, op' = [op EXCEPT ![t] = Putting(c, S)],
             UNCHANGED <<lists, slab>>, s \notin S => skb'[s] = skb[s],
             s \in S => /\ skb'[s].size = "std"
                        /\ skb'[s].fast \/ skb'[s].ds => skb'[s].shinfo = "clean"
      PROVE  FlagsSound(s)'
    <2>1. \A u \in Ctxs : op'[u].skbs = IF u = t THEN S ELSE op[u].skbs
        BY <1>6 DEF Putting, TypeOK
    <2>2. s \notin S /\ Cached(s)' => Cached(s)
        BY <1>6, <2>1 DEF Cached
    <2>3. s \notin S => FlagsSound(s)'
        BY <1>6, <1>a, <2>2 DEF FlagsSound
    <2>4. s \in S => FlagsSound(s)'
        BY <1>6 DEF FlagsSound
    <2>5. QED
        BY <2>3, <2>4
<1>7. ASSUME NEW t \in Ctxs, NEW c \in CPUs, NEW x \in Skbs, NEW m \in {"none", "fast", "ds"},
             ConsumeEnter(t, c, x, m)
      PROVE  FlagsSound(s)'
    <2>1. {x} \in SUBSET held /\ skb[x] \in SkbState /\ skb'[x] = Marked(skb[x], m)
        BY <1>7 DEF ConsumeEnter, TypeOK
    <2>2. FlagsSound(x) /\ x \notin slab /\ skb[x].size = "std" /\ MayMark(skb[x], m)
        BY <1>7, <2>1 DEF ConsumeEnter, AllFlagsSound, consume_skb_can_recycle, AllAlone, Alone
    <2>3. /\ skb'[x].size = "std"
          /\ skb'[x].fast \/ skb'[x].ds => skb'[x].shinfo = "clean"
        BY <2>1, <2>2 DEF FlagsSound, Marked, MayMark, SkbState
    <2>4. s # x => skb'[s] = skb[s]
        BY <1>7 DEF ConsumeEnter, TypeOK
    <2>5. QED
        BY <1>6, <1>7, <2>1, <2>3, <2>4 DEF ConsumeEnter
<1>8. ASSUME NEW t \in Ctxs, NEW c \in CPUs, NEW S \in Batches, ListFastEnter(t, c, S)
      PROVE  FlagsSound(s)'
    <2>1. S \in SUBSET held /\ skb[s] \in SkbState
        BY DEF Batches, TypeOK
    <2>2. skb'[s] = IF s \in S THEN Marked(skb[s], "fast") ELSE skb[s]
        BY <1>8 DEF ListFastEnter
    <2>3. ASSUME s \in S
          PROVE  /\ skb'[s].size = "std"
                 /\ skb'[s].fast \/ skb'[s].ds => skb'[s].shinfo = "clean"
        <3>1. s \in held /\ MayMark(skb[s], "fast")
            BY <1>8, <2>1, <2>3 DEF ListFastEnter
        <3>2. QED
            BY <1>a, <2>1, <2>2, <2>3, <3>1 DEF FlagsSound, Marked, MayMark, SkbState
    <2>4. QED
        BY <1>6, <1>8, <2>1, <2>2, <2>3 DEF ListFastEnter
<1>9. ASSUME held' \in SUBSET held, slab \in SUBSET slab', UNCHANGED skb,
             Cached(s)' => Cached(s)
      PROVE  FlagsSound(s)'
    BY <1>9, <1>a DEF FlagsSound
<1>10. ASSUME NEW x, NEW plain, ConsumeRefuse(x, plain) PROVE FlagsSound(s)'
    BY <1>9, <1>10 DEF ConsumeRefuse, Free, Cached
<1>11. ASSUME NEW S, ListFastRefuse(S) PROVE FlagsSound(s)'
    BY <1>9, <1>11 DEF ListFastRefuse, Free, Cached
<1>12. ASSUME NEW t \in Ctxs, PutHot(t) \/ PutSpare(t) \/ PutGlobal(t) \/ PutFull(t)
       PROVE  FlagsSound(s)'
    <2>1. op[t].cpu \in CPUs /\ UNCHANGED <<held, skb>>
        BY <1>12, OpShape DEF PutHot, PutSpare, PutGlobal, PutFull
    <2>2. \A u \in Ctxs : op'[u].skbs = IF u = t THEN {} ELSE op[u].skbs
        BY <1>12, <1>i DEF PutHot, PutSpare, PutGlobal, PutFull, TypeOK
    <2>3. slab \in SUBSET slab'
        BY <1>12 DEF PutHot, PutSpare, PutGlobal, PutFull, Free
    <2>4. PutHot(t) => (Cached(s)' => Cached(s))
        BY <2>1, <2>2 DEF PutHot, Cached, TypeOK
    <2>5. PutSpare(t) => (Cached(s)' => Cached(s))
        BY <2>1, <2>2 DEF PutSpare, Cached, TypeOK
    <2>6. PutGlobal(t) => (Cached(s)' => Cached(s))
        BY <2>1, <2>2 DEF PutGlobal, Cached, TypeOK
    <2>7. PutFull(t) => (Cached(s)' => Cached(s))
        BY <2>1, <2>2 DEF PutFull, Cached, TypeOK
    <2>8. QED
        BY <1>9, <1>12, <2>1, <2>3, <2>4, <2>5, <2>6, <2>7
<1>13. ASSUME NEW x \in Skbs, HostTouch(x) PROVE FlagsSound(s)'
    <2>1. /\ x \in held /\ UNCHANGED <<held, slab>> /\ (Cached(s)' <=> Cached(s))
          /\ skb[s] \in SkbState
        BY <1>13 DEF HostTouch, Cached, TypeOK
    <2>2. skb'[s] = IF s = x THEN [skb[s] EXCEPT !.shinfo = "dirty", !.ds = FALSE] ELSE skb[s]
        BY <1>13 DEF HostTouch, TypeOK
    <2>3. QED
        BY <1>a, <1>c, <2>1, <2>2 DEF FlagsSound, SkbState
<1>14. ASSUME NEW x \in Skbs, NEW z \in {"std", "other"}, pskb_expand_head(x, z)
       PROVE  FlagsSound(s)'
    <2>1. /\ x \in held /\ UNCHANGED <<held, slab>> /\ (Cached(s)' <=> Cached(s))
          /\ skb[s] \in SkbState
        BY <1>14 DEF pskb_expand_head, Cached, TypeOK
    <2>2. skb'[s] = IF s = x THEN skb_recycler_clear_flags([skb[s] EXCEPT !.size = z])
                    ELSE skb[s]
        BY <1>14 DEF pskb_expand_head, TypeOK
    <2>3. QED
        BY <1>a, <1>c, <2>1, <2>2 DEF FlagsSound, SkbState, skb_recycler_clear_flags
<1>15. CASE FlushStart
    BY <1>9, <1>15 DEF FlushStart, Cached
<1>16. CASE FlushGlobal
    BY <1>9, <1>16 DEF FlushGlobal, Free, Cached
<1>17. ASSUME NEW c \in CPUs, FlushHot(c) \/ FlushSpare(c) PROVE FlagsSound(s)'
    BY <1>9, <1>17 DEF FlushHot, FlushSpare, Free, Spliced, Cached, TypeOK
<1>18. ASSUME NEW c \in CPUs, skb_cpu_callback(c) \/ CpuUp(c) PROVE FlagsSound(s)'
    BY <1>9, <1>18 DEF skb_cpu_callback, CpuUp, Free, Spliced, Cached, TypeOK
<1>19. CASE Procfs
    BY <1>9, <1>19 DEF Procfs, WriteMaxSkbs, WriteMaxSpare, WriteMaxSkbsCpu,
                       WriteMaxSpareCpu, WriteEnable, Cached
<1>20. CASE UNCHANGED vars
    BY <1>9, <1>20 DEF vars, Cached
<1>21. QED
    BY <1>3, <1>4, <1>5, <1>7, <1>8, <1>10, <1>11, <1>12, <1>13, <1>14, <1>15, <1>16,
       <1>17, <1>18, <1>19, <1>20
       DEF Next, Alloc, Consume, Host, Flush, Hotplug

(* Types, ownership and flags together hold for ever.                      *)
LEMMA AlwaysFlags == Spec => [](TypeOK /\ AllAlone /\ AllFlagsSound)
<1>1. Init => AllAlone
    BY DEF Init, AllAlone, Alone, Idle
<1>2. Init => AllFlagsSound
    BY DEF Init, AllFlagsSound, FlagsSound, Cached, Idle
<1>3. QED
    BY <1>1, <1>2, TypeCorrect, AloneStep, FlagsStep, PTL DEF Spec

(* What is cached can be used again: it has the recycle size, and if alloc *)
(* will not zero its shinfo then that is clean, whichever of the normal,   *)
(* the fast and the DS path released it and however often it went round.   *)
THEOREM CacheAlwaysReusable == Spec => []CachedReusable
<1>1. AllAlone /\ AllFlagsSound => CachedReusable
    BY AloneCached DEF CachedReusable, AllFlagsSound, FlagsSound, AllAlone
<1>2. QED
    BY <1>1, AlwaysFlags, PTL

(* A step that gives out buffers takes them from the slab or from a list,  *)
(* clean and with fast_recycled off.                                       *)
GivesClean ==
    \A s \in held' \ held :
        /\ skb'[s].shinfo = "clean" /\ ~skb'[s].fast
        /\ s \notin slab => skb'[s].size = "std"

LEMMA CleanStep ==
    ASSUME TypeOK, AllAlone, AllFlagsSound, [Next]_vars
    PROVE  GivesClean
<1> USE DEF lists, limits, cpus
<1>1. ASSUME NEW z, SlabAlloc(z) PROVE GivesClean
    <2>1. CASE UNCHANGED <<slab, held, skb>>
        BY <2>1 DEF GivesClean
    <2>2. ASSUME NEW x \in slab, held' = held \union {x}, skb'[x] = Fresh(z)
          PROVE  GivesClean
        BY <2>2 DEF GivesClean, Fresh
    <2>3. QED
        BY <1>1, <2>1, <2>2, SlabClean
<1>2. ASSUME NEW x \in Skbs, NEW reset \in BOOLEAN, Deliver(x, reset), Cached(x)
      PROVE  GivesClean
    <2>1. FlagsSound(x) /\ x \notin slab
        BY <1>2, AloneCached DEF AllFlagsSound, AllAlone
    <2>2. /\ skb'[x].shinfo = "clean" /\ ~skb'[x].fast /\ skb'[x].size = "std"
          /\ held' = held \union {x}
        BY <1>2, <2>1, DeliverClean
    <2>3. QED
        BY <2>2 DEF GivesClean
<1>3. ASSUME held' \in SUBSET held PROVE GivesClean
    BY <1>3 DEF GivesClean
<1>4. ASSUME NEW len, AllocSkip(len) PROVE GivesClean
    BY <1>1, <1>4 DEF AllocSkip
<1>5. ASSUME NEW t \in Ctxs, NEW c, NEW reset, AllocEnter(t, c, reset) PROVE GivesClean
    BY <1>3, <1>5 DEF AllocEnter
<1>6. ASSUME NEW t \in Ctxs, AllocHot(t) PROVE GivesClean
    <2>1. op[t].cpu \in CPUs /\ op[t].reset \in BOOLEAN
        BY <1>6, OpShape DEF AllocHot
    <2>2. PICK x \in recycle_list[op[t].cpu] : Deliver(x, op[t].reset)
        BY <1>6 DEF AllocHot
    <2>3. x \in Skbs /\ Cached(x)
        BY <2>1 DEF TypeOK, Cached
    <2>4. QED
        BY <1>2, <2>1, <2>2, <2>3
<1>7. ASSUME NEW t \in Ctxs, AllocRefill(t) PROVE GivesClean
    <2>1. op[t].reset \in BOOLEAN /\ head \in Slots
        BY <1>7, OpShape DEF AllocRefill, TypeOK
    <2>2. ASSUME NEW x \in pool[head], Deliver(x, op[t].reset) PROVE GivesClean
        <3>1. x \in Skbs /\ Cached(x)
            BY <2>1 DEF TypeOK, Cached
        <3>2. QED
            BY <1>2, <2>1, <2>2, <3>1
    <2>3. QED
        BY <1>1, <1>7, <2>2 DEF AllocRefill
<1>8. ASSUME NEW t \in Ctxs, AllocMiss(t) PROVE GivesClean
    BY <1>1, <1>8 DEF AllocMiss
<1>9. CASE Consume
    BY <1>3, <1>9 DEF Consume, ConsumeEnter, ConsumeRefuse, ListFastEnter, ListFastRefuse,
                      PutHot, PutSpare, PutGlobal, PutFull
<1>10. CASE Host \/ Flush
    BY <1>3, <1>10 DEF Host, HostTouch, pskb_expand_head, Flush, FlushStart, FlushHot,
                       FlushSpare, FlushGlobal
<1>11. CASE Hotplug \/ Procfs
    BY <1>3, <1>11 DEF Hotplug, skb_cpu_callback, CpuUp, Procfs, WriteMaxSkbs, WriteMaxSpare,
                       WriteMaxSkbsCpu, WriteMaxSpareCpu, WriteEnable
<1>12. CASE UNCHANGED vars
    BY <1>3, <1>12 DEF vars
<1>13. QED
    BY <1>4, <1>5, <1>6, <1>7, <1>8, <1>9, <1>10, <1>11, <1>12 DEF Next, Alloc

(* Every allocation, from the slab, the hot list or a global pool, gives   *)
(* its caller a clean buffer, although alloc zeroes shinfo only when the   *)
(* flags of the buffer's previous life do not tell it to skip that.        *)
THEOREM AllocationsClean == Spec => AllocDeliversClean
<1>1. TypeOK /\ AllAlone /\ AllFlagsSound /\ [Next]_vars => [GivesClean]_vars
    BY CleanStep
<1>2. Spec => [][GivesClean]_vars
    BY <1>1, AlwaysFlags, PTL DEF Spec
<1>3. QED
    BY <1>2 DEF GivesClean, AllocDeliversClean
-----------------------------------------------------------------------------
(* How long the lists get *)

(* The lengths the bound is about are numbers, and grow with the list.     *)
LEMMA Lengths ==
    ASSUME NEW A \in SUBSET Skbs, NEW B \in SUBSET Skbs
    PROVE  /\ Cardinality(A) \in Nat
           /\ A \subseteq B => Cardinality(A) <= Cardinality(B)
           /\ Cardinality(A \union B) <= Cardinality(A) + Cardinality(B)
<1>1. IsFiniteSet(A) /\ IsFiniteSet(B)
    BY SkbsAssumption, FS_Subset
<1>2. /\ Cardinality(A) \in Nat /\ Cardinality(B) \in Nat
      /\ A \subseteq B => Cardinality(A) <= Cardinality(B)
    BY <1>1, FS_CardinalityType, FS_Subset
<1>3. Cardinality(A \union B) = Cardinality(A) + Cardinality(B) - Cardinality(A \intersect B)
    BY <1>1, FS_Union
<1>4. Cardinality(A \intersect B) \in Nat
    <2>1. IsFiniteSet(A \intersect B)
        BY <1>1, FS_Intersection
    <2>2. QED
        BY <2>1, FS_CardinalityType
<1>5. QED
    BY <1>2, <1>3, <1>4

(* A release carries at most one batch.                                    *)
BatchesBounded == \A t \in Ctxs : Cardinality(op[t].skbs) <= MaxBatch

(* Nothing in flight and a single buffer are batches.                      *)
LEMMA SmallBatches ==
    ASSUME NEW s \in Skbs
    PROVE  Cardinality({}) <= MaxBatch /\ Cardinality({s}) <= MaxBatch
<1>1. Cardinality({}) = 0 /\ Cardinality({s}) = 1
    BY FS_EmptySet, FS_Singleton, Zenon
<1>2. QED
    BY <1>1, BatchAssumption

(* The slot the ring is about to fill is empty.                            *)
LEMMA TailEmpty ==
    ASSUME TypeOK, RingExact
    PROVE  pool[tail] = {}
<1>1. tail \in Slots /\ head \in Slots /\ ~InRing(tail)
    BY DEF TypeOK, InRing, Slots
<1>2. QED
    BY <1>1 DEF RingExact

(* A list that was below its limit takes in one batch at most.             *)
LEMMA OneBatchMore ==
    ASSUME NEW A \in SUBSET Skbs, NEW B \in SUBSET Skbs, NEW lim \in Limits,
           ~(Cardinality(A) >= lim), Cardinality(B) <= MaxBatch
    PROVE  Cardinality(A \union B) <= ListCap
<1>1. /\ Cardinality(A) \in Nat /\ Cardinality(B) \in Nat
      /\ Cardinality(A \union B) <= Cardinality(A) + Cardinality(B)
    BY Lengths
<1>2. Cardinality(A \union B) \in Nat
    BY Lengths
<1>3. QED
    BY <1>1, <1>2, LimitAssumption, BatchAssumption DEF Limits, ListCap

(* Every step keeps the lists and the batches bounded.                     *)
LEMMA BoundedStep ==
    ASSUME TypeOK, RingExact, ListsBounded, BatchesBounded, [Next]_vars
    PROVE  ListsBounded' /\ BatchesBounded'
<1> USE DEF lists, limits, cpus
<1>c. ListCap \in Nat /\ MaxBatch \in Nat /\ MaxBatch <= ListCap
    BY LimitAssumption, BatchAssumption DEF ListCap
<1>n. \A A \in SUBSET Skbs : Cardinality(A) \in Nat
    BY Lengths
<1>e. Cardinality({}) <= MaxBatch /\ Cardinality({}) <= ListCap
    <2>1. Cardinality({}) = 0
        BY FS_EmptySet
    <2>2. QED
        BY <2>1, <1>c
<1>i. Idle.skbs = {}
    BY DEF Idle
<1>1. ASSUME \A c \in CPUs : \/ recycle_list'[c] = recycle_list[c]
                             \/ Cardinality(recycle_list'[c]) <= ListCap,
             \A c \in CPUs : \/ spare_list'[c] = spare_list[c]
                             \/ Cardinality(spare_list'[c]) <= ListCap,
             \A i \in Slots : pool'[i] = pool[i] \/ Cardinality(pool'[i]) <= ListCap
      PROVE  ListsBounded'
    <2>1. ListCap' = ListCap /\ Slots' = Slots
        BY DEF ListCap, Slots
    <2>2. QED
        BY <1>1, <2>1 DEF ListsBounded
<1>2. ASSUME \A t \in Ctxs : \/ op'[t].skbs = op[t].skbs
                             \/ Cardinality(op'[t].skbs) <= MaxBatch
      PROVE  BatchesBounded'
    BY <1>2 DEF BatchesBounded
<1>3. ASSUME NEW t \in Ctxs, op' = [op EXCEPT ![t] = Idle]
      PROVE  BatchesBounded'
    BY <1>2, <1>3, <1>i, <1>e DEF TypeOK
<1>4. ASSUME UNCHANGED lists PROVE ListsBounded'
    BY <1>1, <1>4
<1>5. ASSUME NEW len, AllocSkip(len) PROVE ListsBounded' /\ BatchesBounded'
    BY <1>2, <1>4, <1>5 DEF AllocSkip
<1>6. ASSUME NEW t \in Ctxs, NEW S, Cardinality(S) <= MaxBatch, NEW o, o.skbs = S,
             op' = [op EXCEPT ![t] = o], UNCHANGED lists
      PROVE  ListsBounded' /\ BatchesBounded'
    BY <1>2, <1>4, <1>6 DEF TypeOK
<1>7. ASSUME NEW t \in Ctxs, NEW c, NEW reset, AllocEnter(t, c, reset)
      PROVE  ListsBounded' /\ BatchesBounded'
    BY <1>6, <1>7, <1>e DEF AllocEnter, Allocating
<1>8. ASSUME NEW t \in Ctxs, AllocHot(t) PROVE ListsBounded' /\ BatchesBounded'
    <2>1. op[t].cpu \in CPUs
        BY <1>8, OpShape DEF AllocHot
    <2>2. PICK x : /\ recycle_list' = [recycle_list EXCEPT ![op[t].cpu] = @ \ {x}]
                   /\ UNCHANGED <<spare_list, pool>>
        BY <1>8 DEF AllocHot
    <2>3. Cardinality(recycle_list[op[t].cpu] \ {x}) <= ListCap
        <3>1. recycle_list[op[t].cpu] \in SUBSET Skbs
            BY <2>1 DEF TypeOK
        <3>2. /\ Cardinality(recycle_list[op[t].cpu] \ {x}) <= Cardinality(recycle_list[op[t].cpu])
              /\ recycle_list[op[t].cpu] \ {x} \in SUBSET Skbs
            BY <3>1, Lengths
        <3>3. QED
            BY <1>c, <1>n, <2>1, <3>1, <3>2 DEF ListsBounded
    <2>4. ListsBounded'
        BY <1>1, <2>1, <2>2, <2>3 DEF TypeOK
    <2>5. QED
        BY <1>3, <1>8, <2>4 DEF AllocHot
<1>9. ASSUME NEW t \in Ctxs, AllocRefill(t) PROVE ListsBounded' /\ BatchesBounded'
    <2>1. /\ op[t].cpu \in CPUs /\ head \in Slots /\ UNCHANGED spare_list
          /\ pool' = [pool EXCEPT ![head] = {}]
        BY <1>9, OpShape DEF AllocRefill, TypeOK, Spliced
    <2>2. ASSUME UNCHANGED recycle_list PROVE ListsBounded'
        BY <1>1, <1>e, <2>1, <2>2 DEF TypeOK
    <2>3. ASSUME NEW x, recycle_list' = [recycle_list EXCEPT ![op[t].cpu] = pool[head] \ {x}]
          PROVE  ListsBounded'
        <3>1. pool[head] \in SUBSET Skbs
            BY <2>1 DEF TypeOK
        <3>2. Cardinality(pool[head] \ {x}) <= Cardinality(pool[head])
            BY <3>1, Lengths
        <3>3. Cardinality(pool[head] \ {x}) <= ListCap
            BY <1>c, <1>n, <2>1, <3>1, <3>2 DEF ListsBounded
        <3>4. QED
            BY <1>1, <1>e, <2>1, <2>3, <3>3 DEF TypeOK
    <2>4. ListsBounded'
        BY <1>9, <2>2, <2>3 DEF AllocRefill
    <2>5. QED
        BY <1>3, <1>9, <2>4 DEF AllocRefill
<1>10. ASSUME NEW t \in Ctxs, AllocMiss(t) PROVE ListsBounded' /\ BatchesBounded'
    BY <1>3, <1>4, <1>10 DEF AllocMiss
<1>11. ASSUME NEW t \in Ctxs, NEW c, NEW x \in Skbs, NEW m, ConsumeEnter(t, c, x, m)
       PROVE  ListsBounded' /\ BatchesBounded'
    BY <1>6, <1>11, SmallBatches DEF ConsumeEnter, Putting
<1>12. ASSUME NEW t \in Ctxs, NEW c, NEW S \in Batches, ListFastEnter(t, c, S)
       PROVE  ListsBounded' /\ BatchesBounded'
    BY <1>6, <1>12 DEF ListFastEnter, Putting, Batches
<1>13. ASSUME UNCHANGED <<lists, op>> PROVE ListsBounded' /\ BatchesBounded'
    BY <1>2, <1>4, <1>13
<1>14. ASSUME NEW x, NEW plain, ConsumeRefuse(x, plain) PROVE ListsBounded' /\ BatchesBounded'
    BY <1>13, <1>14 DEF ConsumeRefuse
<1>15. ASSUME NEW S, ListFastRefuse(S) PROVE ListsBounded' /\ BatchesBounded'
    BY <1>13, <1>15 DEF ListFastRefuse
<1>16. ASSUME NEW t \in Ctxs, PutHot(t) \/ PutSpare(t) \/ PutGlobal(t) \/ PutFull(t)
       PROVE  ListsBounded' /\ BatchesBounded'
    <2>1. /\ op[t].cpu \in CPUs /\ op[t].lim \in Limits /\ op[t].skbs \in SUBSET Skbs
          /\ Cardinality(op[t].skbs) <= MaxBatch
        BY <1>16, OpShape DEF PutHot, PutSpare, PutGlobal, PutFull, BatchesBounded
    <2>2. /\ recycle_list[op[t].cpu] \in SUBSET Skbs /\ spare_list[op[t].cpu] \in SUBSET Skbs
          /\ max_spare[op[t].cpu] \in Limits /\ tail \in Slots
        BY <2>1 DEF TypeOK
    <2>3. BatchesBounded'
        BY <1>3, <1>16 DEF PutHot, PutSpare, PutGlobal, PutFull
    <2>4. CASE PutHot(t)
        <3>1. Cardinality(recycle_list[op[t].cpu] \union op[t].skbs) <= ListCap
            BY <2>1, <2>2, <2>4, OneBatchMore DEF PutHot, HotFull
        <3>2. QED
            BY <1>1, <2>1, <2>3, <2>4, <3>1 DEF PutHot, TypeOK
    <2>5. CASE PutSpare(t)
        <3>1. Cardinality(spare_list[op[t].cpu] \union op[t].skbs) <= ListCap
            BY <2>1, <2>2, <2>5, OneBatchMore DEF PutSpare, SpareFull
        <3>2. QED
            BY <1>1, <2>1, <2>3, <2>5, <3>1 DEF PutSpare, TypeOK
    <2>6. CASE PutGlobal(t)
        <3>1. pool[tail] \union spare_list[op[t].cpu] = spare_list[op[t].cpu]
            BY TailEmpty
        <3>2. /\ pool' = [pool EXCEPT ![tail] = spare_list[op[t].cpu]]
              /\ spare_list' = [spare_list EXCEPT ![op[t].cpu] = op[t].skbs]
              /\ UNCHANGED recycle_list
            BY <2>6, <3>1 DEF PutGlobal
        <3>3. Cardinality(spare_list[op[t].cpu]) <= ListCap
            BY <2>1 DEF ListsBounded
        <3>4. Cardinality(op[t].skbs) <= ListCap
            BY <1>c, <1>n, <2>1
        <3>5. QED
            BY <1>1, <2>1, <2>2, <2>3, <3>2, <3>3, <3>4 DEF TypeOK
    <2>7. CASE PutFull(t)
        BY <1>4, <2>3, <2>7 DEF PutFull
    <2>8. QED
        BY <1>16, <2>4, <2>5, <2>6, <2>7
<1>17. CASE Host
    BY <1>13, <1>17 DEF Host, HostTouch, pskb_expand_head
<1>18. ASSUME \A c \in CPUs : recycle_list'[c] \in {recycle_list[c], {}},
              \A c \in CPUs : spare_list'[c] \in {spare_list[c], {}},
              \A i \in Slots : pool'[i] \in {pool[i], {}}, UNCHANGED op
       PROVE  ListsBounded' /\ BatchesBounded'
    BY <1>1, <1>2, <1>18, <1>e
<1>19. CASE FlushStart
    BY <1>13, <1>19 DEF FlushStart
<1>20. CASE FlushGlobal
    BY <1>18, <1>20 DEF FlushGlobal
<1>21. ASSUME NEW c \in CPUs, FlushHot(c) \/ FlushSpare(c)
       PROVE  ListsBounded' /\ BatchesBounded'
    BY <1>18, <1>21 DEF FlushHot, FlushSpare, Spliced, TypeOK
<1>22. ASSUME NEW c \in CPUs, skb_cpu_callback(c) \/ CpuUp(c)
       PROVE  ListsBounded' /\ BatchesBounded'
    BY <1>18, <1>22 DEF skb_cpu_callback, CpuUp, Spliced, TypeOK
<1>23. CASE Procfs
    BY <1>13, <1>23 DEF Procfs, WriteMaxSkbs, WriteMaxSpare, WriteMaxSkbsCpu,
                        WriteMaxSpareCpu, WriteEnable
<1>24. CASE UNCHANGED vars
    BY <1>13, <1>24 DEF vars
<1>25. QED
    BY <1>5, <1>7, <1>8, <1>9, <1>10, <1>11, <1>12, <1>14, <1>15, <1>16, <1>17, <1>19,
       <1>20, <1>21, <1>22, <1>23, <1>24
       DEF Next, Alloc, Consume, Flush, Hotplug

(* No list outgrows the largest limit by a whole batch, for every limit,   *)
(* batch size and number of CPUs: the ring never merges two spare lists.   *)
THEOREM ListsStayBounded == Spec => []ListsBounded
<1>1. Init => ListsBounded /\ BatchesBounded
    <2>1. Cardinality({}) = 0
        BY FS_EmptySet
    <2>2. 0 <= ListCap /\ 0 <= MaxBatch
        BY LimitAssumption, BatchAssumption DEF ListCap
    <2> SUFFICES ASSUME Init PROVE ListsBounded /\ BatchesBounded
        OBVIOUS
    <2>3. /\ \A c \in CPUs : recycle_list[c] = {} /\ spare_list[c] = {}
          /\ \A i \in Slots : pool[i] = {}
          /\ \A t \in Ctxs : op[t].skbs = {}
        BY DEF Init, Idle
    <2>4. QED
        BY <2>1, <2>2, <2>3 DEF ListsBounded, BatchesBounded
<1>2. QED
    BY <1>1, TypeCorrect, RingNeverOverrun, BoundedStep, PTL DEF Spec
-----------------------------------------------------------------------------
(* The recycler implements SkbPool *)

(* The refinement mapping: what the pool sees of the lists, of unfinished  *)
(* releases and of skb_shared_info.                                        *)
Returning == UNION {op[t].skbs : t \in Ctxs}
Listed == (UNION {recycle_list[c] \union spare_list[c] : c \in CPUs})
            \union (UNION {pool[i] : i \in Slots})
Clean == {s \in Skbs : skb[s].shinfo = "clean"}

(* The mapping, buffer by buffer.                                          *)
OnList(s) ==
    \/ \E c \in CPUs : s \in recycle_list[c]
    \/ \E c \in CPUs : s \in spare_list[c]
    \/ \E i \in Slots : s \in pool[i]
InOp(s) == \E t \in Ctxs : s \in op[t].skbs

LEMMA Mapped ==
    /\ \A s : s \in Listed <=> OnList(s)
    /\ \A s : s \in Listed' <=> OnList(s)'
    /\ \A s : s \in Returning <=> InOp(s)
    /\ \A s : s \in Returning' <=> InOp(s)'
<1>1. \A s : s \in Listed <=> OnList(s)
    BY DEF Listed, OnList
<1>2. \A s : s \in Listed' <=> OnList(s)'
    BY DEF Listed, OnList
<1>3. \A s : s \in Returning <=> InOp(s)
    BY DEF Returning, InOp
<1>4. \A s : s \in Returning' <=> InOp(s)'
    BY DEF Returning, InOp
<1>5. QED
    BY <1>1, <1>2, <1>3, <1>4

(* The steps of the pool, in terms of the mapping.                         *)
LEMMA IsAcquire ==
    ASSUME NEW x \in Skbs, x \in slab \union Listed,
           slab' = slab \ {x}, held' = held \union {x}, Clean' = Clean \union {x},
           Listed' = Listed \ {x}, Returning' = Returning
    PROVE  Pool!Next
<1>1. Pool!Acquire(x)
    BY DEF Pool!Acquire, Listed, Returning, Clean
<1>2. QED
    BY <1>1 DEF Pool!Next

LEMMA IsUse ==
    ASSUME NEW x \in held, x \in Skbs, Clean' = Clean \ {x},
           UNCHANGED <<slab, held>>, Listed' = Listed, Returning' = Returning
    PROVE  Pool!Next
<1>1. Pool!Use(x)
    BY DEF Pool!Use, Listed, Returning, Clean
<1>2. QED
    BY <1>1 DEF Pool!Next

LEMMA IsRelease ==
    ASSUME NEW S \in SUBSET Skbs, S \in SUBSET held, held' = held \ S,
           \/ Returning' = Returning \union S /\ UNCHANGED slab
           \/ slab' = slab \union S /\ Returning' = Returning,
           Listed' = Listed, Clean' = Clean
    PROVE  Pool!Next
<1>1. Pool!Release(S)
    BY DEF Pool!Release, Listed, Returning, Clean
<1>2. QED
    BY <1>1 DEF Pool!Next

LEMMA IsSettle ==
    ASSUME NEW S \in SUBSET Skbs, S \in SUBSET Returning, Returning' = Returning \ S,
           \/ Listed' = Listed \union S /\ UNCHANGED slab
           \/ slab' = slab \union S /\ Listed' = Listed,
           UNCHANGED held, Clean' = Clean
    PROVE  Pool!Next
<1>1. Pool!Settle(S)
    BY DEF Pool!Settle, Listed, Returning, Clean
<1>2. QED
    BY <1>1 DEF Pool!Next

LEMMA IsReclaim ==
    ASSUME NEW S \in SUBSET Skbs, S \in SUBSET Listed, Listed' = Listed \ S,
           slab' = slab \union S, UNCHANGED held, Clean' = Clean, Returning' = Returning
    PROVE  Pool!Next
<1>1. Pool!Reclaim(S)
    BY DEF Pool!Reclaim, Listed, Returning, Clean
<1>2. QED
    BY <1>1 DEF Pool!Next

LEMMA IsStutter ==
    ASSUME UNCHANGED <<slab, held>>, Listed' = Listed, Returning' = Returning, Clean' = Clean
    PROVE  UNCHANGED Pool!vars
BY DEF Pool!vars, Listed, Returning, Clean

(* Every step of the recycler is a step of the pool or leaves it alone.    *)
LEMMA PoolStep ==
    ASSUME TypeOK, AllAlone, AllFlagsSound, [Next]_vars
    PROVE  Pool!Next \/ UNCHANGED Pool!vars
<1> DEFINE Good == Pool!Next \/ UNCHANGED Pool!vars
<1> SUFFICES Good
    OBVIOUS
<1> HIDE DEF Good
<1>g. (Pool!Next => Good) /\ (UNCHANGED Pool!vars => Good)
    BY DEF Good
<1> USE DEF lists, limits, cpus
<1>i. Idle.skbs = {}
    BY DEF Idle
<1>t. Listed \in SUBSET Skbs /\ slab \in SUBSET Skbs /\ held \in SUBSET Skbs
    BY Mapped DEF TypeOK, OnList
<1>1. ASSUME skb' = skb PROVE Clean' = Clean
    BY <1>1 DEF Clean
<1>2. ASSUME \A t \in Ctxs : op'[t].skbs = op[t].skbs PROVE Returning' = Returning
    BY <1>2 DEF Returning
<1>3. ASSUME UNCHANGED <<recycle_list, spare_list, pool>> PROVE Listed' = Listed
    BY <1>3 DEF Listed
<1>4. ASSUME NEW x \in Skbs, skb'[x].shinfo = "clean", \A s \in Skbs : s # x => skb'[s] = skb[s]
      PROVE  Clean' = Clean \union {x}
    BY <1>4 DEF Clean
<1>5. \A s \in Skbs : OnList(s) => s \notin slab
    BY DEF AllAlone, Alone, OnList
<1>6. ASSUME NEW z, SlabAlloc(z), Listed' = Listed, Returning' = Returning PROVE Good
    <2>1. CASE UNCHANGED <<slab, held, skb>>
        BY <1>1, <1>6, <1>g, <2>1, IsStutter
    <2>2. ASSUME NEW x \in slab, slab' = slab \ {x}, held' = held \union {x},
                 skb'[x] = Fresh(z), \A s \in Skbs : s # x => skb'[s] = skb[s]
          PROVE  Good
        <3>1. x \in Skbs /\ Listed' = Listed \ {x}
            BY <1>5, <1>6, <1>t, Mapped
        <3>2. Clean' = Clean \union {x}
            BY <1>4, <2>2, <3>1 DEF Fresh
        <3>3. QED
            BY <1>6, <1>g, <2>2, <3>1, <3>2, IsAcquire
    <2>3. QED
        BY <1>6, <2>1, <2>2, SlabClean
<1>7. ASSUME NEW x \in Skbs, NEW reset \in BOOLEAN, Deliver(x, reset), OnList(x),
             Listed' = Listed \ {x}, Returning' = Returning
      PROVE  Good
    <2>1. FlagsSound(x) /\ x \notin slab /\ Cached(x)
        BY <1>5, <1>7 DEF AllFlagsSound, OnList, Cached
    <2>2. /\ skb'[x].shinfo = "clean" /\ \A s \in Skbs : s # x => skb'[s] = skb[s]
          /\ held' = held \union {x} /\ slab' = slab \ {x}
        BY <1>7, <2>1, DeliverClean
    <2>3. Clean' = Clean \union {x} /\ x \in Listed
        BY <1>4, <1>7, <2>2, Mapped
    <2>4. QED
        BY <1>7, <1>g, <2>2, <2>3, IsAcquire
<1>8. ASSUME NEW len, AllocSkip(len) PROVE Good
    BY <1>2, <1>3, <1>6, <1>8 DEF AllocSkip
<1>9. ASSUME NEW t \in Ctxs, NEW c, NEW reset, AllocEnter(t, c, reset) PROVE Good
    <2>1. \A u \in Ctxs : op'[u].skbs = op[u].skbs
        BY <1>9, <1>i DEF AllocEnter, Allocating, TypeOK
    <2>2. QED
        BY <1>1, <1>2, <1>3, <1>9, <1>g, <2>1, IsStutter DEF AllocEnter
<1>10. ASSUME NEW t \in Ctxs, AllocHot(t) \/ AllocRefill(t) \/ AllocMiss(t) PROVE Good
    <2>1. op[t].cpu \in CPUs /\ op[t].reset \in BOOLEAN /\ op[t].skbs = {}
        BY <1>10 DEF AllocHot, AllocRefill, AllocMiss, TypeOK, OpState, Idle
    <2>2. \A u \in Ctxs : op'[u].skbs = op[u].skbs
        BY <1>10, <1>i, <2>1 DEF AllocHot, AllocRefill, AllocMiss, TypeOK
    <2>3. CASE AllocHot(t)
        <3>1. PICK x \in recycle_list[op[t].cpu] :
                /\ recycle_list' = [recycle_list EXCEPT ![op[t].cpu] = @ \ {x}]
                /\ Deliver(x, op[t].reset) /\ UNCHANGED <<spare_list, pool>>
            BY <2>3 DEF AllocHot
        <3>2. x \in Skbs /\ OnList(x) /\ Alone(x)
            BY <2>1 DEF TypeOK, OnList, AllAlone
        <3>3. \A s : OnList(s)' <=> OnList(s) /\ s # x
            BY <2>1, <3>1, <3>2 DEF OnList, Alone, TypeOK
        <3>4. Listed' = Listed \ {x}
            BY <3>3, Mapped
        <3>5. QED
            BY <1>2, <1>7, <2>1, <2>2, <3>1, <3>2, <3>4
    <2>4. CASE AllocRefill(t)
        <3>1. /\ head \in Slots /\ pool' = [pool EXCEPT ![head] = {}] /\ UNCHANGED spare_list
              /\ recycle_list[op[t].cpu] = {}
            BY <2>4 DEF AllocRefill, Spliced, TypeOK
        <3>2. CASE pool[head] = {} /\ SlabAlloc("std") /\ UNCHANGED recycle_list
            <4>1. \A s : OnList(s)' <=> OnList(s)
                BY <3>1, <3>2 DEF OnList, TypeOK
            <4>2. Listed' = Listed
                BY <4>1, Mapped
            <4>3. QED
                BY <1>2, <1>6, <2>2, <3>2, <4>2
        <3>3. ASSUME NEW x \in pool[head], Deliver(x, op[t].reset),
                     recycle_list' = [recycle_list EXCEPT ![op[t].cpu] = pool[head] \ {x}]
              PROVE  Good
            <4>1. x \in Skbs /\ OnList(x) /\ Alone(x)
                BY <3>1 DEF TypeOK, OnList, AllAlone
            <4>2. \A s : OnList(s)' <=> OnList(s) /\ s # x
                BY <2>1, <3>1, <3>3, <4>1 DEF OnList, Alone, TypeOK
            <4>3. Listed' = Listed \ {x}
                BY <4>2, Mapped
            <4>4. QED
                BY <1>2, <1>7, <2>1, <2>2, <3>3, <4>1, <4>3
        <3>4. QED
            BY <2>4, <3>2, <3>3 DEF AllocRefill
    <2>5. CASE AllocMiss(t)
        BY <1>2, <1>3, <1>6, <2>2, <2>5 DEF AllocMiss
    <2>6. QED
        BY <1>10, <2>3, <2>4, <2>5
<1>11. ASSUME NEW t \in Ctxs, NEW S \in SUBSET held, NEW c, op[t] = Idle,
              held' = held \ S, op' = [op EXCEPT ![t] = Putting(c, S)],
              UNCHANGED <<lists, slab>>, Clean' = Clean
       PROVE  Good
    <2>1. \A u \in Ctxs : op'[u].skbs = IF u = t THEN S ELSE op[u].skbs
        BY <1>11 DEF Putting, TypeOK
    <2>2. \A s : InOp(s)' <=> InOp(s) \/ s \in S
        BY <1>11, <1>i, <2>1 DEF InOp
    <2>3. Returning' = Returning \union S
        BY <2>2, Mapped
    <2>4. QED
        BY <1>3, <1>11, <1>g, <1>t, <2>3, IsRelease
<1>12. ASSUME NEW t \in Ctxs, NEW c \in CPUs, NEW x \in Skbs, NEW m \in {"none", "fast", "ds"},
              ConsumeEnter(t, c, x, m)
       PROVE  Good
    <2>1. {x} \in SUBSET held /\ skb' = [skb EXCEPT ![x] = Marked(@, m)]
        BY <1>12 DEF ConsumeEnter
    <2>2. \A s \in Skbs : skb'[s].shinfo = skb[s].shinfo
        BY <2>1 DEF Marked, SkbState, TypeOK
    <2>3. Clean' = Clean
        BY <2>2 DEF Clean
    <2>4. QED
        BY <1>11, <1>12, <2>1, <2>3 DEF ConsumeEnter
<1>13. ASSUME NEW t \in Ctxs, NEW c \in CPUs, NEW S \in Batches, ListFastEnter(t, c, S)
       PROVE  Good
    <2>1. \A s \in Skbs : skb'[s].shinfo = skb[s].shinfo
        BY <1>13 DEF ListFastEnter, Marked, SkbState, TypeOK
    <2>2. Clean' = Clean /\ S \in SUBSET held
        BY <2>1 DEF Clean, Batches
    <2>3. QED
        BY <1>11, <1>13, <2>2 DEF ListFastEnter
<1>14. ASSUME NEW S \in SUBSET held, held' = held \ S, slab' = slab \union S,
              UNCHANGED <<lists, skb, op>>
       PROVE  Good
    BY <1>1, <1>2, <1>3, <1>14, <1>g, <1>t, IsRelease
<1>15. ASSUME NEW x \in Skbs, NEW plain, ConsumeRefuse(x, plain) PROVE Good
    <2>1. {x} \in SUBSET held
        BY <1>15 DEF ConsumeRefuse
    <2>2. QED
        BY <1>14, <1>15, <2>1 DEF ConsumeRefuse, Free
<1>16. ASSUME NEW S \in Batches, ListFastRefuse(S) PROVE Good
    BY <1>14, <1>16 DEF ListFastRefuse, Free, Batches
<1>17. ASSUME NEW t \in Ctxs, PutHot(t) \/ PutSpare(t) \/ PutGlobal(t) \/ PutFull(t)
       PROVE  Good
    <2>1. op[t].cpu \in CPUs /\ op[t].skbs \in SUBSET Skbs /\ UNCHANGED <<held, skb>>
        BY <1>17, OpShape DEF PutHot, PutSpare, PutGlobal, PutFull
    <2>2. \A u \in Ctxs : op'[u].skbs = IF u = t THEN {} ELSE op[u].skbs
        BY <1>17, <1>i DEF PutHot, PutSpare, PutGlobal, PutFull, TypeOK
    <2>3. \A s \in op[t].skbs : Alone(s)
        BY <2>1 DEF AllAlone
    <2>4. \A s : InOp(s)' <=> InOp(s) /\ s \notin op[t].skbs
        BY <2>2, <2>3 DEF InOp, Alone
    <2>5. Returning' = Returning \ op[t].skbs /\ op[t].skbs \in SUBSET Returning
        <3>1. \A s \in op[t].skbs : InOp(s)
            BY DEF InOp
        <3>2. QED
            BY <2>4, <3>1, Mapped
    <2>6. ASSUME \A s : OnList(s)' <=> OnList(s) \/ s \in op[t].skbs, UNCHANGED slab
          PROVE  Good
        <3>1. Listed' = Listed \union op[t].skbs
            BY <2>6, Mapped
        <3>2. QED
            BY <1>1, <1>g, <2>1, <2>5, <2>6, <3>1, IsSettle
    <2>7. CASE PutHot(t)
        <3>1. \A s : OnList(s)' <=> OnList(s) \/ s \in op[t].skbs
            BY <2>1, <2>7 DEF PutHot, OnList, TypeOK
        <3>2. QED
            BY <2>6, <2>7, <3>1 DEF PutHot
    <2>8. CASE PutSpare(t)
        <3>1. \A s : OnList(s)' <=> OnList(s) \/ s \in op[t].skbs
            BY <2>1, <2>8 DEF PutSpare, OnList, TypeOK
        <3>2. QED
            BY <2>6, <2>8, <3>1 DEF PutSpare
    <2>9. CASE PutGlobal(t)
        <3>1. /\ pool' = [pool EXCEPT ![tail] = @ \union spare_list[op[t].cpu]] /\ tail \in Slots
              /\ spare_list' = [spare_list EXCEPT ![op[t].cpu] = op[t].skbs]
              /\ UNCHANGED <<recycle_list, slab>>
            BY <2>9 DEF PutGlobal, TypeOK
        <3>2. \A s : OnList(s)' <=> OnList(s) \/ s \in op[t].skbs
            BY <2>1, <3>1 DEF OnList, TypeOK
        <3>3. QED
            BY <2>6, <3>1, <3>2
    <2>10. CASE PutFull(t)
        BY <1>1, <1>3, <1>g, <2>1, <2>5, <2>10, IsSettle DEF PutFull, Free
    <2>11. QED
        BY <1>17, <2>7, <2>8, <2>9, <2>10
<1>18. ASSUME NEW x \in Skbs, HostTouch(x) PROVE Good
    <2>1. x \in held /\ skb' = [skb EXCEPT ![x].shinfo = "dirty", ![x].ds = FALSE]
        BY <1>18 DEF HostTouch
    <2>2. Clean' = Clean \ {x}
        BY <2>1 DEF Clean, TypeOK, SkbState
    <2>3. QED
        BY <1>2, <1>3, <1>18, <1>g, <2>1, <2>2, IsUse DEF HostTouch
<1>19. ASSUME NEW x \in Skbs, NEW z \in {"std", "other"}, pskb_expand_head(x, z) PROVE Good
    <2>1. \A s \in Skbs : skb'[s].shinfo = skb[s].shinfo
        BY <1>19 DEF pskb_expand_head, skb_recycler_clear_flags, TypeOK, SkbState
    <2>2. Clean' = Clean
        BY <2>1 DEF Clean
    <2>3. QED
        BY <1>2, <1>3, <1>19, <1>g, <2>2, IsStutter DEF pskb_expand_head
<1>20. ASSUME NEW S \in SUBSET Skbs, \A s \in S : OnList(s),
              \A s : OnList(s)' <=> OnList(s) /\ s \notin S,
              slab' = slab \union S, UNCHANGED <<held, skb, op>>
       PROVE  Good
    <2>1. Listed' = Listed \ S /\ S \in SUBSET Listed
        BY <1>20, Mapped
    <2>2. QED
        BY <1>1, <1>2, <1>20, <1>g, <2>1, IsReclaim
<1>21. CASE FlushStart
    BY <1>1, <1>2, <1>3, <1>21, <1>g, IsStutter DEF FlushStart
<1>22. CASE FlushGlobal
    <2> DEFINE S == UNION {pool[i] : i \in Slots}
    <2>1. /\ slab' = slab \union S /\ pool' = [i \in Slots |-> {}]
          /\ UNCHANGED <<recycle_list, spare_list, held, skb, op>>
        BY <1>22 DEF FlushGlobal, Free
    <2>2. \A s : s \in S <=> \E i \in Slots : s \in pool[i]
        OBVIOUS
    <2>3. S \in SUBSET Skbs
        BY <2>2 DEF TypeOK
    <2> HIDE DEF S
    <2>4. \A s \in S : OnList(s) /\ Alone(s)
        BY <2>2, <2>3 DEF OnList, AllAlone
    <2>5. \A s : OnList(s)' <=> OnList(s) /\ s \notin S
        BY <2>1, <2>2, <2>4 DEF OnList, Alone
    <2>6. QED
        BY <1>20, <2>1, <2>3, <2>4, <2>5
<1>23. ASSUME NEW c \in CPUs, FlushHot(c) PROVE Good
    <2>1. recycle_list[c] \in SUBSET Skbs
        BY DEF TypeOK
    <2>2. \A s \in recycle_list[c] : OnList(s) /\ Alone(s)
        BY <2>1 DEF OnList, AllAlone
    <2>3. \A s : OnList(s)' <=> OnList(s) /\ s \notin recycle_list[c]
        BY <1>23, <2>2 DEF FlushHot, Spliced, OnList, Alone, TypeOK
    <2>4. QED
        BY <1>20, <1>23, <2>1, <2>2, <2>3 DEF FlushHot, Free
<1>24. ASSUME NEW c \in CPUs, FlushSpare(c) PROVE Good
    <2>1. spare_list[c] \in SUBSET Skbs
        BY DEF TypeOK
    <2>2. \A s \in spare_list[c] : OnList(s) /\ Alone(s)
        BY <2>1 DEF OnList, AllAlone
    <2>3. \A s : OnList(s)' <=> OnList(s) /\ s \notin spare_list[c]
        BY <1>24, <2>2 DEF FlushSpare, Spliced, OnList, Alone, TypeOK
    <2>4. QED
        BY <1>20, <1>24, <2>1, <2>2, <2>3 DEF FlushSpare, Free
<1>25. ASSUME NEW c \in CPUs, skb_cpu_callback(c) PROVE Good
    <2> DEFINE S == recycle_list[c] \union spare_list[c]
    <2>1. S \in SUBSET Skbs
        BY DEF TypeOK
    <2>2. \A s \in S : OnList(s) /\ Alone(s)
        BY <2>1 DEF OnList, AllAlone
    <2>3. \A s : OnList(s)' <=> OnList(s) /\ s \notin S
        BY <1>25, <2>2 DEF skb_cpu_callback, Spliced, OnList, Alone, TypeOK
    <2>4. QED
        BY <1>20, <1>25, <2>1, <2>2, <2>3 DEF skb_cpu_callback, Free
<1>26. ASSUME NEW c \in CPUs, CpuUp(c) PROVE Good
    BY <1>1, <1>2, <1>3, <1>26, <1>g, IsStutter DEF CpuUp
<1>27. CASE Procfs
    BY <1>1, <1>2, <1>3, <1>27, <1>g, IsStutter
       DEF Procfs, WriteMaxSkbs, WriteMaxSpare, WriteMaxSkbsCpu, WriteMaxSpareCpu, WriteEnable
<1>28. CASE UNCHANGED vars
    BY <1>1, <1>2, <1>3, <1>28, <1>g, IsStutter DEF vars
<1>29. QED
    BY <1>8, <1>9, <1>10, <1>12, <1>13, <1>15, <1>16, <1>17, <1>18, <1>19, <1>21, <1>22,
       <1>23, <1>24, <1>25, <1>26, <1>27, <1>28
       DEF Next, Alloc, Consume, Host, Flush, Hotplug

(* Seen through its lists the recycler is the pool of SkbPool, for every   *)
(* number of CPUs, contexts, buffers and global pools.                     *)
THEOREM RecyclerImplementsPool == Spec => ImplementsPool
<1>1. Init => Pool!Init
    <2> SUFFICES ASSUME Init PROVE Pool!Init
        OBVIOUS
    <2>1. Returning = {}
        <3>1. \A s : ~InOp(s)
            BY DEF Init, InOp, Idle
        <3>2. QED
            BY <3>1, Mapped
    <2>2. Listed = {}
        <3>1. \A s : ~OnList(s)
            BY DEF Init, OnList
        <3>2. QED
            BY <3>1, Mapped
    <2>3. Clean = Skbs
        BY DEF Init, Clean, Fresh
    <2>4. slab = Skbs /\ held = {}
        BY DEF Init
    <2>5. QED
        BY <2>1, <2>2, <2>3, <2>4 DEF Pool!Init, Returning, Listed, Clean
<1>2. TypeOK /\ AllAlone /\ AllFlagsSound /\ [Next]_vars => [Pool!Next]_(Pool!vars)
    BY PoolStep
<1>3. QED
    BY <1>1, <1>2, AlwaysFlags, PTL
       DEF Spec, ImplementsPool, Pool!Spec
=============================================================================
