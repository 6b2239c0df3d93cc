--------------------------- MODULE PageFragReplay ---------------------------
(***************************************************************************)
(* ScenarioReplay of simulator /pagefrag_sim.py: logical events (post,     *)
(* reap, alloc, free) drive the allocator of PageFrag, and the totals that *)
(* the simulator reports are kept up to date page by page: the             *)
(* contribution of each affected page is taken off before a call and put   *)
(* back after it.                                                          *)
(*                                                                         *)
(* Left out: time (the integrals and samples are sums of the totals), and  *)
(* the totals requested_bytes and *_slack_bytes per class, which are kept  *)
(* in the same way as the ones modelled.                                   *)
(***************************************************************************)
EXTENDS PageFrag, FiniteSetsExt

CONSTANT LongRings   \* rings whose lifetime is "long" (data); others "short"

ASSUME LongAssumption == LongRings \subseteq Rings
(* The replay stops with MemoryError otherwise; its sizes always fit *)
ASSUME FitsAssumption == \A n \in Sizes : n <= PAGE_SIZE
ASSUME PagesAssumption == IsFiniteSet(Pages)

VARIABLES
    stage,      \* per fragment: LiveRecord.state
    aggregate   \* the totals

replayVars == <<vars, stage, aggregate>>

Totals == {"unique_pages", "aligned_bytes", "backing_bytes", "slack_bytes",
           "current_mixed_pages", "historical_cross_lifetime_pages",
           "same_ring_only_pages"}
Zero == [f \in Totals |-> 0]
Plus(a, b) == [f \in Totals |-> a[f] + b[f]]
Minus(a, b) == [f \in Totals |-> a[f] - b[f]]

One(b) == IF b THEN 1 ELSE 0
CrossLifetime(R) == R \intersect LongRings # {} /\ R \ LongRings # {}

(* _contribution of page p when the pages are pg and the fragments lv;     *)
(* what _usage_add and _usage_remove count is what lv has on the page      *)
contribution(pg, lv, p) ==
    LET frags == {i \in Ids : lv[i].alive /\ lv[i].page = p}
        aligned == MapThenSumSet(LAMBDA i : lv[i].size, frags)
        rings == {lv[i].ring : i \in frags}
    IN  IF ~pg[p].used THEN Zero
        ELSE [unique_pages |-> 1,
              aligned_bytes |-> aligned,
              backing_bytes |-> pg[p].size,
              slack_bytes |-> pg[p].size - aligned,
              current_mixed_pages |-> One(Cardinality(rings) > 1),
              historical_cross_lifetime_pages |->
                  One(frags # {} /\ CrossLifetime(pg[p].rings)),
              same_ring_only_pages |-> One(frags # {} /\ Cardinality(pg[p].rings) = 1)]

AddAll(a, pg, lv, P) == FoldSet(LAMBDA p, b : Plus(b, contribution(pg, lv, p)), a, P)
RemoveAll(a, pg, lv, P) == FoldSet(LAMBDA p, b : Minus(b, contribution(pg, lv, p)), a, P)

(* A call that takes the pages before out of the totals and puts the pages *)
(* after back in                                                           *)
Recount(before, after) ==
    aggregate' = AddAll(RemoveAll(aggregate, page, live, before), page', live', after)

ReplayInit ==
    /\ Init
    /\ stage = [i \in Ids |-> "none"]
    /\ aggregate = Zero

(* The pages whose contribution may change: the cache's page before the    *)
(* call and after it; a mutant that looks only at the one after            *)
affected_new(old, new) == new
affected(old, new) == old \union new

(* "post" stages the buffer as posted, "alloc" as reaped *)
replay_pagefrag(i, n, r, l, s) ==
    LET k == cache_key(r, l) IN
    /\ allocate_pagefrag(i, n, r, l)
    /\ Recount(cache[k].page, affected(cache[k].page, cache'[k].page))
    /\ stage' = [stage EXCEPT ![i] = s]

replay_direct(i, n, r, s) ==
    /\ allocate_direct(i, n, r)
    /\ Recount({}, {live'[i].page})
    /\ stage' = [stage EXCEPT ![i] = s]

reap(i) ==
    /\ stage[i] = "posted"
    /\ stage' = [stage EXCEPT ![i] = "reaped"]
    /\ UNCHANGED <<vars, aggregate>>

replay_free(i) ==
    /\ stage[i] = "reaped"
    /\ free(i)
    /\ Recount({live[i].page}, {live[i].page})
    /\ stage' = [stage EXCEPT ![i] = "none"]

ReplayNext ==
  /\ \/ \E i \in Ids, n \in Sizes, r \in Rings, s \in {"posted", "reaped"} :
        (\E l \in Lanes : replay_pagefrag(i, n, r, l, s)) \/ replay_direct(i, n, r, s)
     \/ \E i \in Ids : reap(i) \/ replay_free(i)
  /\ UNCHANGED policy

ReplaySpec == ReplayInit /\ [][ReplayNext]_replayVars

-----------------------------------------------------------------------------
(* The totals are what a recount over all pages gives, whatever the order  *)
(* of events: nothing is counted twice or dropped when a page is left to   *)
(* its fragments, started afresh, replaced or freed.                       *)
AggregateExact == aggregate = AddAll(Zero, page, live, Pages)

(* "live fragments exceed backing page" and "empty page usage retains      *)
(* accounting" never happen: no page has more live bytes than it has, and  *)
(* when no fragment is left nothing is charged to anybody.                 *)
UsageSound ==
    /\ \A p \in Pages : contribution(page, live, p).slack_bytes >= 0
    /\ (\A i \in Ids : ~live[i].alive) =>
        aggregate.aligned_bytes = 0 /\ aggregate.current_mixed_pages = 0
=============================================================================
