------------------------------ MODULE PageFrag ------------------------------
(***************************************************************************)
(* The page_frag allocator as simulator /pagefrag_sim.py states it, and    *)
(* as the ath11k patch 960 uses it: one cache per user of a policy, each   *)
(* carving fragments off the end of its current page, all taking pages     *)
(* from one physical allocator.  A page is kept alive by its reference     *)
(* count; the cache pays for many references at once (the bias) and gives  *)
(* back those it did not use when it leaves the page.                      *)
(*                                                                         *)
(* One step is one call: calls on one cache are serialised (by the SRNG    *)
(* lock for a ring, by the CPU for a lane), and fragments are freed by     *)
(* whoever holds them, in any order.  Left out: the identity of a page     *)
(* after it has been freed (its number may be used again) and the counters *)
(* of refills and reuses.                                                  *)
(***************************************************************************)
EXTENDS Integers, FiniteSets

CONSTANTS
    Pages,      \* bound: physical pages
    Ids,        \* bound: fragments alive at a time
    Rings,      \* RXDMA rings and copy-engine pipes that post buffers
    CeRings,    \* those of Rings whose source is "ce"
    Lanes,      \* CPU lanes
    Policies,   \* which of POLICIES are tried
    PAGE_SIZE,  \* size of an order-0 page
    PAGE_FRAG_CACHE_MAX_SIZE,  \* size of a compound page
    Sizes       \* bound: fragment sizes that are asked for

POLICIES == {"shared", "per_ring", "same_ring_only", "non_pagefrag"}

ASSUME RingAssumption == CeRings \subseteq Rings
ASSUME PolicyAssumption == Policies \subseteq POLICIES
ASSUME SizeAssumption ==
    /\ PAGE_SIZE \in Nat \ {0} /\ PAGE_FRAG_CACHE_MAX_SIZE \in Nat
    /\ PAGE_SIZE <= PAGE_FRAG_CACHE_MAX_SIZE
    /\ Sizes \subseteq Nat \ {0}
ASSUME IdsAssumption == IsFiniteSet(Ids)

VARIABLES
    policy, \* which cache serves whom; see cache_key
    page,   \* per page: is it allocated, its size, pfmemalloc and refcount
    cache,  \* per cache: its page (a set of at most one), offset, pagecnt_bias
    live    \* per fragment: is it alive, its page, offset, size and ring

vars == <<policy, page, cache, live>>

PAGE_FRAG_CACHE_BIAS_max == PAGE_FRAG_CACHE_MAX_SIZE   \* mutant
PAGE_FRAG_CACHE_BIAS == PAGE_FRAG_CACHE_MAX_SIZE + 1

(* _cache_key, and a mutant in which per-ring caches are still per lane    *)
cache_key_lane(r, l) ==
    CASE policy = "same_ring_only" -> <<"owner-ring", r>>
      [] OTHER                     -> <<"lane", l>>
cache_key(r, l) ==
    CASE policy = "shared" -> <<"lane", l>>
      [] policy = "per_ring" -> IF r \in CeRings THEN <<"ce-lane", l>> ELSE <<"ring", r>>
      [] OTHER -> <<"owner-ring", r>>

Keys == ({"lane", "ce-lane"} \X Lanes) \union ({"ring", "owner-ring"} \X Rings)

FreePage == [used |-> FALSE, size |-> 0, pfmemalloc |-> FALSE, refcount |-> 0, rings |-> {}]
NoCache == [page |-> {}, offset |-> 0, bias |-> 0]
Dead == [alive |-> FALSE]

Init ==
    /\ policy \in Policies
    /\ page = [p \in Pages |-> FreePage]
    /\ cache = [k \in Keys |-> NoCache]
    /\ live = [i \in Ids |-> Dead]

-----------------------------------------------------------------------------
(* PhysicalAllocator.allocate and PageFragCache._refill: the ways to put a *)
(* fresh page into a cache when the pages are pg.  The order-0 fallback    *)
(* and the emergency reserve (pfmemalloc) can happen on any refill.        *)
refill(pg) ==
    {[pages |-> [pg EXCEPT ![p] =
                    [used |-> TRUE, size |-> z, pfmemalloc |-> m,
                     refcount |-> 1 + PAGE_FRAG_CACHE_MAX_SIZE, rings |-> {}]],
      c |-> [page |-> {p}, offset |-> z, bias |-> PAGE_FRAG_CACHE_BIAS]] :
        p \in {q \in Pages : ~pg[q].used},
        z \in {PAGE_SIZE, PAGE_FRAG_CACHE_MAX_SIZE}, m \in BOOLEAN}

(* free_page when the count reaches zero *)
Unref(pg, p, n) ==
    IF pg[p].refcount = n THEN [pg EXCEPT ![p] = FreePage]
    ELSE [pg EXCEPT ![p].refcount = @ - n]

(* The page in the cache has no room: give the bias back, then leave the   *)
(* page to its fragments, or free it (pfmemalloc), or start it afresh.     *)
(* A page that is started afresh keeps its offset until the request fits.  *)
rollover(pg, c, p) ==
    IF pg[p].refcount # c.bias \/ pg[p].pfmemalloc
    THEN refill(Unref(pg, p, c.bias))
    ELSE {[pages |-> [pg EXCEPT ![p].refcount = PAGE_FRAG_CACHE_BIAS],
           c |-> [c EXCEPT !.bias = PAGE_FRAG_CACHE_BIAS]]}

(* The request of n bytes gets the bytes from off on of page p; a mutant   *)
(* that leaves the offset where it was                                     *)
Take_keep_offset(st, k, i, p, off, n, r) ==
    /\ page' = [st.pages EXCEPT ![p].rings = @ \union {r}]
    /\ cache' = [cache EXCEPT ![k] = [page |-> {p}, offset |-> st.c.offset, bias |-> st.c.bias - 1]]
    /\ live' = [live EXCEPT ![i] =
                    [alive |-> TRUE, page |-> p, offset |-> off, size |-> n, ring |-> r]]

Take(st, k, i, p, off, n, r) ==
    /\ page' = [st.pages EXCEPT ![p].rings = @ \union {r}]
    /\ cache' = [cache EXCEPT ![k] = [page |-> {p}, offset |-> off, bias |-> st.c.bias - 1]]
    /\ live' = [live EXCEPT ![i] =
                    [alive |-> TRUE, page |-> p, offset |-> off, size |-> n, ring |-> r]]

(* The request is too long for the page at hand: the cache keeps the page  *)
Fail(st, k) ==
    /\ page' = st.pages
    /\ cache' = [cache EXCEPT ![k] = st.c]
    /\ UNCHANGED live

Fits_off_by_one(n, room) == n <= room + 1   \* mutant
Fits(n, room) == n <= room

(* What the cache has at hand when the request comes *)
AtHand(k) ==
    IF cache[k].page = {} THEN refill(page) ELSE {[pages |-> page, c |-> cache[k]]}

allocate(k, i, n, r) ==
    /\ ~live[i].alive
    /\ \E st \in AtHand(k), p \in Pages :
        /\ p \in st.c.page
        /\ \/ /\ Fits(n, st.c.offset)
              /\ Take(st, k, i, p, st.c.offset - n, n, r)
           \/ /\ ~Fits(n, st.c.offset)
              /\ \E st2 \in rollover(st.pages, st.c, p), q \in Pages :
                    /\ q \in st2.c.page
                    /\ \/ /\ Fits(n, st2.pages[q].size)
                          /\ Take(st2, k, i, q, st2.pages[q].size - n, n, r)
                       \/ ~Fits(n, st2.pages[q].size) /\ Fail(st2, k)

(* The cache of a request follows from who asks, and on which lane *)
allocate_pagefrag(i, n, r, l) ==
    /\ policy # "non_pagefrag"
    /\ allocate(cache_key(r, l), i, n, r)

backing(n) == ((n + PAGE_SIZE - 1) \div PAGE_SIZE) * PAGE_SIZE

(* non_pagefrag: a page-rounded allocation of its own *)
allocate_direct(i, n, r) ==
    /\ policy = "non_pagefrag"
    /\ ~live[i].alive
    /\ \E p \in Pages :
        /\ ~page[p].used
        /\ page' = [page EXCEPT ![p] =
                [used |-> TRUE, size |-> backing(n),
                 pfmemalloc |-> FALSE, refcount |-> 1, rings |-> {r}]]
        /\ live' = [live EXCEPT ![i] =
                [alive |-> TRUE, page |-> p, offset |-> 0, size |-> n, ring |-> r]]
    /\ UNCHANGED cache

(* PageFragCache.free, whichever cache the fragment came from *)
free(i) ==
    /\ live[i].alive
    /\ page' = Unref(page, live[i].page, 1)
    /\ live' = [live EXCEPT ![i] = Dead]
    /\ UNCHANGED cache

(* PageFragCache.drain, called when the ring is torn down *)
drain_whole(k) ==   \* mutant: frees the page whoever still uses it
    /\ \E p \in Pages :
        /\ p \in cache[k].page
        /\ page' = [page EXCEPT ![p] = FreePage]
    /\ cache' = [cache EXCEPT ![k] = NoCache]
    /\ UNCHANGED live

drain_keep_bias(k) ==   \* mutant: gives back one reference only
    /\ \E p \in Pages :
        /\ p \in cache[k].page
        /\ page' = Unref(page, p, 1)
    /\ cache' = [cache EXCEPT ![k] = NoCache]
    /\ UNCHANGED live

drain(k) ==
    /\ \E p \in Pages :
        /\ p \in cache[k].page
        /\ page' = Unref(page, p, cache[k].bias)
    /\ cache' = [cache EXCEPT ![k] = NoCache]
    /\ UNCHANGED live

Alloc ==
    \E i \in Ids, n \in Sizes, r \in Rings :
        \/ \E l \in Lanes : allocate_pagefrag(i, n, r, l)
        \/ allocate_direct(i, n, r)

Next ==
    /\ Alloc \/ (\E i \in Ids : free(i)) \/ \E k \in Keys : drain(k)
    /\ UNCHANGED policy

Spec == Init /\ [][Next]_vars

-----------------------------------------------------------------------------
(* Properties *)

PageState == [used : BOOLEAN, size : Nat, pfmemalloc : BOOLEAN, refcount : Nat,
              rings : SUBSET Rings]
CacheState == [page : {{}} \union {{p} : p \in Pages},
               offset : 0..PAGE_FRAG_CACHE_MAX_SIZE, bias : 0..PAGE_FRAG_CACHE_BIAS]
FragState == {Dead} \union
    [alive : {TRUE}, page : Pages, offset : Nat, size : Sizes, ring : Rings]

TypeOK ==
    /\ policy \in Policies
    /\ page \in [Pages -> PageState]
    /\ cache \in [Keys -> CacheState]
    /\ live \in [Ids -> FragState]

LiveOn(p) == {i \in Ids : live[i].alive /\ live[i].page = p}
CachedIn(p) == {k \in Keys : p \in cache[k].page}

(* No page is freed too early: a page that a cache carves from, or that    *)
(* has a live fragment, is allocated.  In particular the bias never runs   *)
(* out while the page is in a cache, even with one-byte fragments.         *)
NoUseAfterFree ==
    /\ \A i \in Ids : live[i].alive => page[live[i].page].used
    /\ \A k \in Keys, p \in Pages : p \in cache[k].page => page[p].used

(* No page is leaked: one that is allocated is in a cache or has a live    *)
(* fragment, so draining the caches and freeing the fragments frees all.   *)
NoPageLeak == \A p \in Pages : page[p].used => LiveOn(p) # {} \/ CachedIn(p) # {}

(* The count is exact: what the cache has not handed out plus one for each *)
(* live fragment.  The simulator's "page bias exceeded refcount" and       *)
(* "negative page refcount" never happen.                                  *)
RefcountExact ==
    \A p \in Pages :
        /\ \A k \in CachedIn(p) :
            page[p].refcount = cache[k].bias + Cardinality(LiveOn(p))
        /\ CachedIn(p) = {} => page[p].refcount = Cardinality(LiveOn(p))

Bytes(i) == live[i].offset .. (live[i].offset + live[i].size - 1)

(* Two live fragments never share a byte, and none leaves its page, also   *)
(* when pages are started afresh, refused or replaced by smaller ones.     *)
NoOverlap ==
    /\ \A i \in Ids : live[i].alive =>
        live[i].offset + live[i].size <= page[live[i].page].size
    /\ \A i, j \in Ids : live[i].alive /\ live[j].alive /\ i # j
            /\ live[i].page = live[j].page
        => Bytes(i) \intersect Bytes(j) = {}

(* Patch 960: "New fragments allocated through distinct dp_rxdma_ring      *)
(* instances can no longer share backing pages with one another or with CE *)
(* allocations", not even over the life of a page; nor under the policies  *)
(* that go further.                                                        *)
RingsApart ==
    policy # "shared" => \A p \in Pages : \A r \in page[p].rings \ CeRings : page[p].rings = {r}
=============================================================================
