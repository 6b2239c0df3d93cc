--------------------------- MODULE PageFragProofs ---------------------------
(***************************************************************************)
(* Proofs about PageFrag.  A call goes through intermediate states (give   *)
(* the bias back, refill, take), so the inductive invariant is stated for  *)
(* any pages pg, caches cs and fragments lv, and each lemma says what one  *)
(* part of a call does to it.                                              *)
(***************************************************************************)
EXTENDS PageFrag, FiniteSetTheorems, TLAPS

(* f with v at x; a name for the provers to match on *)
With(f, x, v) == [f EXCEPT ![x] = v]

On(lv, p) == {i \in Ids : lv[i].alive /\ lv[i].page = p}

Types(pg, cs, lv) ==
    /\ pg \in [Pages -> PageState]
    /\ cs \in [Keys -> CacheState]
    /\ lv \in [Ids -> FragState]

(* A page is allocated exactly while its count is not zero *)
Counted(pg) == \A p \in Pages : pg[p].used <=> pg[p].refcount # 0

(* A page is in one cache at most; a cache always has more references left *)
(* than bytes, and its page is at most a compound page                     *)
CacheSound(pg, cs) ==
    /\ \A k, m \in Keys, p \in Pages : p \in cs[k].page /\ p \in cs[m].page => k = m
    /\ \A k \in Keys : cs[k].page # {} => cs[k].bias > cs[k].offset
    /\ \A k \in Keys, p \in Pages :
        p \in cs[k].page => pg[p].size <= PAGE_FRAG_CACHE_MAX_SIZE

(* The count of page p is exact *)
Exact(pg, cs, lv, p) ==
    /\ \A k \in Keys : p \in cs[k].page =>
        pg[p].refcount = cs[k].bias + Cardinality(On(lv, p))
    /\ (\A k \in Keys : p \notin cs[k].page) => pg[p].refcount = Cardinality(On(lv, p))

Sound(pg, cs, lv) ==
    /\ Types(pg, cs, lv)
    /\ Counted(pg)
    /\ CacheSound(pg, cs)
    /\ \A p \in Pages : Exact(pg, cs, lv, p)

-----------------------------------------------------------------------------
(* The fragments on a page are finitely many *)
LEMMA OnCard ==
    ASSUME NEW lv, NEW p
    PROVE  IsFiniteSet(On(lv, p)) /\ Cardinality(On(lv, p)) \in Nat
  <1>1. On(lv, p) \subseteq Ids BY DEF On
  <1>2. QED BY <1>1, IdsAssumption, FS_Subset, FS_CardinalityType

(* A cache has one page at most *)
LEMMA OnePage ==
    ASSUME NEW cs \in [Keys -> CacheState], NEW k \in Keys, NEW p \in cs[k].page
    PROVE  cs[k].page = {p}
  BY DEF CacheState

(* A page of count zero is in no cache and has no fragment *)
LEMMA UnusedAlone ==
    ASSUME NEW pg, NEW cs, NEW lv, Sound(pg, cs, lv), NEW p \in Pages, ~pg[p].used
    PROVE  (\A k \in Keys : p \notin cs[k].page) /\ On(lv, p) = {}
  <1>1. pg[p].refcount = 0 BY DEF Sound, Counted
  <1>2. ASSUME NEW k \in Keys, p \in cs[k].page PROVE FALSE
    <2>1. cs[k].bias > cs[k].offset /\ cs[k].offset \in Nat /\ cs[k].bias \in Nat
      BY <1>2, SizeAssumption DEF Sound, CacheSound, Types, CacheState, PAGE_FRAG_CACHE_BIAS
    <2>2. pg[p].refcount = cs[k].bias + Cardinality(On(lv, p))
      BY <1>2 DEF Sound, Exact
    <2>3. QED BY <2>1, <2>2, <1>1, OnCard
  <1>3. Cardinality(On(lv, p)) = 0 BY <1>1, <1>2 DEF Sound, Exact
  <1>4. QED BY <1>2, <1>3, OnCard, FS_EmptySet

(* A cache that has just got a page, with no fragment yet *)
FreshCache(c, lv) ==
    c.bias = PAGE_FRAG_CACHE_BIAS /\ \E p \in Pages : p \in c.page /\ On(lv, p) = {}

(* refill gives an empty cache a page nobody uses *)
LEMMA RefillSound ==
    ASSUME NEW pg, NEW cs, NEW lv, Sound(pg, cs, lv),
           NEW k \in Keys, cs[k].page = {}, NEW st \in refill(pg)
    PROVE  /\ Sound(st.pages, With(cs, k, st.c), lv)
           /\ FreshCache(st.c, lv)
  <1>1. PICK p \in {q \in Pages : ~pg[q].used},
             z \in {PAGE_SIZE, PAGE_FRAG_CACHE_MAX_SIZE}, m \in BOOLEAN :
          st = [pages |-> [pg EXCEPT ![p] =
                    [used |-> TRUE, size |-> z, pfmemalloc |-> m,
                     refcount |-> 1 + PAGE_FRAG_CACHE_MAX_SIZE, rings |-> {}]],
                c |-> [page |-> {p}, offset |-> z, bias |-> PAGE_FRAG_CACHE_BIAS]]
    BY DEF refill
  <1>2. p \in Pages /\ ~pg[p].used OBVIOUS
  <1>3. /\ \A h \in Keys : p \notin cs[h].page
        /\ On(lv, p) = {}
    BY <1>2, UnusedAlone
  <1>4. z \in Nat /\ z <= PAGE_FRAG_CACHE_MAX_SIZE /\ PAGE_FRAG_CACHE_MAX_SIZE \in Nat
    BY SizeAssumption
  <1> DEFINE c == [page |-> {p}, offset |-> z, bias |-> PAGE_FRAG_CACHE_BIAS]
             r == [used |-> TRUE, size |-> z, pfmemalloc |-> m,
                   refcount |-> 1 + PAGE_FRAG_CACHE_MAX_SIZE, rings |-> {}]
             pg2 == [pg EXCEPT ![p] = r]
             cs2 == [cs EXCEPT ![k] = c]
  <1>5. st.pages = pg2 /\ st.c = c BY <1>1
  <1>6. pg \in [Pages -> PageState] /\ cs \in [Keys -> CacheState]
    BY DEF Sound, Types
  <1>7. r \in PageState /\ c \in CacheState
    BY <1>2, <1>4 DEF PageState, CacheState, PAGE_FRAG_CACHE_BIAS
  <1>8. Types(pg2, cs2, lv)
    BY <1>6, <1>7 DEF Types, Sound
  <1>9. Counted(pg2)
    BY <1>4, <1>6 DEF Counted, Sound
  <1>10. CacheSound(pg2, cs2)
    BY <1>2, <1>3, <1>4, <1>6 DEF CacheSound, Sound, PAGE_FRAG_CACHE_BIAS
  <1>11. ASSUME NEW q \in Pages PROVE Exact(pg2, cs2, lv, q)
    <2>1. CASE q = p
      <3>1. Cardinality(On(lv, q)) = 0 BY <1>3, <2>1, FS_EmptySet
      <3>2. QED BY <3>1, <2>1, <1>2, <1>3, <1>4, <1>6 DEF Exact, PAGE_FRAG_CACHE_BIAS
    <2>2. CASE q # p
      <3>1. pg2[q] = pg[q] BY <2>2, <1>6
      <3>2. \A h \in Keys : q \in cs2[h].page <=> q \in cs[h].page
        BY <2>2, <1>6
      <3>3. \A h \in Keys : q \in cs2[h].page => cs2[h] = cs[h]
        BY <2>2, <1>6
      <3>4. QED BY <3>1, <3>2, <3>3 DEF Exact, Sound
    <2>3. QED BY <2>1, <2>2
  <1>12. Sound(pg2, cs2, lv) BY <1>8, <1>9, <1>10, <1>11 DEF Sound
  <1>13. FreshCache(c, lv) BY <1>2, <1>3 DEF FreshCache
  <1>14. With(cs, k, st.c) = cs2 BY <1>5 DEF With
  <1>15. QED BY <1>2, <1>3, <1>5, <1>12, <1>13, <1>14

(* What Unref does to a page *)
LEMMA UnrefShape ==
    ASSUME NEW pg \in [Pages -> PageState], NEW p \in Pages,
           NEW n \in Nat, n <= pg[p].refcount, pg[p].used
    PROVE  /\ Unref(pg, p, n) \in [Pages -> PageState]
           /\ \A q \in Pages : q # p => Unref(pg, p, n)[q] = pg[q]
           /\ Unref(pg, p, n)[p].refcount = pg[p].refcount - n
           /\ Unref(pg, p, n)[p].used <=> pg[p].refcount # n
           /\ pg[p].refcount # n => Unref(pg, p, n)[p].size = pg[p].size
  <1>1. pg[p].refcount \in Nat BY DEF PageState
  <1>2. CASE pg[p].refcount = n
    <2>1. FreePage \in PageState BY DEF FreePage, PageState
    <2>2. Unref(pg, p, n) = [pg EXCEPT ![p] = FreePage] BY <1>2 DEF Unref
    <2>3. FreePage.refcount = 0 /\ FreePage.used = FALSE BY DEF FreePage
    <2>4. QED BY <1>1, <1>2, <2>1, <2>2, <2>3
  <1>3. CASE pg[p].refcount # n
    <2>1. Unref(pg, p, n) = [pg EXCEPT ![p].refcount = pg[p].refcount - n]
      BY <1>3 DEF Unref
    <2>2. pg[p].refcount - n \in Nat BY <1>1
    <2>3. [pg[p] EXCEPT !.refcount = pg[p].refcount - n] \in PageState
      BY <2>2 DEF PageState
    <2>4. [pg[p] EXCEPT !.refcount = pg[p].refcount - n].refcount = pg[p].refcount - n
      BY DEF PageState
    <2>5. [pg[p] EXCEPT !.refcount = pg[p].refcount - n].used = pg[p].used
      BY DEF PageState
    <2>6. [pg[p] EXCEPT !.refcount = pg[p].refcount - n].size = pg[p].size
      BY DEF PageState
    <2>7. QED BY <1>3, <2>1, <2>3, <2>4, <2>5, <2>6
  <1>4. QED BY <1>2, <1>3

(* A cache that leaves its page gives the rest of the bias back: what      *)
(* drain does, and rollover before it refills                              *)
LEMMA LeaveSound ==
    ASSUME NEW pg, NEW cs, NEW lv, Sound(pg, cs, lv),
           NEW k \in Keys, NEW p \in Pages, p \in cs[k].page
    PROVE  Sound(Unref(pg, p, cs[k].bias), With(cs, k, NoCache), lv)
  <1> DEFINE pg2 == Unref(pg, p, cs[k].bias)
             cs2 == [cs EXCEPT ![k] = NoCache]
  <1>1. /\ pg \in [Pages -> PageState] /\ cs \in [Keys -> CacheState]
        /\ PAGE_FRAG_CACHE_MAX_SIZE \in Nat
    BY SizeAssumption DEF Sound, Types
  <1>2. cs[k].bias \in Nat /\ cs[k].offset \in Nat /\ cs[k].bias > cs[k].offset
    BY <1>1 DEF CacheState, PAGE_FRAG_CACHE_BIAS, Sound, CacheSound
  <1>3. pg[p].refcount = cs[k].bias + Cardinality(On(lv, p)) BY DEF Sound, Exact
  <1>4. cs[k].bias <= pg[p].refcount /\ pg[p].refcount # 0
    BY <1>2, <1>3, OnCard
  <1>5. pg[p].used BY <1>4 DEF Sound, Counted
  <1>6. /\ pg2 \in [Pages -> PageState]
        /\ \A q \in Pages : q # p => pg2[q] = pg[q]
        /\ pg2[p].refcount = pg[p].refcount - cs[k].bias
        /\ pg2[p].used <=> pg[p].refcount # cs[k].bias
    BY <1>1, <1>2, <1>4, <1>5, UnrefShape
  <1>7. NoCache \in CacheState /\ NoCache.page = {}
    BY <1>1 DEF NoCache, CacheState, PAGE_FRAG_CACHE_BIAS
  <1>8. \A h \in Keys, q \in Pages : q \in cs2[h].page <=> h # k /\ q \in cs[h].page
    BY <1>1, <1>7
  <1>9. \A h \in Keys : h # k => cs2[h] = cs[h] BY <1>1
  <1>10. \A h \in Keys : h # k => p \notin cs[h].page BY DEF Sound, CacheSound
  <1>11. Types(pg2, cs2, lv) BY <1>1, <1>6, <1>7 DEF Types, Sound
  <1>12. Counted(pg2)
    <2>1. pg[p].refcount \in Nat BY <1>1 DEF PageState
    <2>2. pg2[p].refcount # 0 <=> pg[p].refcount # cs[k].bias BY <2>1, <1>2, <1>6
    <2>3. QED BY <1>6, <2>2 DEF Counted, Sound
  <1>13. CacheSound(pg2, cs2)
    <2>1. \A h \in Keys : cs2[h].page # {} => h # k BY <1>1, <1>7
    <2>2. QED BY <1>6, <1>8, <1>9, <1>10, <2>1 DEF CacheSound, Sound
  <1>14. ASSUME NEW q \in Pages PROVE Exact(pg2, cs2, lv, q)
    <2>1. CASE q = p
      <3>1. \A h \in Keys : p \notin cs2[h].page BY <1>8, <1>10
      <3>2. pg2[p].refcount = Cardinality(On(lv, p)) BY <1>2, <1>3, <1>6, OnCard
      <3>3. QED BY <2>1, <3>1, <3>2 DEF Exact
    <2>2. CASE q # p
      <3>1. pg2[q] = pg[q] BY <2>2, <1>6
      <3>2. \A h \in Keys : q \in cs2[h].page <=> q \in cs[h].page
        BY <2>2, <1>1, <1>8, OnePage
      <3>3. QED BY <3>1, <3>2, <1>8, <1>9 DEF Exact, Sound
    <2>3. QED BY <2>1, <2>2
  <1>15. QED BY <1>11, <1>12, <1>13, <1>14 DEF Sound, With

Recounted(pg, p) == [pg EXCEPT ![p].refcount = PAGE_FRAG_CACHE_BIAS]
Refreshed(c) == [c EXCEPT !.bias = PAGE_FRAG_CACHE_BIAS]

(* A page nobody else uses is started afresh *)
LEMMA ReuseSound ==
    ASSUME NEW pg, NEW cs, NEW lv, Sound(pg, cs, lv),
           NEW k \in Keys, NEW p \in Pages, p \in cs[k].page,
           pg[p].refcount = cs[k].bias
    PROVE  /\ On(lv, p) = {}
           /\ Sound(Recounted(pg, p), With(cs, k, Refreshed(cs[k])), lv)
  <1> DEFINE pg2 == [pg EXCEPT ![p].refcount = PAGE_FRAG_CACHE_BIAS]
             c2 == [cs[k] EXCEPT !.bias = PAGE_FRAG_CACHE_BIAS]
             cs2 == [cs EXCEPT ![k] = c2]
             B == PAGE_FRAG_CACHE_BIAS
  <1>1. /\ pg \in [Pages -> PageState] /\ cs \in [Keys -> CacheState]
        /\ PAGE_FRAG_CACHE_MAX_SIZE \in Nat /\ B = PAGE_FRAG_CACHE_MAX_SIZE + 1
    BY SizeAssumption DEF Sound, Types, PAGE_FRAG_CACHE_BIAS
  <1>2. cs[k].bias \in Nat /\ cs[k].offset \in 0..PAGE_FRAG_CACHE_MAX_SIZE
    BY <1>1 DEF CacheState, PAGE_FRAG_CACHE_BIAS
  <1>3. pg[p].refcount = cs[k].bias + Cardinality(On(lv, p)) BY DEF Sound, Exact
  <1>4. On(lv, p) = {} /\ Cardinality(On(lv, p)) = 0
    BY <1>2, <1>3, OnCard, FS_EmptySet
  <1>5. c2 \in CacheState /\ p \in c2.page /\ c2.bias = B /\ c2.offset = cs[k].offset
    BY <1>1, <1>2 DEF CacheState
  <1>6. /\ pg2 \in [Pages -> PageState]
        /\ \A q \in Pages : q # p => pg2[q] = pg[q]
        /\ pg2[p].refcount = B /\ pg2[p].size = pg[p].size /\ pg2[p].used = pg[p].used
    BY <1>1 DEF PageState
  <1>7. cs[k].bias > cs[k].offset BY DEF Sound, CacheSound
  <1>8. pg[p].used BY <1>2, <1>3, <1>4, <1>7 DEF Sound, Counted
  <1>9. \A h \in Keys : cs2[h].page = cs[h].page BY <1>1, <1>5
  <1>10. \A h \in Keys : h # k => cs2[h] = cs[h] BY <1>1
  <1>11. cs2[k] = c2 BY <1>1
  <1>12. Types(pg2, cs2, lv) BY <1>1, <1>5, <1>6 DEF Types, Sound
  <1>13. Counted(pg2) BY <1>1, <1>6, <1>8 DEF Counted, Sound
  <1>14. CacheSound(pg2, cs2)
    <2>1. \A h, m \in Keys, q \in Pages : q \in cs2[h].page /\ q \in cs2[m].page => h = m
      BY <1>9 DEF Sound, CacheSound
    <2>2. c2.bias > c2.offset BY <1>1, <1>2, <1>5
    <2>3. \A h \in Keys : cs2[h].page # {} => cs2[h].bias > cs2[h].offset
      BY <2>2, <1>9, <1>10, <1>11 DEF Sound, CacheSound
    <2>4. \A q \in Pages : pg2[q].size = pg[q].size BY <1>6
    <2>5. \A h \in Keys, q \in Pages :
            q \in cs2[h].page => pg2[q].size <= PAGE_FRAG_CACHE_MAX_SIZE
      BY <1>9, <2>4 DEF Sound, CacheSound
    <2>6. QED BY <2>1, <2>3, <2>5 DEF CacheSound
  <1>15. ASSUME NEW q \in Pages PROVE Exact(pg2, cs2, lv, q)
    <2>1. CASE q = p
      <3>1. \A h \in Keys : p \in cs2[h].page => h = k BY <1>9 DEF Sound, CacheSound
      <3>2. QED BY <2>1, <3>1, <1>1, <1>4, <1>5, <1>6, <1>11 DEF Exact
    <2>2. CASE q # p
      <3>1. q \notin cs[k].page BY <2>2, <1>1, OnePage
      <3>2. QED BY <2>2, <3>1, <1>6, <1>9, <1>10 DEF Exact, Sound
    <2>3. QED BY <2>1, <2>2
  <1>16. QED BY <1>4, <1>12, <1>13, <1>14, <1>15 DEF Sound, With, Recounted, Refreshed

(* Whatever rollover chooses, the cache ends up with a page that has no    *)
(* fragment and with the whole bias                                        *)
LEMMA RolloverSound ==
    ASSUME NEW pg, NEW cs, NEW lv, Sound(pg, cs, lv),
           NEW k \in Keys, NEW p \in Pages, p \in cs[k].page,
           NEW st \in rollover(pg, cs[k], p)
    PROVE  /\ Sound(st.pages, With(cs, k, st.c), lv)
           /\ FreshCache(st.c, lv)
  <1>1. cs \in [Keys -> CacheState] BY DEF Sound, Types
  <1>2. CASE pg[p].refcount # cs[k].bias \/ pg[p].pfmemalloc
    <2>1. Sound(Unref(pg, p, cs[k].bias), With(cs, k, NoCache), lv) BY LeaveSound
    <2>2. With(cs, k, NoCache)[k].page = {} BY <1>1 DEF NoCache, With
    <2>3. st \in refill(Unref(pg, p, cs[k].bias)) BY <1>2 DEF rollover
    <2>4. With(With(cs, k, NoCache), k, st.c) = With(cs, k, st.c) BY <1>1 DEF With
    <2>5. ASSUME NEW cs1, NEW pg1, Sound(pg1, cs1, lv), cs1[k].page = {},
                 st \in refill(pg1)
          PROVE  /\ Sound(st.pages, With(cs1, k, st.c), lv)
                 /\ FreshCache(st.c, lv)
      BY <2>5, RefillSound
    <2>6. QED BY <2>1, <2>2, <2>3, <2>4, <2>5
  <1>3. CASE ~(pg[p].refcount # cs[k].bias \/ pg[p].pfmemalloc)
    <2>1. st = [pages |-> Recounted(pg, p), c |-> Refreshed(cs[k])]
      BY <1>3 DEF rollover, Recounted, Refreshed
    <2>2. st.c = Refreshed(cs[k]) /\ st.pages = Recounted(pg, p) BY <2>1
    <2>3. p \in st.c.page /\ st.c.bias = PAGE_FRAG_CACHE_BIAS
      BY <1>1, <2>2 DEF CacheState, Refreshed
    <2>4. On(lv, p) = {} /\ Sound(Recounted(pg, p), With(cs, k, Refreshed(cs[k])), lv)
      BY <1>3, ReuseSound
    <2>5. QED BY <2>2, <2>3, <2>4 DEF FreshCache
  <1>4. QED BY <1>2, <1>3

Ringed(pg, p, r) == [pg EXCEPT ![p].rings = @ \union {r}]
Frag(p, off, n, r) == [alive |-> TRUE, page |-> p, offset |-> off, size |-> n, ring |-> r]

(* A new fragment adds itself to its page's fragments, and to no other's *)
LEMMA OnAdd ==
    ASSUME NEW lv \in [Ids -> FragState], NEW i \in Ids, ~lv[i].alive,
           NEW p \in Pages, NEW off, NEW n, NEW r,
           NEW lv2, lv2 = With(lv, i, Frag(p, off, n, r))
    PROVE  /\ On(lv2, p) = On(lv, p) \union {i} /\ i \notin On(lv, p)
           /\ Cardinality(On(lv2, p)) = Cardinality(On(lv, p)) + 1
           /\ \A q \in Pages : q # p => On(lv2, q) = On(lv, q)
  <1>1. /\ lv2[i].alive /\ lv2[i].page = p
        /\ \A j \in Ids : j # i => lv2[j] = lv[j]
    BY DEF Frag, With
  <1>2. On(lv2, p) = On(lv, p) \union {i} /\ i \notin On(lv, p) BY <1>1 DEF On
  <1>3. Cardinality(On(lv2, p)) = Cardinality(On(lv, p)) + 1
    BY <1>2, OnCard, FS_AddElement
  <1>4. \A q \in Pages : q # p => On(lv2, q) = On(lv, q) BY <1>1 DEF On
  <1>5. QED BY <1>2, <1>3, <1>4

(* Taking a fragment moves one reference from the cache to the fragment *)
LEMMA TakeSound ==
    ASSUME NEW pg, NEW cs, NEW lv, Sound(pg, cs, lv),
           NEW k \in Keys, NEW p \in Pages, p \in cs[k].page,
           NEW i \in Ids, ~lv[i].alive, NEW n \in Sizes, NEW r \in Rings,
           NEW off \in 0..PAGE_FRAG_CACHE_MAX_SIZE, off + 1 < cs[k].bias,
           NEW c2, c2 = [page |-> {p}, offset |-> off, bias |-> cs[k].bias - 1],
           NEW pg2, pg2 = Ringed(pg, p, r),
           NEW cs2, cs2 = With(cs, k, c2),
           NEW lv2, lv2 = With(lv, i, Frag(p, off, n, r))
    PROVE  Sound(pg2, cs2, lv2)
  <1>1. /\ pg \in [Pages -> PageState] /\ cs \in [Keys -> CacheState]
        /\ lv \in [Ids -> FragState]
        /\ PAGE_FRAG_CACHE_MAX_SIZE \in Nat
    BY SizeAssumption DEF Sound, Types
  <1>2. cs[k].bias \in 0..(PAGE_FRAG_CACHE_MAX_SIZE + 1)
    BY <1>1 DEF CacheState, PAGE_FRAG_CACHE_BIAS
  <1>3. /\ c2 \in CacheState /\ p \in c2.page /\ c2.bias = cs[k].bias - 1
        /\ c2.offset = off
    BY <1>1, <1>2 DEF CacheState, PAGE_FRAG_CACHE_BIAS
  <1>4. /\ pg2 \in [Pages -> PageState]
        /\ \A q \in Pages : /\ pg2[q].refcount = pg[q].refcount
                            /\ pg2[q].size = pg[q].size
                            /\ pg2[q].used = pg[q].used
    BY <1>1 DEF PageState, Ringed
  <1>5. Frag(p, off, n, r) \in FragState BY DEF Frag, FragState
  <1>6. /\ \A h \in Keys : cs2[h].page = cs[h].page
        /\ \A h \in Keys : h # k => cs2[h] = cs[h]
        /\ cs2[k] = c2
    <2>1. /\ \A h \in Keys : h # k => cs2[h] = cs[h]
          /\ cs2[k] = c2
      BY <1>1 DEF With
    <2>2. c2.page = cs[k].page BY <1>1, OnePage
    <2>3. QED BY <2>1, <2>2
  <1>7. /\ Cardinality(On(lv2, p)) = Cardinality(On(lv, p)) + 1
        /\ \A q \in Pages : q # p => On(lv2, q) = On(lv, q)
    BY <1>1, OnAdd
  <1>8. Types(pg2, cs2, lv2) BY <1>1, <1>3, <1>4, <1>5 DEF Types, With
  <1>9. Counted(pg2) BY <1>4 DEF Counted, Sound
  <1>10. CacheSound(pg2, cs2)
    <2>1. \A h, m \in Keys, q \in Pages : q \in cs2[h].page /\ q \in cs2[m].page => h = m
      <3>1. CacheSound(pg, cs) BY DEF Sound
      <3>2. \A h, m \in Keys, q \in Pages : q \in cs[h].page /\ q \in cs[m].page => h = m
        BY <3>1 DEF CacheSound
      <3>3. QED BY <3>2, <1>6
    <2>2. c2.bias > c2.offset BY <1>1, <1>2, <1>3
    <2>3. \A h \in Keys : cs2[h].page # {} => cs2[h].bias > cs2[h].offset
      BY <2>2, <1>6 DEF Sound, CacheSound
    <2>4. \A h \in Keys, q \in Pages :
            q \in cs2[h].page => pg2[q].size <= PAGE_FRAG_CACHE_MAX_SIZE
      BY <1>4, <1>6 DEF Sound, CacheSound
    <2>5. QED BY <2>1, <2>3, <2>4 DEF CacheSound
  <1>11. ASSUME NEW q \in Pages PROVE Exact(pg2, cs2, lv2, q)
    <2>1. CASE q = p
      <3>1. \A h \in Keys : p \in cs2[h].page => h = k BY <1>6 DEF Sound, CacheSound
      <3>2. pg[p].refcount = cs[k].bias + Cardinality(On(lv, p)) BY DEF Sound, Exact
      <3>3. pg2[p].refcount = c2.bias + Cardinality(On(lv2, p))
        BY <3>2, <1>2, <1>3, <1>4, <1>7, OnCard
      <3>4. QED BY <2>1, <3>1, <3>3, <1>6 DEF Exact
    <2>2. CASE q # p
      <3>1. q \notin cs[k].page BY <2>2, <1>1, OnePage
      <3>2. On(lv2, q) = On(lv, q) /\ pg2[q].refcount = pg[q].refcount
        BY <2>2, <1>4, <1>7
      <3>3. Exact(pg, cs, lv, q) BY DEF Sound
      <3>4. QED BY <3>1, <3>2, <3>3, <1>6 DEF Exact
    <2>3. QED BY <2>1, <2>2
  <1>12. QED BY <1>8, <1>9, <1>10, <1>11 DEF Sound

(* Freeing a fragment gives its reference back; a page in a cache cannot   *)
(* be freed by it                                                          *)
LEMMA FreeSound ==
    ASSUME NEW pg, NEW cs, NEW lv, Sound(pg, cs, lv),
           NEW i \in Ids, lv[i].alive, NEW p, p = lv[i].page
    PROVE  Sound(Unref(pg, p, 1), cs, With(lv, i, Dead))
  <1> DEFINE pg2 == Unref(pg, p, 1)
             lv2 == With(lv, i, Dead)
  <1>1. /\ pg \in [Pages -> PageState] /\ cs \in [Keys -> CacheState]
        /\ lv \in [Ids -> FragState]
    BY DEF Sound, Types
  <1>2. p \in Pages
    <2>1. lv[i] \in FragState /\ lv[i] # Dead BY <1>1 DEF Dead
    <2>2. lv[i] \in [alive : {TRUE}, page : Pages, offset : Nat, size : Sizes, ring : Rings]
      BY <2>1 DEF FragState
    <2>3. QED BY <2>2
  <1>3. i \in On(lv, p) BY DEF On
  <1>4. /\ \A j \in Ids : j # i => lv2[j] = lv[j]
        /\ ~lv2[i].alive
        /\ lv2 \in [Ids -> FragState]
    BY <1>1 DEF With, Dead, FragState
  <1>5. On(lv2, p) = On(lv, p) \ {i} BY <1>4 DEF On
  <1>6. \A q \in Pages : q # p => On(lv2, q) = On(lv, q) BY <1>4 DEF On
  <1>7. Cardinality(On(lv2, p)) = Cardinality(On(lv, p)) - 1
    BY <1>3, <1>5, OnCard, FS_RemoveElement
  <1>8. Cardinality(On(lv, p)) \in Nat /\ Cardinality(On(lv, p)) >= 1
    BY <1>3, OnCard, FS_EmptySet
  <1>9. \A k \in Keys : p \in cs[k].page =>
          cs[k].bias \in Nat /\ cs[k].bias >= 1
    <2>1. CacheSound(pg, cs) BY DEF Sound
    <2>2. QED BY <1>1, <2>1, SizeAssumption DEF CacheSound, CacheState, PAGE_FRAG_CACHE_BIAS
  <1>10. Exact(pg, cs, lv, p) BY <1>2 DEF Sound
  <1>11. pg[p].refcount \in Nat /\ pg[p].refcount >= 1
    BY <1>8, <1>9, <1>10 DEF Exact
  <1>12. pg[p].used BY <1>2, <1>11 DEF Sound, Counted
  <1>13. /\ pg2 \in [Pages -> PageState]
         /\ \A q \in Pages : q # p => pg2[q] = pg[q]
         /\ pg2[p].refcount = pg[p].refcount - 1
         /\ pg2[p].used <=> pg[p].refcount # 1
         /\ pg[p].refcount # 1 => pg2[p].size = pg[p].size
    BY <1>1, <1>2, <1>11, <1>12, UnrefShape
  <1>14. Types(pg2, cs, lv2) BY <1>1, <1>4, <1>13 DEF Types
  <1>15. Counted(pg2)
    <2>1. pg2[p].used <=> pg2[p].refcount # 0 BY <1>11, <1>13
    <2>2. Counted(pg) BY DEF Sound
    <2>3. QED BY <1>13, <2>1, <2>2 DEF Counted
  <1>16. CacheSound(pg2, cs)
    <2>1. CacheSound(pg, cs) BY DEF Sound
    <2>2. ASSUME NEW k \in Keys, p \in cs[k].page PROVE pg[p].refcount # 1
      BY <2>2, <1>8, <1>9, <1>10 DEF Exact
    <2>3. \A k \in Keys, q \in Pages : q \in cs[k].page => pg2[q].size = pg[q].size
      BY <1>13, <2>2
    <2>4. QED BY <2>1, <2>3 DEF CacheSound
  <1>17. ASSUME NEW q \in Pages PROVE Exact(pg2, cs, lv2, q)
    <2>1. CASE q = p
      BY <2>1, <1>7, <1>8, <1>9, <1>10, <1>13 DEF Exact
    <2>2. CASE q # p
      <3>1. Exact(pg, cs, lv, q) BY DEF Sound
      <3>2. QED BY <2>2, <3>1, <1>6, <1>13 DEF Exact
    <2>3. QED BY <2>1, <2>2
  <1>18. QED BY <1>14, <1>15, <1>16, <1>17 DEF Sound

(* A page of its own for one fragment *)
LEMMA DirectSound ==
    ASSUME NEW pg, NEW cs, NEW lv, Sound(pg, cs, lv),
           NEW p \in Pages, ~pg[p].used,
           NEW i \in Ids, ~lv[i].alive, NEW n \in Sizes, NEW r \in Rings,
           NEW rec \in PageState, rec.refcount = 1, rec.used
    PROVE  Sound(With(pg, p, rec), cs, With(lv, i, Frag(p, 0, n, r)))
  <1> DEFINE pg2 == With(pg, p, rec)
             lv2 == With(lv, i, Frag(p, 0, n, r))
  <1>1. /\ pg \in [Pages -> PageState] /\ cs \in [Keys -> CacheState]
        /\ lv \in [Ids -> FragState]
    BY DEF Sound, Types
  <1>2. (\A k \in Keys : p \notin cs[k].page) /\ On(lv, p) = {} BY UnusedAlone
  <1>3. rec \in PageState /\ rec.refcount = 1 /\ rec.used OBVIOUS
  <1>4. /\ pg2 \in [Pages -> PageState]
        /\ \A q \in Pages : q # p => pg2[q] = pg[q]
        /\ pg2[p] = rec
    BY <1>1, <1>3 DEF With
  <1>5. Frag(p, 0, n, r) \in FragState BY DEF Frag, FragState
  <1>6. lv2 \in [Ids -> FragState] BY <1>1, <1>5 DEF With
  <1>7. /\ Cardinality(On(lv2, p)) = Cardinality(On(lv, p)) + 1
        /\ \A q \in Pages : q # p => On(lv2, q) = On(lv, q)
    BY <1>1, OnAdd
  <1>8. Cardinality(On(lv2, p)) = 1 BY <1>2, <1>7, FS_EmptySet
  <1>9. Types(pg2, cs, lv2) BY <1>1, <1>4, <1>6 DEF Types
  <1>10. Counted(pg2)
    <2>1. Counted(pg) BY DEF Sound
    <2>2. pg2[p].used <=> pg2[p].refcount # 0 BY <1>3, <1>4
    <2>3. \A q \in Pages : q # p => (pg2[q].used <=> pg2[q].refcount # 0)
      BY <2>1, <1>4 DEF Counted
    <2>4. QED BY <2>2, <2>3 DEF Counted
  <1>11. CacheSound(pg2, cs)
    <2>1. CacheSound(pg, cs) BY DEF Sound
    <2>2. QED BY <2>1, <1>2, <1>4 DEF CacheSound
  <1>12. ASSUME NEW q \in Pages PROVE Exact(pg2, cs, lv2, q)
    <2>1. CASE q = p BY <2>1, <1>2, <1>3, <1>4, <1>8 DEF Exact
    <2>2. CASE q # p
      <3>1. Exact(pg, cs, lv, q) BY DEF Sound
      <3>2. QED BY <2>2, <3>1, <1>4, <1>7 DEF Exact
    <2>3. QED BY <2>1, <2>2
  <1>13. QED BY <1>9, <1>10, <1>11, <1>12 DEF Sound

-----------------------------------------------------------------------------
(* The pieces together *)

(* What a request finds at hand is sound, with the cache in it *)
LEMMA AtHandSound ==
    ASSUME Sound(page, cache, live), NEW k \in Keys, NEW st \in AtHand(k)
    PROVE  Sound(st.pages, With(cache, k, st.c), live)
  <1>1. cache \in [Keys -> CacheState] BY DEF Sound, Types
  <1>2. CASE cache[k].page = {}
    <2>1. st \in refill(page) BY <1>2 DEF AtHand
    <2>2. QED BY <1>2, <2>1, RefillSound
  <1>3. CASE cache[k].page # {}
    <2>1. st = [pages |-> page, c |-> cache[k]] BY <1>3 DEF AtHand
    <2>2. st.pages = page /\ st.c = cache[k] BY <2>1
    <2>3. With(cache, k, cache[k]) = cache BY <1>1 DEF With
    <2>4. QED BY <2>2, <2>3
  <1>4. QED BY <1>2, <1>3

(* Take, from any sound state in which the page is at hand *)
LEMMA TakeStep ==
    ASSUME NEW st, NEW k \in Keys, Sound(st.pages, With(cache, k, st.c), live),
           cache \in [Keys -> CacheState],
           NEW p \in Pages, p \in st.c.page,
           NEW i \in Ids, ~live[i].alive, NEW n \in Sizes, NEW r \in Rings,
           NEW off \in 0..PAGE_FRAG_CACHE_MAX_SIZE, off + 1 < st.c.bias,
           Take(st, k, i, p, off, n, r)
    PROVE  Sound(page', cache', live')
  <1> DEFINE cs == With(cache, k, st.c)
  <1>1. cs[k] = st.c BY DEF With
  <1>2. PICK c2 : c2 = [page |-> {p}, offset |-> off, bias |-> cs[k].bias - 1] OBVIOUS
  <1>3. page' = Ringed(st.pages, p, r) BY DEF Take, Ringed
  <1>4. cache' = With(cs, k, c2) BY <1>1, <1>2 DEF Take, With
  <1>5. live' = With(live, i, Frag(p, off, n, r)) BY DEF Take, With, Frag
  <1> HIDE DEF cs
  <1>6. Sound(st.pages, cs, live) BY DEF cs
  <1>7. p \in cs[k].page /\ off + 1 < cs[k].bias BY <1>1
  <1>8. QED BY <1>2, <1>3, <1>4, <1>5, <1>6, <1>7, TakeSound

(* The cache k of a sound state: its page, offset and bias *)
LEMMA CacheFacts ==
    ASSUME NEW pg, NEW cs, NEW c, NEW k \in Keys, cs \in [Keys -> CacheState],
           Sound(pg, With(cs, k, c), live), NEW p \in Pages, p \in c.page
    PROVE  /\ c.offset \in 0..PAGE_FRAG_CACHE_MAX_SIZE
           /\ c.bias \in Nat /\ c.bias > c.offset
           /\ pg[p].size \in Nat /\ pg[p].size <= PAGE_FRAG_CACHE_MAX_SIZE
  <1>1. With(cs, k, c)[k] = c BY DEF With
  <1>2. PICK d : d = With(cs, k, c) OBVIOUS
  <1>3. d[k] = c /\ Sound(pg, d, live) BY <1>1, <1>2
  <1>4. d \in [Keys -> CacheState] /\ pg \in [Pages -> PageState] /\ CacheSound(pg, d)
    BY <1>3 DEF Sound, Types
  <1>5. c \in CacheState /\ pg[p] \in PageState BY <1>3, <1>4
  <1>6. /\ c.bias > c.offset
        /\ pg[p].size <= PAGE_FRAG_CACHE_MAX_SIZE
    BY <1>3, <1>4 DEF CacheSound
  <1>7. QED BY <1>5, <1>6, SizeAssumption DEF CacheState, PageState, PAGE_FRAG_CACHE_BIAS

LEMMA AllocateStep ==
    ASSUME Sound(page, cache, live), NEW k \in Keys, NEW i \in Ids, NEW n \in Sizes,
           NEW r \in Rings, allocate(k, i, n, r)
    PROVE  Sound(page', cache', live')
  <1>1. cache \in [Keys -> CacheState] BY DEF Sound, Types
  <1>2. PICK st \in AtHand(k), p \in Pages :
          /\ p \in st.c.page
          /\ \/ /\ n <= st.c.offset
                /\ Take(st, k, i, p, st.c.offset - n, n, r)
             \/ /\ ~(n <= st.c.offset)
                /\ \E st2 \in rollover(st.pages, st.c, p), q \in Pages :
                      /\ q \in st2.c.page
                      /\ \/ /\ n <= st2.pages[q].size
                            /\ Take(st2, k, i, q, st2.pages[q].size - n, n, r)
                         \/ ~(n <= st2.pages[q].size) /\ Fail(st2, k)
    BY DEF allocate, Fits
  <1>3. ~live[i].alive BY DEF allocate
  <1>4. n \in Nat /\ n >= 1 /\ PAGE_FRAG_CACHE_MAX_SIZE \in Nat BY SizeAssumption
  <1>5. Sound(st.pages, With(cache, k, st.c), live) BY AtHandSound
  <1>6. CASE n <= st.c.offset /\ Take(st, k, i, p, st.c.offset - n, n, r)
    <2>1. /\ st.c.offset \in 0..PAGE_FRAG_CACHE_MAX_SIZE
          /\ st.c.bias \in Nat /\ st.c.bias > st.c.offset
      BY <1>1, <1>2, <1>5, CacheFacts
    <2>2. /\ st.c.offset - n \in 0..PAGE_FRAG_CACHE_MAX_SIZE
          /\ (st.c.offset - n) + 1 < st.c.bias
      BY <1>4, <1>6, <2>1
    <2>3. QED BY <1>1, <1>2, <1>3, <1>5, <1>6, <2>2, TakeStep
  <1>7. ASSUME NEW st2 \in rollover(st.pages, st.c, p), NEW q \in Pages,
               q \in st2.c.page,
               \/ /\ n <= st2.pages[q].size
                  /\ Take(st2, k, i, q, st2.pages[q].size - n, n, r)
               \/ ~(n <= st2.pages[q].size) /\ Fail(st2, k)
        PROVE  Sound(page', cache', live')
    <2>1. PICK cs : cs = With(cache, k, st.c) OBVIOUS
    <2>2. cs[k] = st.c /\ With(cs, k, st2.c) = With(cache, k, st2.c)
      BY <1>1, <2>1 DEF With
    <2>3. Sound(st.pages, cs, live) /\ p \in cs[k].page BY <1>2, <1>5, <2>1, <2>2
    <2>4. st2 \in rollover(st.pages, cs[k], p) BY <2>2
    <2>5. Sound(st2.pages, With(cs, k, st2.c), live) /\ FreshCache(st2.c, live)
      BY <2>3, <2>4, RolloverSound
    <2>6. Sound(st2.pages, With(cache, k, st2.c), live) BY <2>2, <2>5
    <2>7. CASE n <= st2.pages[q].size /\ Take(st2, k, i, q, st2.pages[q].size - n, n, r)
      <3>1. st2.pages[q].size \in Nat /\ st2.pages[q].size <= PAGE_FRAG_CACHE_MAX_SIZE
        BY <1>1, <1>7, <2>6, CacheFacts
      <3>2. st2.c.bias = PAGE_FRAG_CACHE_MAX_SIZE + 1
        BY <2>5 DEF FreshCache, PAGE_FRAG_CACHE_BIAS
      <3>3. /\ st2.pages[q].size - n \in 0..PAGE_FRAG_CACHE_MAX_SIZE
            /\ (st2.pages[q].size - n) + 1 < st2.c.bias
        BY <1>4, <2>7, <3>1, <3>2
      <3>4. QED BY <1>1, <1>3, <1>7, <2>6, <2>7, <3>3, TakeStep
    <2>8. CASE Fail(st2, k)
      <3>1. page' = st2.pages /\ cache' = With(cache, k, st2.c) /\ live' = live
        BY <2>8 DEF Fail, With
      <3>2. QED BY <2>6, <3>1
    <2>9. QED BY <1>7, <2>7, <2>8
  <1>8. QED BY <1>2, <1>6, <1>7

(* Every step keeps the inductive invariant *)
LEMMA SoundStep ==
    ASSUME Sound(page, cache, live), [Next]_vars
    PROVE  Sound(page', cache', live')
  <1>1. ASSUME NEW i \in Ids, NEW n \in Sizes, NEW r \in Rings, NEW l \in Lanes,
               allocate_pagefrag(i, n, r, l)
        PROVE  Sound(page', cache', live')
    <2>1. cache_key(r, l) \in Keys BY DEF Keys, cache_key
    <2>2. QED BY <1>1, <2>1, AllocateStep DEF allocate_pagefrag
  <1>2. ASSUME NEW i \in Ids, NEW n \in Sizes, NEW r \in Rings, allocate_direct(i, n, r)
        PROVE  Sound(page', cache', live')
    <2>1. PICK p \in Pages :
            /\ ~page[p].used
            /\ page' = [page EXCEPT ![p] =
                 [used |-> TRUE, size |-> ((n + PAGE_SIZE - 1) \div PAGE_SIZE) * PAGE_SIZE,
                  pfmemalloc |-> FALSE, refcount |-> 1, rings |-> {r}]]
            /\ live' = [live EXCEPT ![i] =
                 [alive |-> TRUE, page |-> p, offset |-> 0, size |-> n, ring |-> r]]
      BY <1>2 DEF allocate_direct, backing
    <2>2. ((n + PAGE_SIZE - 1) \div PAGE_SIZE) * PAGE_SIZE \in Nat
      <3>1. PAGE_SIZE \in Nat \ {0} /\ n + PAGE_SIZE - 1 \in Nat BY SizeAssumption
      <3>2. (n + PAGE_SIZE - 1) \div PAGE_SIZE \in Nat BY <3>1
      <3>3. QED BY <3>1, <3>2
    <2>3. PICK z \in Nat : z = ((n + PAGE_SIZE - 1) \div PAGE_SIZE) * PAGE_SIZE BY <2>2
    <2>4. PICK rec : rec = [used |-> TRUE, size |-> z, pfmemalloc |-> FALSE,
                            refcount |-> 1, rings |-> {r}] OBVIOUS
    <2>5. page' = With(page, p, rec) BY <2>1, <2>3, <2>4 DEF With
    <2>6. live' = With(live, i, Frag(p, 0, n, r)) BY <2>1 DEF With, Frag
    <2>7. cache' = cache /\ ~live[i].alive BY <1>2 DEF allocate_direct
    <2>8. rec \in PageState /\ rec.refcount = 1 /\ rec.used BY <2>4 DEF PageState
    <2>9. Sound(With(page, p, rec), cache, With(live, i, Frag(p, 0, n, r)))
      BY <2>1, <2>7, <2>8, DirectSound
    <2>10. QED BY <2>5, <2>6, <2>7, <2>9
  <1>3. ASSUME NEW i \in Ids, free(i) PROVE Sound(page', cache', live')
    <2>1. /\ live[i].alive /\ page' = Unref(page, live[i].page, 1)
          /\ live' = With(live, i, Dead) /\ cache' = cache
      BY <1>3 DEF free, With
    <2>2. QED BY <2>1, FreeSound
  <1>4. ASSUME NEW k \in Keys, drain(k) PROVE Sound(page', cache', live')
    <2>1. PICK p \in Pages : p \in cache[k].page /\ page' = Unref(page, p, cache[k].bias)
      BY <1>4 DEF drain
    <2>2. cache' = With(cache, k, NoCache) /\ live' = live BY <1>4 DEF drain, With
    <2>3. QED BY <2>1, <2>2, LeaveSound
  <1>5. ASSUME UNCHANGED vars PROVE Sound(page', cache', live')
    BY <1>5 DEF vars
  <1>6. QED BY <1>1, <1>2, <1>3, <1>4, <1>5 DEF Next, Alloc

LEMMA SoundInit == Init => Sound(page, cache, live)
  <1> SUFFICES ASSUME Init PROVE Sound(page, cache, live) OBVIOUS
  <1>1. FreePage \in PageState /\ FreePage.refcount = 0 /\ FreePage.used = FALSE
    BY DEF FreePage, PageState
  <1>2. NoCache \in CacheState /\ NoCache.page = {}
    BY SizeAssumption DEF NoCache, CacheState, PAGE_FRAG_CACHE_BIAS
  <1>3. Types(page, cache, live) BY <1>1, <1>2 DEF Types, Init, FragState
  <1>4. \A p \in Pages : page[p] = FreePage BY DEF Init
  <1>5. \A k \in Keys : cache[k] = NoCache BY DEF Init
  <1>6. \A p : On(live, p) = {} BY DEF Init, On, Dead
  <1>7. Counted(page) BY <1>1, <1>4 DEF Counted
  <1>8. CacheSound(page, cache) BY <1>2, <1>5 DEF CacheSound
  <1>9. ASSUME NEW p \in Pages PROVE Exact(page, cache, live, p)
    <2>1. Cardinality(On(live, p)) = 0 BY <1>6, FS_EmptySet
    <2>2. QED BY <2>1, <1>1, <1>2, <1>4, <1>5 DEF Exact
  <1>10. QED BY <1>3, <1>7, <1>8, <1>9 DEF Sound

(* The inductive invariant holds throughout *)
LEMMA AlwaysSound == Spec => []Sound(page, cache, live)
  <1>1. Sound(page, cache, live) /\ [Next]_vars => Sound(page, cache, live)'
    <2> SUFFICES ASSUME Sound(page, cache, live), [Next]_vars
                 PROVE  Sound(page, cache, live)'
      OBVIOUS
    <2>1. Sound(page', cache', live') BY SoundStep
    <2>2. QED BY <2>1 DEF Sound, Types, Counted, CacheSound, Exact, On
  <1>2. QED BY <1>1, SoundInit, PTL DEF Spec

-----------------------------------------------------------------------------
(* The theorems *)

(* Pages, caches and fragments keep their types: no count or bias goes     *)
(* negative, no offset leaves the page.                                    *)
THEOREM TypeCorrect == Spec => []TypeOK
  <1>1. Sound(page, cache, live) /\ policy \in Policies => TypeOK
    BY DEF Sound, Types, TypeOK
  <1>2. Spec => [](policy \in Policies)
    <2>1. Init => policy \in Policies BY DEF Init
    <2>2. policy \in Policies /\ [Next]_vars => (policy \in Policies)' BY DEF Next, vars
    <2>3. QED BY <2>1, <2>2, PTL DEF Spec
  <1>3. QED BY <1>1, <1>2, AlwaysSound, PTL

(* The reference count of every page is exact: bias plus live fragments.   *)
THEOREM RefcountCorrect == Spec => []RefcountExact
  <1>1. ASSUME Sound(page, cache, live) PROVE RefcountExact
    <2>1. \A p \in Pages : Exact(page, cache, live, p) BY <1>1 DEF Sound
    <2>2. \A p : LiveOn(p) = On(live, p) BY DEF LiveOn, On
    <2>3. QED BY <2>1, <2>2 DEF RefcountExact, Exact, CachedIn
  <1>2. QED BY <1>1, AlwaysSound, PTL

(* No page is freed while a cache carves from it or a fragment lives on    *)
(* it, for all sizes and any number of caches and fragments.               *)
THEOREM UseAfterFreeImpossible == Spec => []NoUseAfterFree
  <1>1. ASSUME Sound(page, cache, live) PROVE NoUseAfterFree
    <2>1. ASSUME NEW p \in Pages, ~page[p].used
          PROVE  (\A k \in Keys : p \notin cache[k].page) /\ On(live, p) = {}
      BY <1>1, <2>1, UnusedAlone
    <2>2. ASSUME NEW i \in Ids, live[i].alive PROVE page[live[i].page].used
      <3>1. live[i] \in FragState /\ live[i] # Dead
        BY <1>1, <2>2 DEF Sound, Types, Dead
      <3>2. live[i] \in [alive : {TRUE}, page : Pages, offset : Nat, size : Sizes, ring : Rings]
        BY <3>1 DEF FragState
      <3>3. live[i].page \in Pages /\ i \in On(live, live[i].page)
        BY <2>2, <3>2 DEF On
      <3>4. QED BY <2>1, <3>3
    <2>3. QED BY <2>1, <2>2 DEF NoUseAfterFree
  <1>2. QED BY <1>1, AlwaysSound, PTL

(* No page stays allocated once no cache and no fragment needs it.         *)
THEOREM LeakImpossible == Spec => []NoPageLeak
  <1>1. ASSUME Sound(page, cache, live) PROVE NoPageLeak
    <2>1. SUFFICES ASSUME NEW p \in Pages, page[p].used, CachedIn(p) = {}
                   PROVE  LiveOn(p) # {}
      BY DEF NoPageLeak
    <2>2. page[p].refcount # 0 BY <1>1, <2>1 DEF Sound, Counted
    <2>3. \A k \in Keys : p \notin cache[k].page BY <2>1 DEF CachedIn
    <2>4. page[p].refcount = Cardinality(On(live, p)) BY <1>1, <2>3 DEF Sound, Exact
    <2>5. On(live, p) # {} BY <2>2, <2>4, FS_EmptySet
    <2>6. QED BY <2>5 DEF LiveOn, On
  <1>2. QED BY <1>1, AlwaysSound, PTL

-----------------------------------------------------------------------------
(* Where fragments lie, and whose they are *)

Disjoint(f, g) == f.offset + f.size <= g.offset \/ g.offset + g.size <= f.offset

(* The fragments on page p lie inside it and apart from each other, all of *)
(* them in the part that its cache has already carved.                     *)
Carved(pg, cs, lv, p) ==
    /\ \A i \in On(lv, p) : lv[i].offset + lv[i].size <= pg[p].size
    /\ \A i, j \in On(lv, p) : i # j => Disjoint(lv[i], lv[j])
    /\ \A k \in Keys : p \in cs[k].page =>
        /\ cs[k].offset <= pg[p].size
        /\ \A i \in On(lv, p) : cs[k].offset <= lv[i].offset

(* The rings that ever had a fragment of page p are those its cache        *)
(* serves; no two data rings among them unless the caches are shared.      *)
Owned(pg, cs, p) ==
    /\ \A k \in Keys : p \in cs[k].page =>
        \A r \in pg[p].rings : \E l \in Lanes : cache_key(r, l) = k
    /\ policy # "shared" => \A r \in pg[p].rings \ CeRings : pg[p].rings = {r}

LaidOn(pg, cs, lv, p) == Carved(pg, cs, lv, p) /\ Owned(pg, cs, p)
Laid(pg, cs, lv) == \A p \in Pages : LaidOn(pg, cs, lv, p)

(* A page stays laid out while it only loses fragments or its cache *)
LEMMA LaidFrame ==
    ASSUME NEW pg, NEW cs, NEW lv, NEW pg2, NEW cs2, NEW lv2, NEW q,
           LaidOn(pg, cs, lv, q),
           pg2[q].size = pg[q].size, pg2[q].rings = pg[q].rings,
           On(lv2, q) \subseteq On(lv, q), \A i \in On(lv2, q) : lv2[i] = lv[i],
           \A h \in Keys : q \in cs2[h].page =>
                q \in cs[h].page /\ cs2[h].offset = cs[h].offset
    PROVE  LaidOn(pg2, cs2, lv2, q)
  <1>1. Carved(pg2, cs2, lv2, q) BY DEF LaidOn, Carved
  <1>2. Owned(pg2, cs2, q) BY DEF LaidOn, Owned
  <1>3. QED BY <1>1, <1>2 DEF LaidOn

(* A page without fragments or rings is laid out if its cache starts in it *)
LEMMA LaidEmpty ==
    ASSUME NEW pg, NEW cs, NEW lv, NEW q, On(lv, q) = {}, pg[q].rings = {},
           \A h \in Keys : q \in cs[h].page => cs[h].offset <= pg[q].size
    PROVE  LaidOn(pg, cs, lv, q)
  BY DEF LaidOn, Carved, Owned

(* Two rings whose requests go to one cache share pages only as allowed *)
LEMMA KeyApart ==
    ASSUME policy # "shared", NEW r, NEW s, NEW l, NEW m, cache_key(r, l) = cache_key(s, m),
           r \notin CeRings
    PROVE  r = s
  BY DEF cache_key

(* What Unref leaves of a page *)
LEMMA UnrefRest ==
    ASSUME NEW pg \in [Pages -> PageState], NEW p \in Pages, NEW n \in Nat
    PROVE  /\ \A q \in Pages : q # p => Unref(pg, p, n)[q] = pg[q]
           /\ pg[p].refcount # n => /\ Unref(pg, p, n)[p].size = pg[p].size
                                    /\ Unref(pg, p, n)[p].rings = pg[p].rings
           /\ pg[p].refcount = n => Unref(pg, p, n)[p].rings = {}
  <1>1. CASE pg[p].refcount = n BY <1>1 DEF Unref, FreePage
  <1>2. CASE pg[p].refcount # n
    <2>1. Unref(pg, p, n) = [pg EXCEPT ![p].refcount = pg[p].refcount - n]
      BY <1>2 DEF Unref
    <2>2. [pg[p] EXCEPT !.refcount = pg[p].refcount - n].size = pg[p].size
      BY DEF PageState
    <2>3. [pg[p] EXCEPT !.refcount = pg[p].refcount - n].rings = pg[p].rings
      BY DEF PageState
    <2>4. QED BY <1>2, <2>1, <2>2, <2>3
  <1>3. QED BY <1>1, <1>2

LEMMA RefillLaid ==
    ASSUME NEW pg, NEW cs, NEW lv, Sound(pg, cs, lv), Laid(pg, cs, lv),
           NEW k \in Keys, cs[k].page = {}, NEW st \in refill(pg)
    PROVE  Laid(st.pages, With(cs, k, st.c), lv)
  <1>1. PICK p \in {q \in Pages : ~pg[q].used},
             z \in {PAGE_SIZE, PAGE_FRAG_CACHE_MAX_SIZE}, m \in BOOLEAN :
          st = [pages |-> [pg EXCEPT ![p] =
                    [used |-> TRUE, size |-> z, pfmemalloc |-> m,
                     refcount |-> 1 + PAGE_FRAG_CACHE_MAX_SIZE, rings |-> {}]],
                c |-> [page |-> {p}, offset |-> z, bias |-> PAGE_FRAG_CACHE_BIAS]]
    BY DEF refill
  <1>2. p \in Pages /\ ~pg[p].used /\ z \in Nat BY SizeAssumption
  <1>3. (\A h \in Keys : p \notin cs[h].page) /\ On(lv, p) = {} BY <1>2, UnusedAlone
  <1>4. pg \in [Pages -> PageState] /\ cs \in [Keys -> CacheState] BY DEF Sound, Types
  <1>5. PICK cs2 : cs2 = With(cs, k, st.c) OBVIOUS
  <1>6. /\ cs2[k].page = {p} /\ cs2[k].offset = z
        /\ \A h \in Keys : h # k => cs2[h] = cs[h]
    BY <1>1, <1>4, <1>5 DEF With
  <1>7. /\ st.pages[p].size = z /\ st.pages[p].rings = {}
        /\ \A q \in Pages : q # p => st.pages[q] = pg[q]
    BY <1>1, <1>2, <1>4
  <1>8. ASSUME NEW q \in Pages PROVE LaidOn(st.pages, cs2, lv, q)
    <2>1. CASE q = p
      <3>1. \A h \in Keys : q \in cs2[h].page => cs2[h].offset <= st.pages[q].size
        BY <1>2, <1>3, <1>6, <1>7, <2>1
      <3>2. QED BY <1>3, <1>7, <2>1, <3>1, LaidEmpty
    <2>2. CASE q # p
      <3>1. \A h \in Keys : q \in cs2[h].page =>
              q \in cs[h].page /\ cs2[h].offset = cs[h].offset
        BY <1>6, <2>2
      <3>2. LaidOn(pg, cs, lv, q) BY DEF Laid
      <3>3. QED BY <1>7, <2>2, <3>1, <3>2, LaidFrame
    <2>3. QED BY <2>1, <2>2
  <1>9. QED BY <1>5, <1>8 DEF Laid

LEMMA LeaveLaid ==
    ASSUME NEW pg, NEW cs, NEW lv, Sound(pg, cs, lv), Laid(pg, cs, lv),
           NEW k \in Keys, NEW p \in Pages, p \in cs[k].page
    PROVE  Laid(Unref(pg, p, cs[k].bias), With(cs, k, NoCache), lv)
  <1>1. pg \in [Pages -> PageState] /\ cs \in [Keys -> CacheState] BY DEF Sound, Types
  <1>2. PICK cs2 : cs2 = With(cs, k, NoCache) OBVIOUS
  <1>3. PICK pg2 : pg2 = Unref(pg, p, cs[k].bias) OBVIOUS
  <1>4. /\ \A q \in Pages : q # p => pg2[q] = pg[q]
        /\ pg[p].refcount # cs[k].bias => /\ pg2[p].size = pg[p].size
                                          /\ pg2[p].rings = pg[p].rings
        /\ pg[p].refcount = cs[k].bias => pg2[p].rings = {}
    <2>1. cs[k].bias \in Nat BY <1>1, SizeAssumption DEF CacheState, PAGE_FRAG_CACHE_BIAS
    <2>2. QED BY <1>1, <1>3, <2>1, UnrefRest
  <1>5. \A h \in Keys, q \in Pages : q \in cs2[h].page =>
          h # k /\ q \in cs[h].page /\ cs2[h].offset = cs[h].offset
    BY <1>1, <1>2 DEF With, NoCache
  <1>6. \A h \in Keys : p \notin cs2[h].page BY <1>5 DEF Sound, CacheSound
  <1>7. pg[p].refcount = cs[k].bias => On(lv, p) = {}
    <2>1. pg[p].refcount = cs[k].bias + Cardinality(On(lv, p)) BY DEF Sound, Exact
    <2>2. cs[k].bias \in Nat BY <1>1, SizeAssumption DEF CacheState, PAGE_FRAG_CACHE_BIAS
    <2>3. QED BY <2>1, <2>2, OnCard, FS_EmptySet
  <1>8. ASSUME NEW q \in Pages PROVE LaidOn(pg2, cs2, lv, q)
    <2>1. LaidOn(pg, cs, lv, q) BY DEF Laid
    <2>2. CASE q = p /\ pg[p].refcount = cs[k].bias
      BY <1>4, <1>6, <1>7, <2>2, LaidEmpty
    <2>3. CASE ~(q = p /\ pg[p].refcount = cs[k].bias)
      <3>1. pg2[q].size = pg[q].size /\ pg2[q].rings = pg[q].rings BY <1>4, <2>3
      <3>2. QED BY <1>5, <2>1, <3>1, LaidFrame
    <2>4. QED BY <2>2, <2>3
  <1>9. QED BY <1>2, <1>3, <1>8 DEF Laid

LEMMA RolloverLaid ==
    ASSUME NEW pg, NEW cs, NEW lv, Sound(pg, cs, lv), Laid(pg, cs, lv),
           NEW k \in Keys, NEW p \in Pages, p \in cs[k].page,
           NEW st \in rollover(pg, cs[k], p)
    PROVE  Laid(st.pages, With(cs, k, st.c), lv)
  <1>1. pg \in [Pages -> PageState] /\ cs \in [Keys -> CacheState] BY DEF Sound, Types
  <1>2. CASE pg[p].refcount # cs[k].bias \/ pg[p].pfmemalloc
    <2>1. PICK pg1 : pg1 = Unref(pg, p, cs[k].bias) OBVIOUS
    <2>2. PICK cs1 : cs1 = With(cs, k, NoCache) OBVIOUS
    <2>3. Sound(pg1, cs1, lv) /\ Laid(pg1, cs1, lv) BY <2>1, <2>2, LeaveSound, LeaveLaid
    <2>4. cs1[k].page = {} /\ With(cs1, k, st.c) = With(cs, k, st.c)
      BY <1>1, <2>2 DEF With, NoCache
    <2>5. st \in refill(pg1) BY <1>2, <2>1 DEF rollover
    <2>6. Laid(st.pages, With(cs1, k, st.c), lv) BY <2>3, <2>4, <2>5, RefillLaid
    <2>7. QED BY <2>4, <2>6
  <1>3. CASE ~(pg[p].refcount # cs[k].bias \/ pg[p].pfmemalloc)
    <2>1. st = [pages |-> Recounted(pg, p), c |-> Refreshed(cs[k])]
      BY <1>3 DEF rollover, Recounted, Refreshed
    <2>2. PICK cs2 : cs2 = With(cs, k, Refreshed(cs[k])) OBVIOUS
    <2>3. PICK pg2 : pg2 = Recounted(pg, p) OBVIOUS
    <2>4. \A q \in Pages : pg2[q].size = pg[q].size /\ pg2[q].rings = pg[q].rings
      BY <1>1, <2>3 DEF Recounted, PageState
    <2>5. \A h \in Keys : cs2[h].page = cs[h].page /\ cs2[h].offset = cs[h].offset
      BY <1>1, <2>2 DEF With, Refreshed, CacheState
    <2>6. ASSUME NEW q \in Pages PROVE LaidOn(pg2, cs2, lv, q)
      <3>1. LaidOn(pg, cs, lv, q) BY DEF Laid
      <3>2. QED BY <2>4, <2>5, <3>1, LaidFrame
    <2>7. st.pages = pg2 /\ With(cs, k, st.c) = cs2 BY <2>1, <2>2, <2>3
    <2>8. QED BY <2>6, <2>7 DEF Laid
  <1>4. QED BY <1>2, <1>3

(* What a live fragment looks like *)
LEMMA FragFacts ==
    ASSUME NEW lv \in [Ids -> FragState], NEW i \in Ids, lv[i].alive
    PROVE  /\ lv[i].page \in Pages /\ lv[i].offset \in Nat
           /\ lv[i].size \in Nat /\ lv[i].size >= 1
  <1>1. lv[i] \in FragState /\ lv[i] # Dead BY DEF Dead
  <1>2. lv[i] \in [alive : {TRUE}, page : Pages, offset : Nat, size : Sizes, ring : Rings]
    BY <1>1 DEF FragState
  <1>3. lv[i].size \in Nat \ {0} BY <1>2, SizeAssumption
  <1>4. QED BY <1>2, <1>3

(* A fragment carved below all others of its page, for a ring its cache    *)
(* serves, keeps the page laid out                                         *)
LEMMA TakeLaid ==
    ASSUME NEW pg, NEW cs, NEW lv, Sound(pg, cs, lv), Laid(pg, cs, lv),
           NEW k \in Keys, NEW p \in Pages, p \in cs[k].page,
           NEW i \in Ids, ~lv[i].alive, NEW n \in Sizes,
           NEW r \in Rings, NEW l \in Lanes, k = cache_key(r, l),
           NEW off \in Nat, off + n <= pg[p].size,
           \A j \in On(lv, p) : off + n <= lv[j].offset,
           NEW c2, c2.page = {p}, c2.offset = off,
           NEW pg2, pg2 = Ringed(pg, p, r),
           NEW cs2, cs2 = With(cs, k, c2),
           NEW lv2, lv2 = With(lv, i, Frag(p, off, n, r))
    PROVE  Laid(pg2, cs2, lv2)
  <1>1. /\ pg \in [Pages -> PageState] /\ cs \in [Keys -> CacheState]
        /\ lv \in [Ids -> FragState] /\ n \in Nat /\ n >= 1
    BY SizeAssumption DEF Sound, Types
  <1>2. /\ \A q \in Pages : q # p => pg2[q] = pg[q]
        /\ pg2[p].size = pg[p].size /\ pg2[p].rings = pg[p].rings \union {r}
    BY <1>1 DEF Ringed, PageState
  <1>3. /\ cs2[k] = c2 /\ \A h \in Keys : h # k => cs2[h] = cs[h]
        /\ \A h \in Keys : cs2[h].page = cs[h].page
        /\ \A h \in Keys : p \in cs[h].page => h = k
    <2>1. cs2[k] = c2 /\ \A h \in Keys : h # k => cs2[h] = cs[h] BY <1>1 DEF With
    <2>2. cs[k].page = {p} BY <1>1, OnePage
    <2>3. QED BY <2>1, <2>2 DEF Sound, CacheSound
  <1>4. /\ lv2[i] = Frag(p, off, n, r) /\ \A j \in Ids : j # i => lv2[j] = lv[j]
        /\ On(lv2, p) = On(lv, p) \union {i} /\ i \notin On(lv, p)
        /\ \A q \in Pages : q # p => On(lv2, q) = On(lv, q)
    <2>1. /\ On(lv2, p) = On(lv, p) \union {i} /\ i \notin On(lv, p)
          /\ \A q \in Pages : q # p => On(lv2, q) = On(lv, q)
      BY <1>1, OnAdd
    <2>2. lv2[i] = Frag(p, off, n, r) /\ \A j \in Ids : j # i => lv2[j] = lv[j]
      BY <1>1 DEF With
    <2>3. QED BY <2>1, <2>2
  <1>5. lv2[i].offset = off /\ lv2[i].size = n BY <1>4 DEF Frag
  <1>6. \A j \in On(lv, p) :
          /\ lv2[j] = lv[j] /\ j # i
          /\ lv[j].offset \in Nat /\ lv[j].size \in Nat
    BY <1>1, <1>4, FragFacts DEF On
  <1>7. LaidOn(pg, cs, lv, p) /\ pg[p].size \in Nat BY <1>1 DEF Laid, PageState
  <1>8. Carved(pg2, cs2, lv2, p)
    <2>1. \A j \in On(lv2, p) : lv2[j].offset + lv2[j].size <= pg2[p].size
      BY <1>2, <1>4, <1>5, <1>6, <1>7 DEF LaidOn, Carved
    <2>2. \A j \in On(lv, p) : Disjoint(lv2[i], lv2[j]) /\ Disjoint(lv2[j], lv2[i])
      BY <1>5, <1>6 DEF Disjoint
    <2>3. \A j, m \in On(lv2, p) : j # m => Disjoint(lv2[j], lv2[m])
      BY <1>4, <1>6, <1>7, <2>2 DEF LaidOn, Carved
    <2>4. \A h \in Keys : p \in cs2[h].page => cs2[h].offset = off BY <1>3
    <2>5. \A j \in On(lv2, p) : off <= lv2[j].offset BY <1>1, <1>4, <1>5, <1>6
    <2>6. off <= pg2[p].size BY <1>1, <1>2, <1>7
    <2>7. QED BY <2>1, <2>3, <2>4, <2>5, <2>6 DEF Carved
  <1>9. Owned(pg2, cs2, p)
    <2>1. \A s \in pg2[p].rings : \E m \in Lanes : cache_key(s, m) = k
      BY <1>2, <1>7 DEF LaidOn, Owned
    <2>2. ASSUME policy # "shared", NEW s \in pg2[p].rings \ CeRings
          PROVE  pg2[p].rings = {s}
      <3>1. PICK m \in Lanes : cache_key(s, m) = k BY <2>1
      <3>2. ASSUME NEW t \in pg2[p].rings PROVE t = s
        <4>1. PICK m2 \in Lanes : cache_key(t, m2) = k BY <2>1
        <4>2. QED BY <2>2, <3>1, <4>1, KeyApart
      <3>3. QED BY <3>2
    <2>3. \A h \in Keys : p \in cs2[h].page => h = k BY <1>3
    <2>4. QED BY <2>1, <2>2, <2>3 DEF Owned
  <1>10. ASSUME NEW q \in Pages, q # p PROVE LaidOn(pg2, cs2, lv2, q)
    <2>1. LaidOn(pg, cs, lv, q) BY DEF Laid
    <2>2. q \notin cs[k].page BY <1>1, <1>10, OnePage
    <2>3. \A h \in Keys : q \in cs2[h].page => q \in cs[h].page /\ cs2[h].offset = cs[h].offset
      BY <1>3, <2>2
    <2>4. \A j \in On(lv2, q) : lv2[j] = lv[j] BY <1>1, <1>4, <1>10 DEF On
    <2>5. QED BY <1>2, <1>4, <1>10, <2>1, <2>3, <2>4, LaidFrame
  <1>11. QED BY <1>8, <1>9, <1>10 DEF Laid, LaidOn

LEMMA FreeLaid ==
    ASSUME NEW pg, NEW cs, NEW lv, Sound(pg, cs, lv), Laid(pg, cs, lv),
           NEW i \in Ids, lv[i].alive, NEW p, p = lv[i].page
    PROVE  Laid(Unref(pg, p, 1), cs, With(lv, i, Dead))
  <1>1. /\ pg \in [Pages -> PageState] /\ cs \in [Keys -> CacheState]
        /\ lv \in [Ids -> FragState]
    BY DEF Sound, Types
  <1>2. p \in Pages BY <1>1, FragFacts
  <1>3. PICK lv2 : lv2 = With(lv, i, Dead) OBVIOUS
  <1>4. PICK pg2 : pg2 = Unref(pg, p, 1) OBVIOUS
  <1>5. /\ \A q \in Pages : q # p => pg2[q] = pg[q]
        /\ pg[p].refcount # 1 => pg2[p].size = pg[p].size /\ pg2[p].rings = pg[p].rings
        /\ pg[p].refcount = 1 => pg2[p].rings = {}
    BY <1>1, <1>2, <1>4, UnrefRest
  <1>6. ~lv2[i].alive /\ \A j \in Ids : j # i => lv2[j] = lv[j]
    BY <1>1, <1>3 DEF With, Dead
  <1>7. \A q \in Pages : On(lv2, q) \subseteq On(lv, q) /\ \A j \in On(lv2, q) : lv2[j] = lv[j]
    BY <1>6 DEF On
  <1>8. ASSUME pg[p].refcount = 1
        PROVE  On(lv2, p) = {} /\ \A h \in Keys : p \notin cs[h].page
    <2>1. Sound(pg2, cs, lv2) BY <1>3, <1>4, FreeSound
    <2>2. pg2[p].used = FALSE BY <1>1, <1>2, <1>4, <1>8 DEF Unref, FreePage
    <2>3. QED BY <1>2, <2>1, <2>2, UnusedAlone
  <1>9. ASSUME NEW q \in Pages PROVE LaidOn(pg2, cs, lv2, q)
    <2>1. LaidOn(pg, cs, lv, q) BY DEF Laid
    <2>2. CASE q = p /\ pg[p].refcount = 1 BY <1>5, <1>8, <2>2, LaidEmpty
    <2>3. CASE ~(q = p /\ pg[p].refcount = 1)
      <3>1. pg2[q].size = pg[q].size /\ pg2[q].rings = pg[q].rings BY <1>5, <2>3
      <3>2. QED BY <1>7, <2>1, <3>1, LaidFrame
    <2>4. QED BY <2>2, <2>3
  <1>10. QED BY <1>3, <1>4, <1>9 DEF Laid

LEMMA DirectLaid ==
    ASSUME NEW pg, NEW cs, NEW lv, Sound(pg, cs, lv), Laid(pg, cs, lv),
           NEW p \in Pages, ~pg[p].used,
           NEW i \in Ids, ~lv[i].alive, NEW n \in Sizes, NEW r \in Rings,
           NEW rec, rec.rings = {r}, n <= rec.size
    PROVE  Laid(With(pg, p, rec), cs, With(lv, i, Frag(p, 0, n, r)))
  <1>1. pg \in [Pages -> PageState] /\ lv \in [Ids -> FragState] /\ n \in Nat
    BY SizeAssumption DEF Sound, Types
  <1>2. (\A k \in Keys : p \notin cs[k].page) /\ On(lv, p) = {} BY UnusedAlone
  <1>3. PICK pg2 : pg2 = With(pg, p, rec) OBVIOUS
  <1>4. PICK lv2 : lv2 = With(lv, i, Frag(p, 0, n, r)) OBVIOUS
  <1>5. pg2[p] = rec /\ \A q \in Pages : q # p => pg2[q] = pg[q] BY <1>1, <1>3 DEF With
  <1>6. /\ On(lv2, p) = {i} /\ lv2[i].offset + lv2[i].size = n
        /\ \A q \in Pages : q # p => On(lv2, q) = On(lv, q)
        /\ \A j \in Ids : j # i => lv2[j] = lv[j]
    <2>1. /\ On(lv2, p) = On(lv, p) \union {i}
          /\ \A q \in Pages : q # p => On(lv2, q) = On(lv, q)
      BY <1>1, <1>4, OnAdd
    <2>2. lv2[i] = Frag(p, 0, n, r) /\ \A j \in Ids : j # i => lv2[j] = lv[j]
      BY <1>1, <1>4 DEF With
    <2>3. lv2[i].offset + lv2[i].size = n BY <1>1, <2>2 DEF Frag
    <2>4. QED BY <1>2, <2>1, <2>2, <2>3
  <1>7. ASSUME NEW q \in Pages PROVE LaidOn(pg2, cs, lv2, q)
    <2>1. CASE q = p
      <3>1. Carved(pg2, cs, lv2, p) BY <1>2, <1>5, <1>6 DEF Carved
      <3>2. Owned(pg2, cs, p) BY <1>2, <1>5 DEF Owned
      <3>3. QED BY <2>1, <3>1, <3>2 DEF LaidOn
    <2>2. CASE q # p
      <3>1. LaidOn(pg, cs, lv, q) BY DEF Laid
      <3>2. \A j \in On(lv2, q) : lv2[j] = lv[j] BY <1>1, <1>6, <2>2 DEF On
      <3>3. QED BY <1>5, <1>6, <2>2, <3>1, <3>2, LaidFrame
    <2>3. QED BY <2>1, <2>2
  <1>8. QED BY <1>3, <1>4, <1>7 DEF Laid

(* Take, from any laid-out state in which the page is at hand *)
LEMMA TakeLaidStep ==
    ASSUME NEW st, NEW k \in Keys, NEW cs, cs = With(cache, k, st.c),
           Sound(st.pages, cs, live), Laid(st.pages, cs, live),
           cache \in [Keys -> CacheState],
           NEW p \in Pages, p \in st.c.page,
           NEW i \in Ids, ~live[i].alive, NEW n \in Sizes,
           NEW r \in Rings, NEW l \in Lanes, k = cache_key(r, l),
           NEW off \in Nat, off + n <= st.pages[p].size,
           \A j \in On(live, p) : off + n <= live[j].offset,
           Take(st, k, i, p, off, n, r)
    PROVE  Laid(page', cache', live')
  <1>1. cs[k] = st.c BY DEF With
  <1>2. PICK c2 : c2 = [page |-> {p}, offset |-> off, bias |-> st.c.bias - 1] OBVIOUS
  <1>3. c2.page = {p} /\ c2.offset = off BY <1>2
  <1>4. page' = Ringed(st.pages, p, r) BY DEF Take, Ringed
  <1>5. cache' = With(cs, k, c2) BY <1>2 DEF Take, With
  <1>6. live' = With(live, i, Frag(p, off, n, r)) BY DEF Take, With, Frag
  <1>7. p \in cs[k].page BY <1>1
  <1>8. QED BY <1>3, <1>4, <1>5, <1>6, <1>7, TakeLaid

LEMMA AllocateLaid ==
    ASSUME Sound(page, cache, live), Laid(page, cache, live), NEW k \in Keys,
           NEW i \in Ids, NEW n \in Sizes, NEW r \in Rings, NEW l \in Lanes,
           k = cache_key(r, l), allocate(k, i, n, r)
    PROVE  Laid(page', cache', live')
  <1>1. cache \in [Keys -> CacheState] BY DEF Sound, Types
  <1>2. PICK st \in AtHand(k), p \in Pages :
          /\ p \in st.c.page
          /\ \/ /\ n <= st.c.offset
                /\ Take(st, k, i, p, st.c.offset - n, n, r)
             \/ \E st2 \in rollover(st.pages, st.c, p), q \in Pages :
                      /\ q \in st2.c.page
                      /\ \/ /\ n <= st2.pages[q].size
                            /\ Take(st2, k, i, q, st2.pages[q].size - n, n, r)
                         \/ Fail(st2, k)
    BY DEF allocate, Fits
  <1>3. ~live[i].alive BY DEF allocate
  <1>4. n \in Nat /\ n >= 1 /\ PAGE_FRAG_CACHE_MAX_SIZE \in Nat
    <2>1. n \in Nat \ {0} BY SizeAssumption
    <2>2. QED BY <2>1, SizeAssumption
  <1>5. PICK cs : cs = With(cache, k, st.c) OBVIOUS
  <1>6. cs[k] = st.c BY <1>1, <1>5 DEF With
  <1>7. Sound(st.pages, cs, live) BY <1>5, AtHandSound
  <1>8. Laid(st.pages, cs, live)
    <2>1. CASE cache[k].page = {}
      <3>1. st \in refill(page) BY <2>1 DEF AtHand
      <3>2. QED BY <1>5, <2>1, <3>1, RefillLaid
    <2>2. CASE cache[k].page # {}
      <3>1. st = [pages |-> page, c |-> cache[k]] BY <2>2 DEF AtHand
      <3>2. st.pages = page /\ cs = cache BY <1>1, <1>5, <3>1 DEF With
      <3>3. QED BY <3>2
    <2>3. QED BY <2>1, <2>2
  <1>9. CASE n <= st.c.offset /\ Take(st, k, i, p, st.c.offset - n, n, r)
    <2>1. st.c.offset \in 0..PAGE_FRAG_CACHE_MAX_SIZE
      BY <1>1, <1>2, <1>5, <1>7, CacheFacts
    <2>2. Carved(st.pages, cs, live, p) BY <1>8 DEF Laid, LaidOn
    <2>3. /\ st.c.offset <= st.pages[p].size
          /\ \A j \in On(live, p) : st.c.offset <= live[j].offset
      BY <1>2, <1>6, <2>2 DEF Carved
    <2>4. PICK off : off = st.c.offset - n OBVIOUS
    <2>5. off \in Nat /\ off + n = st.c.offset BY <1>4, <1>9, <2>1, <2>4
    <2>6. Take(st, k, i, p, off, n, r) BY <1>9, <2>4
    <2>7. /\ off + n <= st.pages[p].size
          /\ \A j \in On(live, p) : off + n <= live[j].offset
      BY <2>3, <2>5
    <2>8. QED BY <1>1, <1>2, <1>3, <1>5, <1>7, <1>8, <2>5, <2>6, <2>7, TakeLaidStep
  <1>10. ASSUME NEW st2 \in rollover(st.pages, st.c, p), NEW q \in Pages,
                q \in st2.c.page,
                \/ /\ n <= st2.pages[q].size
                   /\ Take(st2, k, i, q, st2.pages[q].size - n, n, r)
                \/ Fail(st2, k)
         PROVE  Laid(page', cache', live')
    <2>1. PICK cs2 : cs2 = With(cache, k, st2.c) OBVIOUS
    <2>2. With(cs, k, st2.c) = cs2 BY <1>1, <1>5, <2>1 DEF With
    <2>3. st2 \in rollover(st.pages, cs[k], p) /\ p \in cs[k].page BY <1>2, <1>6, <1>10
    <2>4. Sound(st2.pages, With(cs, k, st2.c), live) /\ FreshCache(st2.c, live)
      BY <1>7, <2>3, RolloverSound
    <2>5. Laid(st2.pages, With(cs, k, st2.c), live) BY <1>7, <1>8, <2>3, RolloverLaid
    <2>6. Sound(st2.pages, cs2, live) /\ Laid(st2.pages, cs2, live) BY <2>2, <2>4, <2>5
    <2>7. CASE n <= st2.pages[q].size /\ Take(st2, k, i, q, st2.pages[q].size - n, n, r)
      <3>1. st2.pages[q].size \in Nat BY <1>1, <1>10, <2>1, <2>6, CacheFacts
      <3>2. On(live, q) = {}
        <4>1. cs2 \in [Keys -> CacheState] /\ cs2[k] = st2.c
          BY <1>1, <2>1, <2>6 DEF Sound, Types, With
        <4>2. cs2[k].page = {q} BY <1>10, <4>1, OnePage
        <4>3. QED BY <2>4, <4>1, <4>2 DEF FreshCache
      <3>3. PICK off : off = st2.pages[q].size - n OBVIOUS
      <3>4. off \in Nat /\ off + n <= st2.pages[q].size BY <1>4, <2>7, <3>1, <3>3
      <3>5. Take(st2, k, i, q, off, n, r) BY <2>7, <3>3
      <3>6. QED BY <1>1, <1>3, <1>10, <2>1, <2>6, <3>2, <3>4, <3>5, TakeLaidStep
    <2>8. CASE Fail(st2, k)
      <3>1. page' = st2.pages /\ cache' = With(cache, k, st2.c) /\ live' = live
        BY <2>8 DEF Fail, With
      <3>2. QED BY <2>1, <2>6, <3>1
    <2>9. QED BY <1>10, <2>7, <2>8
  <1>11. QED BY <1>2, <1>9, <1>10

(* The page-rounded allocation is long enough for its request *)
LEMMA BackingCovers ==
    ASSUME NEW n \in Nat
    PROVE  backing(n) \in Nat /\ n <= backing(n)
  <1>1. PAGE_SIZE \in Nat /\ PAGE_SIZE >= 1 BY SizeAssumption
  <1>2. PICK a : a = n + PAGE_SIZE - 1 OBVIOUS
  <1>3. a \in Nat BY <1>1, <1>2
  <1>4. PICK b \in Nat : b = a \div PAGE_SIZE /\ a = b * PAGE_SIZE + (a % PAGE_SIZE)
    BY <1>1, <1>3
  <1>5. a % PAGE_SIZE \in 0..(PAGE_SIZE - 1) BY <1>1, <1>3
  <1>6. b * PAGE_SIZE \in Nat BY <1>1, <1>4
  <1>7. n <= b * PAGE_SIZE BY <1>1, <1>2, <1>4, <1>5, <1>6
  <1>8. backing(n) = b * PAGE_SIZE BY <1>2, <1>4 DEF backing
  <1>9. QED BY <1>6, <1>7, <1>8

(* Every step keeps every page laid out *)
LEMMA LaidStep ==
    ASSUME Sound(page, cache, live), Laid(page, cache, live), [Next]_vars
    PROVE  Laid(page', cache', live')
  <1>1. ASSUME NEW i \in Ids, NEW n \in Sizes, NEW r \in Rings, NEW l \in Lanes,
               allocate_pagefrag(i, n, r, l)
        PROVE  Laid(page', cache', live')
    <2>1. cache_key(r, l) \in Keys BY DEF Keys, cache_key
    <2>2. QED BY <1>1, <2>1, AllocateLaid DEF allocate_pagefrag
  <1>2. ASSUME NEW i \in Ids, NEW n \in Sizes, NEW r \in Rings, allocate_direct(i, n, r)
        PROVE  Laid(page', cache', live')
    <2>1. PICK p \in Pages :
            /\ ~page[p].used
            /\ page' = [page EXCEPT ![p] =
                 [used |-> TRUE, size |-> backing(n),
                  pfmemalloc |-> FALSE, refcount |-> 1, rings |-> {r}]]
            /\ live' = [live EXCEPT ![i] =
                 [alive |-> TRUE, page |-> p, offset |-> 0, size |-> n, ring |-> r]]
      BY <1>2 DEF allocate_direct
    <2>2. PICK rec : rec = [used |-> TRUE, size |-> backing(n), pfmemalloc |-> FALSE,
                            refcount |-> 1, rings |-> {r}] OBVIOUS
    <2>3. n \in Nat BY SizeAssumption
    <2>4. rec.rings = {r} /\ n <= rec.size BY <2>2, <2>3, BackingCovers
    <2>5. page' = With(page, p, rec) BY <2>1, <2>2 DEF With
    <2>6. live' = With(live, i, Frag(p, 0, n, r)) BY <2>1 DEF With, Frag
    <2>7. cache' = cache /\ ~live[i].alive BY <1>2 DEF allocate_direct
    <2>8. Laid(With(page, p, rec), cache, With(live, i, Frag(p, 0, n, r)))
      BY <2>1, <2>4, <2>7, DirectLaid
    <2>9. QED BY <2>5, <2>6, <2>7, <2>8
  <1>3. ASSUME NEW i \in Ids, free(i) PROVE Laid(page', cache', live')
    <2>1. /\ live[i].alive /\ page' = Unref(page, live[i].page, 1)
          /\ live' = With(live, i, Dead) /\ cache' = cache
      BY <1>3 DEF free, With
    <2>2. QED BY <2>1, FreeLaid
  <1>4. ASSUME NEW k \in Keys, drain(k) PROVE Laid(page', cache', live')
    <2>1. PICK p \in Pages : p \in cache[k].page /\ page' = Unref(page, p, cache[k].bias)
      BY <1>4 DEF drain
    <2>2. cache' = With(cache, k, NoCache) /\ live' = live BY <1>4 DEF drain, With
    <2>3. QED BY <2>1, <2>2, LeaveLaid
  <1>5. ASSUME UNCHANGED vars PROVE Laid(page', cache', live')
    BY <1>5 DEF vars
  <1>6. QED BY <1>1, <1>2, <1>3, <1>4, <1>5 DEF Next, Alloc

LEMMA AlwaysLaid == Spec => []Laid(page, cache, live)
  <1>1. Init => Laid(page, cache, live)
    <2> SUFFICES ASSUME Init, NEW p \in Pages PROVE LaidOn(page, cache, live, p)
      BY DEF Laid
    <2>1. On(live, p) = {} /\ page[p].rings = {} /\ \A k \in Keys : p \notin cache[k].page
      BY DEF Init, On, Dead, FreePage, NoCache
    <2>2. QED BY <2>1, LaidEmpty
  <1>2. Sound(page, cache, live) /\ Laid(page, cache, live) /\ [Next]_vars
          => Laid(page, cache, live)'
    <2> SUFFICES ASSUME Sound(page, cache, live), Laid(page, cache, live), [Next]_vars
                 PROVE  Laid(page, cache, live)'
      OBVIOUS
    <2>1. Laid(page', cache', live') BY LaidStep
    <2>2. policy' = policy BY DEF Next, vars
    <2>3. QED BY <2>1, <2>2 DEF Laid, LaidOn, Carved, Owned, On, Disjoint, cache_key
  <1>3. QED BY <1>1, <1>2, AlwaysSound, PTL DEF Spec

(* Two live fragments never share a byte and none leaves its page, for all *)
(* sizes of pages and fragments: a cache carves downwards, and starts at   *)
(* the top again only on a page without fragments.                         *)
THEOREM OverlapImpossible == Spec => []NoOverlap
  <1>1. ASSUME Sound(page, cache, live), Laid(page, cache, live) PROVE NoOverlap
    <2>1. ASSUME NEW i \in Ids, live[i].alive
          PROVE  /\ live[i].page \in Pages /\ i \in On(live, live[i].page)
                 /\ live[i].offset \in Nat /\ live[i].size \in Nat
                 /\ Carved(page, cache, live, live[i].page)
      <3>1. live \in [Ids -> FragState] BY <1>1 DEF Sound, Types
      <3>2. live[i].page \in Pages /\ live[i].offset \in Nat /\ live[i].size \in Nat
        BY <2>1, <3>1, FragFacts
      <3>3. QED BY <1>1, <2>1, <3>2 DEF On, Laid, LaidOn
    <2>2. ASSUME NEW i \in Ids, live[i].alive
          PROVE  live[i].offset + live[i].size <= page[live[i].page].size
      BY <2>1, <2>2 DEF Carved
    <2>3. ASSUME NEW i \in Ids, NEW j \in Ids, live[i].alive, live[j].alive, i # j,
                 live[i].page = live[j].page
          PROVE  Bytes(i) \intersect Bytes(j) = {}
      <3>1. i \in On(live, live[i].page) /\ j \in On(live, live[i].page) BY <2>1, <2>3
      <3>2. Disjoint(live[i], live[j]) BY <2>1, <2>3, <3>1 DEF Carved
      <3>3. /\ live[i].offset \in Nat /\ live[i].size \in Nat
            /\ live[j].offset \in Nat /\ live[j].size \in Nat
        BY <2>1, <2>3
      <3>4. QED BY <3>2, <3>3 DEF Disjoint, Bytes
    <2>4. QED BY <2>2, <2>3 DEF NoOverlap
  <1>2. QED BY <1>1, AlwaysSound, AlwaysLaid, PTL

(* Patch 960 for any number of rings and lanes: no page ever has fragments *)
(* of two data rings, nor of a data ring and a copy-engine pipe.           *)
THEOREM RingsStayApart == Spec => []RingsApart
  <1>1. Laid(page, cache, live) => RingsApart BY DEF Laid, LaidOn, Owned, RingsApart
  <1>2. QED BY <1>1, AlwaysLaid, PTL
=============================================================================
