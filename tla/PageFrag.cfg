\* All policies; sizes that fit every page, some pages and none.
CONSTANTS
    p1 = p1
    p2 = p2
    p3 = p3
    i1 = i1
    i2 = i2
    d0 = d0
    m0 = m0
    e0 = e0
    l0 = l0
    Pages = {p1, p2, p3}
    Ids = {i1, i2}
    Rings = {d0, m0, e0}
    CeRings = {e0}
    Lanes = {l0}
    Policies = {"shared", "per_ring", "same_ring_only", "non_pagefrag"}
    PAGE_SIZE = 2
    PAGE_FRAG_CACHE_MAX_SIZE = 3
    Sizes = {1, 3, 4}
SYMMETRY Perms
SPECIFICATION Spec
INVARIANTS TypeOK RefcountExact NoUseAfterFree NoPageLeak NoOverlap RingsApart
