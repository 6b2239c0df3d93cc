\* Data and copy-engine buffers under all policies.
CONSTANTS
    p1 = p1
    p2 = p2
    p3 = p3
    i1 = i1
    i2 = i2
    d0 = d0
    e0 = e0
    l0 = l0
    Pages = {p1, p2, p3}
    Ids = {i1, i2}
    Rings = {d0, e0}
    CeRings = {e0}
    LongRings = {d0}
    Lanes = {l0}
    Policies = {"shared", "per_ring", "same_ring_only", "non_pagefrag"}
    PAGE_SIZE = 2
    PAGE_FRAG_CACHE_MAX_SIZE = 3
    Sizes = {1, 2}
SYMMETRY Perms
SPECIFICATION ReplaySpec
INVARIANTS AggregateExact UsageSound
