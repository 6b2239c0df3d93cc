\* Two CPUs: flush, hotplug and hot limits that change against the data path.
CONSTANTS
    c1 = c1
    c2 = c2
    t1 = t1
    s1 = s1
    s2 = s2
    CPUs = {c1, c2}
    Ctxs = {t1}
    Skbs = {s1, s2}
    NPools = 2
    LimMax = 1
    InitMax = 1
    InitSpare = 0
    MaxBatch = 1
    HostOps = {}
    AdminOps = {"flush", "hotplug", "max_skbs"}
SPECIFICATION FairSpec
INVARIANTS OneOwner NoneLost DeadCpuDrained
PROPERTIES OpsComplete FlushEmptiesCache ImplementsPool
