\* One CPU: what drivers and the stack do to buffers, and batches released by the fast path,
\* and limits that change under them.
CONSTANTS
    c1 = c1
    t1 = t1
    t2 = t2
    s1 = s1
    s2 = s2
    s3 = s3
    CPUs = {c1}
    Ctxs = {t1, t2}
    Skbs = {s1, s2, s3}
    NPools = 2
    LimMax = 1
    InitMax = 1
    InitSpare = 1
    MaxBatch = 2
    HostOps = {"over", "touch", "expand", "fast", "ds"}
    AdminOps = {"enable", "max_spare"}
SYMMETRY Perms
SPECIFICATION Spec
INVARIANTS TypeOK RingExact ListsBounded CachedReusable
PROPERTIES AllocDeliversClean ImplementsPool
