\* The promise of consume_skb for every way to give up a reference.
CONSTANTS
    t1 = t1
    t2 = t2
    Threads = {t1, t2}
SPECIFICATION Spec
INVARIANTS NoLeak
CHECK_DEADLOCK FALSE
