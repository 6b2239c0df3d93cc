\* Four owners, references given up in both ways; a leaked buffer has no next step.
CONSTANTS
    t1 = t1
    t2 = t2
    t3 = t3
    t4 = t4
    Threads = {t1, t2, t3, t4}
SPECIFICATION Spec
INVARIANTS NoUseAfterRelease ConsumeNeverLeaks
CHECK_DEADLOCK FALSE
