\* Two devices share the script runner; scripts end and timers fire.
CONSTANTS
    r0 = r0
    r1 = r1
    Devs = {r0, r1}
    DEFAULT_RETRY = 1
    Budget = 6
SPECIFICATION FairSpec
INVARIANTS TypeOK NeverStuck IdleWhenDown ChangeRemembered GaveUpIsDown
PROPERTIES Settles
CHECK_DEADLOCK FALSE
