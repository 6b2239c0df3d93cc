\* Softirqs use the recycler on CPUs other than the one that takes CPUs down.
CONSTANTS
    c1 = c1
    c2 = c2
    c3 = c3
    CPUs = {c1, c2, c3}
    SoftirqCPUs = {c1, c2}
    HotplugCPUs = {c3}
SPECIFICATION FairSpec
INVARIANTS TypeOK NoSelfDeadlock
PROPERTIES WaitersProceed
