\* Softirqs use the recycler on every CPU, and any CPU may take the other down.
CONSTANTS
    c1 = c1
    c2 = c2
    CPUs = {c1, c2}
    SoftirqCPUs = {c1, c2}
    HotplugCPUs = {c1, c2}
SPECIFICATION FairSpec
PROPERTIES WaitersProceed
CHECK_DEADLOCK FALSE
