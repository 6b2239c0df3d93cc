CONSTANTS
    Hosts = {"A", "B"}
    Names = {"n", "m"}
    Clients = {"c1", "c2"}
    Home <- HomeOf
    Uses <- UsesOf
    Slots = {1, 2}
    MaxWire = 1
    MaxFaults = 1
SPECIFICATION Spec
INVARIANTS TypeOK Agreement NothingStale SubscribersTold
PROPERTY Reconnects
