\* "wifi down" on a single device.
CONSTANTS
    r0 = r0
    Devs = {r0}
    DEFAULT_RETRY = 1
    Budget = 4
SPECIFICATION FairSpec
PROPERTIES DownTakesEffect
CHECK_DEADLOCK FALSE
