\* Four consumers, five values: values and waiting threads outnumber each other.
SPECIFICATION LockedFairSpec
CONSTANTS
    Consumers = {c1, c2, c3, c4}
    MaxPushes = 5
INVARIANTS
    NoLostWakeup
    NothingLost
PROPERTIES
    WaiterIsServed
