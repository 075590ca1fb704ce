\* Both kinds, two producers, four nodes that are used again and again.
SPECIFICATION FairSpec
CONSTANTS
    Producers = {p1, p2}
    Consumer = Consumer
    Nodes = {n1, n2, n3, n4}
    Dummy = Dummy
    Null = Null
INVARIANTS
    MemorySafe
    FalseMeansPending
PROPERTIES
    FifoSpec
    ItemsArrive
CHECK_DEADLOCK FALSE
