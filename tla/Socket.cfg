\* Buffers shorter than, as long as and longer than the kernel's buffer.
SPECIFICATION FairSpec
CONSTANTS
    MaxBuffers = 3
    MaxLength = 3
    Capacity = 2
INVARIANTS
    StreamInv
    DelayedCloseLosesNothing
PROPERTIES
    ClosesAfterDraining
    QueueIsSent
CHECK_DEADLOCK FALSE
