SPECIFICATION FairSpec
CONSTANTS
    MaxBuffers = 1
    MaxLength = 1
    Capacity = 1
PROPERTY
    DelayedCloseCloses
CHECK_DEADLOCK FALSE
