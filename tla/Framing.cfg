\* Blocks shorter than a packet and packets shorter than a block.
SPECIFICATION Spec
CONSTANTS
    HeaderSize = 3
    BlockSize = 4
    MaxPayload = 3
    MaxSent = 3
INVARIANTS
    FramingInv
    AssertsHold
    HandledPromptly
