\* Small instances of the units; SRP6 with a prime of one byte, in four bytes of two bits.
SPECIFICATION Spec
CONSTANTS
    Values <- ItemValues
    NewOpcodes = {7}
    MaxItems = 2
    Capacity = 1
    MaxOutput = 3
    ExitCodes = {0, 1}
    MaxCallbacks = 4
    WordSize = 32
    Steps = {0, 1, 3, 13}
    MaxPasses = 6
    Intervals = {0, 2, 5}
    AVG_DIFF_COUNT = 3
    Radices <- SmallRadices
    Addresses <- FiveAddresses
    Files <- LocationFiles
    MaxPackets = 4
    N = 251
    g = 7
    Radix = 4
    KEY_LENGTH = 4
    Passwords = {0, 1, 2}
    Salts = {0, 1}
    Exponents = {0, 1, 4, 9, 16}
    Drop = 2
    MaxBytes = 4
    MaxChunk = 3
    DIGEST_LENGTH = 2
    IvSize = 1
    TagSize = 2
    MaxDamages = 2
    Plaintexts <- ShortPlaintexts
    TOTP_INTERVAL = 3
    Times <- FourSteps
INVARIANTS
    RoundTrip
    SuccessIsTheChilds
    EachCallbackOnce
    TimersKeepPace
    RangeLookup
    PacketsInOrder
    KeysAgree
    CiphersAgree
PROPERTIES
    EndsUnlessStuck
    ReadyIsInvoked
CHECK_DEADLOCK FALSE
