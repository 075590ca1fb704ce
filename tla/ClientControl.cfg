\* Any server, one reconnection, three packets of which the middle one is large.
SPECIFICATION Spec
CONSTANTS
    Configs <- EnabledConfigs
    MaxConnections = 2
    MaxPackets = 3
    MaxChunk = 2
    LargePackets <- SecondIsLarge
    ServerPackets <- AnyPackets
INVARIANTS
    UpdateChains
    OnlyCurrentIsOpen
    NothingLostWhileConnected
    EndsOrderly
PROPERTIES
    StoppedIsFinal
    NoSilentExit
    ServerViewSpec
