\* Liveness under FairSpec: one reconnection, two packets of which one is large.
SPECIFICATION FairSpec
CONSTANTS
    Configs <- EnabledConfigs
    MaxConnections = 2
    MaxPackets = 2
    MaxChunk = 2
    LargePackets <- SecondIsLarge
    ServerPackets <- AnyPackets
PROPERTIES
    StoppedEnds
    ClosedIsReplaced
    QueueIsDrained
