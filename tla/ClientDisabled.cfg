\* Discord.Server.Enable = 0, the value the configuration file is shipped with.
SPECIFICATION Spec
CONSTANTS
    Configs <- DisabledConfigs
    MaxConnections = 1
    MaxPackets = 1
    MaxChunk = 1
    LargePackets = {}
    ServerPackets <- WellFormedPackets
INVARIANT
    EndsOrderly
