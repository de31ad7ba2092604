SPECIFICATION ServicesSpec
CONSTANTS
    Packets = {p1, p2}
    Fields = {"f"}
    FIELD_CTR = "ctr"
    Filters <- MCFilters
    W = 1
    MaxPackets = 2
    MaxUpdates = 1
    MaxRequests = 3
    Clients = {c1, c2}
    Configs <- MCConfigs
    Names = {"t"}
    MaxCalls = 3
    MaxLoads = 2
    PortNums = {1, 2}
    Managers <- MCManagers
    MaxPortCalls = 3
    MaxFlips = 2
INVARIANTS ProtocolKept FaultsHaveCause PortsInStep
PROPERTIES StoppedMeansStopped NobodyHangs UpdatesReachNewest CallsAreAnswered
CHECK_DEADLOCK FALSE
