SPECIFICATION FairSpec
CONSTANTS
    Clients = {c1, c2}
    Packets = {p1}
    Mgids = {1}
    Rids = {1}
    NodeMaps <- MCNodeMaps
    LagMaps <- MCLagMaps
    LagIndices = {0, 2}
    LAG_MAX_ENTRIES = 1
    MGID_TABLE_SIZE = 1
    L1_MAX_ENTRIES = 2
    L2_MAX_ENTRIES = 3
    MaxCalls = 5
INVARIANTS HandlesMatchEntries ReplicationIsSound
PROPERTIES CallsReturn
CHECK_DEADLOCK FALSE
