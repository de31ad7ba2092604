SPECIFICATION SeqSpec
CONSTANTS
    Keys = {k1, k2, k3}
    ActionEntries = {a1}
    TableSize = 2
    MaxMembers = 2
    MaxGroups = 1
    CountMod = 8
    MaxDrift = 1
    Garbage = 99
    W = 3
    ByteValues = {0, 3, 5, 7}
    MaxLength = 24
    Base = 3
    Capacity = 7
    MaxOps = 2
    MaxPackets = 2
    NbPipelines = 2
INVARIANTS StackCountsAsDocumented
CHECK_DEADLOCK FALSE
