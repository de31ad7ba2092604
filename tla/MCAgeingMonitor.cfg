SPECIFICATION ASpec
CONSTANTS
    k1 = k1 k2 = k2 u1 = u1 u2 = u2 p1 = p1
    Keys = {k1, k2}
    UserKeys = {u1, u2}
    Canonical <- MCCanonical
    BadKeys = {}
    Packets = {p1}
    Prefers <- MCPrefers
    Values = {v1}
    NoKey = NoKey
    NoValue = NoValue
    Size = 2
    VersionMod = 2
    Ttls = {0, 1}
    MaxAge = 1
    MaxHits = 0
    MaxGeneration = 1
INVARIANTS SweptHandlesUsable
PROPERTIES SweepsAlternate ExpiredIsReported
VIEW View
CHECK_DEADLOCK FALSE
