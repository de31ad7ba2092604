SPECIFICATION Spec
CONSTANTS
    k1 = k1 k2 = k2 k3 = k3 u1 = u1 u2 = u2 u3 = u3 u4 = u4 bad = bad p1 = p1 p2 = p2
    Keys = {k1, k2, k3}
    UserKeys <- MCUserKeys
    Canonical <- MCCanonical
    BadKeys = {bad}
    Packets = {p1, p2}
    Prefers <- MCPrefers
    Values = {v1, v2}
    NoKey = NoKey
    NoValue = NoValue
    Size = 2
    VersionMod = 2
    Ttls = {0}
    MaxAge = 0
    MaxHits = 0
    MaxGeneration = 1
INVARIANTS StaleHandlesRefused IInv
PROPERTIES ImplementsAbstractTable
