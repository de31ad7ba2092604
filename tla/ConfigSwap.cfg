SPECIFICATION Spec
CONSTANTS
    NbCxts = 2
    Configs = {B}
    FirstConfig = A
    Clients = {t1}
    Packets = {p1, p2}
    Moves = TRUE
    MaxCopies = 1
    MaxLoads = 2
INVARIANT PhvFitsConfig
PROPERTY CachedPointersFresh
CHECK_DEADLOCK FALSE
