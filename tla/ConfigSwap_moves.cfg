SPECIFICATION Spec
CONSTANTS
    NbCxts = 2
    Configs = {A, B}
    FirstConfig = A
    Clients = {t1}
    Packets = {p1, p2}
    Moves = TRUE
    MaxCopies = 1
    MaxLoads = 1
INVARIANTS PoolIsEmpty SwapIsSwitchWide
CHECK_DEADLOCK FALSE
