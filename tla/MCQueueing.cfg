SPECIFICATION FairSpec
CONSTANTS
    Kinds = {"queue", "plain", "rl", "pri"}
    Queues = {0, 1}
    Workers = {w1}
    FMap <- MCFMap
    Priorities = {0, 1}
    Writers = {t1, t2}
    Capacities = {1, 2}
    Delays = {0, 2}
    MaxPushed = 3
    MaxSettings = 1
    MaxTime = 1
    MaxSteps = 1
INVARIANTS NoLostWakeup
PROPERTIES LeaveInOrder EverythingIsServed
CHECK_DEADLOCK FALSE
