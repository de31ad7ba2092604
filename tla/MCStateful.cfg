SPECIFICATION Spec
CONSTANTS
    Threads = {"t1", "t2"}
    Code <- MCCode
    Runs <- MCRuns
    Arrays = {"r1", "r2"}
    Width = 1
    NewRates <- MCNewRates
    RateCount = 2
    NoArray = "none"
    MaxRuns = 1
    MaxCalls = 2
    MaxClock = 2
INVARIANTS RegisterUpdatesAtomic AbortsHaveCause StatsConform
CHECK_DEADLOCK FALSE
