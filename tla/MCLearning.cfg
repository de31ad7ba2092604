SPECIFICATION MCSpec
CONSTANTS
    Callers = {c1, c2}
    Only = c1
    Samples = {s1, s2}
    Writers = {w1, w2}
    SampleLimits = {1, 2}
    TimeoutModes = {TRUE, FALSE}
    Careful = TRUE
    IdMod = 16
    MaxLearned = 3
    MaxChanges = 2
    MaxResets = 1
INVARIANTS AcksAreSound FilteredIsNotifiedUnlessRaced
PROPERTIES CalmListServes
CHECK_DEADLOCK FALSE
