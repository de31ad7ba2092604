SPECIFICATION Spec
CONSTANTS
    Callers = {c1}
    Samples = {s1, s2}
    Writers = {w1}
    SampleLimits = {2}
    TimeoutModes = {TRUE, FALSE}
    Careful = TRUE
    IdMod = 16
    MaxLearned = 1
    MaxChanges = 1
    MaxResets = 0
PROPERTY SampleIsSent
CHECK_DEADLOCK FALSE
