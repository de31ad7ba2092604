SPECIFICATION Spec
CONSTANTS
    Callers = {c1, c2}
    Samples = {s1, s2, s3}
    Writers = {w1}
    SampleLimits = {1, 2}
    TimeoutModes = {TRUE}
    Careful = TRUE
    IdMod = 16
    MaxLearned = 3
    MaxChanges = 1
    MaxResets = 0
PROPERTY CallsReturn
CHECK_DEADLOCK FALSE
