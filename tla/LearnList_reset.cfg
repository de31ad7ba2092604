SPECIFICATION Spec
CONSTANTS
    Callers = {c1}
    Samples = {s1, s2}
    Writers = {w1}
    SampleLimits = {1}
    TimeoutModes = {FALSE}
    Careful = TRUE
    IdMod = 16
    MaxLearned = 2
    MaxChanges = 0
    MaxResets = 1
INVARIANT FilteredIsNotified
CHECK_DEADLOCK FALSE
