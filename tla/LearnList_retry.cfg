SPECIFICATION Spec
CONSTANTS
    Callers = {c1}
    Samples = {s1, s2}
    Writers = {w1}
    SampleLimits = {2}
    TimeoutModes = {FALSE}
    Careful = FALSE
    IdMod = 16
    MaxLearned = 2
    MaxChanges = 0
    MaxResets = 0
INVARIANT RepeatedAckReturns
CHECK_DEADLOCK FALSE
