SPECIFICATION Spec
CONSTANTS
    NbPorts = 2
    NbWorkers = 1
    InputCapacity = 1
    OutputCapacity = 1
    Depths = {1, 2}
    Mirrors = {m1}
    Groups <- NoGroups
    Resubmits = TRUE
    ParserClones = FALSE
    Swaps = FALSE
    Definitions = {TRUE}
    MaxHops = 1
INVARIANTS SizesAccounted ClonedOnce
