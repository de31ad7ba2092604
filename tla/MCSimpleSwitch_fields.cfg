SPECIFICATION Spec
CONSTANTS
    NbPorts = 2
    NbWorkers = 1
    InputCapacity = 1
    OutputCapacity = 1
    Depths = {1}
    Mirrors = {}
    Groups <- NoGroups
    Resubmits = FALSE
    ParserClones = FALSE
    Swaps = TRUE
    Definitions = {TRUE, FALSE}
    MaxHops = 0
INVARIANT QueueingFieldsExist
CHECK_DEADLOCK FALSE
