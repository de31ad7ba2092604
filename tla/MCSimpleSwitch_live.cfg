SPECIFICATION Spec
CONSTANTS
    NbPorts = 2
    NbWorkers = 2
    InputCapacity = 1
    OutputCapacity = 1
    Depths = {1}
    Mirrors = {}
    Groups <- MCGroups
    Resubmits = FALSE
    ParserClones = FALSE
    Swaps = TRUE
    Definitions = {TRUE}
    MaxHops = 1
PROPERTY SwitchStaysLive
