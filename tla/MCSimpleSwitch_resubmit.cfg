SPECIFICATION Spec
CONSTANTS
    NbPorts = 2
    NbWorkers = 1
    InputCapacity = 1
    OutputCapacity = 1
    Depths = {1}
    Mirrors = {}
    Groups <- NoGroups
    Resubmits = TRUE
    ParserClones = FALSE
    Swaps = FALSE
    Definitions = {TRUE}
    MaxHops = 1
PROPERTY ResubmittedIsParsedAgain
CHECK_DEADLOCK FALSE
