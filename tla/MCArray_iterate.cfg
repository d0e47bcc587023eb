SPECIFICATION FairSpec
CONSTANTS
    Values = {a, b}
    NULL = NULL
    Sizes = {0, 1, 2, 3}
    Locations <- MCLocations
    Iterators = {i}
    Steps <- MCSteps
CHECK_DEADLOCK FALSE
INVARIANTS
    PointersInside
    VisitsInSteps
    IteratesAsGet
    IteratesOverAll
PROPERTIES
    InterfaceSpec
    LoopEnds
