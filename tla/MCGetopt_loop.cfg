SPECIFICATION LoopSpec
CONSTANTS
    ArgVs <- MCKnown
    optstring <- MCOptstring
    longopts <- NoLong
    tabled = FALSE
    Abandons = FALSE
PROPERTIES
    LoopEnds
