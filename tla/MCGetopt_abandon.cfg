SPECIFICATION Spec
CONSTANTS
    ArgVs <- MCKnown
    optstring <- MCOptstring
    longopts <- NoLong
    tabled = TRUE
    Abandons = TRUE
PROPERTIES
    ResetSeen
