SPECIFICATION Spec
CONSTANTS
    ArgVs <- MCUnknown
    optstring <- MCOptstring
    longopts <- NoLong
    tabled = FALSE
    Abandons = FALSE
PROPERTIES
    ResetByCaller
