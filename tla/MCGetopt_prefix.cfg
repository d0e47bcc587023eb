SPECIFICATION Spec
CONSTANTS
    ArgVs <- PrefixWords
    optstring <- MCOptstring
    longopts <- PrefixLong
    tabled = TRUE
    Abandons = FALSE
INVARIANTS
    ExactNames
