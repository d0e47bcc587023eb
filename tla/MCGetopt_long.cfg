SPECIFICATION Spec
CONSTANTS
    ArgVs <- MCLines
    optstring <- MCOptstring
    longopts <- MCLong
    tabled = TRUE
    Abandons = FALSE
INVARIANTS
    NextcharInside
    OptindWithinArgv
    FollowsArgv
