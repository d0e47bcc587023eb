SPECIFICATION Spec
CONSTANTS
    NULL = NULL
    Names = {s, t, u}
    Callers <- Results
    STRING_MIN_ALLOC = 2
    STRING_GROWTH_FACTOR = 2
PROPERTIES
    CopyDone
    SetTold
