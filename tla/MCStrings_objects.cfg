SPECIFICATION Spec
CONSTANTS
    NULL = NULL
    Names = {s, t, u}
    Callers <- Everyone
    STRING_MIN_ALLOC = 2
    STRING_GROWTH_FACTOR = 2
SYMMETRY Symmetry
CHECK_DEADLOCK FALSE
INVARIANTS
    WithinCapacity
    DefinedElsewhere
PROPERTIES
    TextsSpec
    RoomKept
    ReadOnlyKept
