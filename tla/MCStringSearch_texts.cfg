SPECIFICATION Asking
CONSTANTS
    Alphabet = {1, 2}
    MaxText = 5
    MaxSub = 3
    Steps <- MCSteps
INVARIANTS
    FindIsFirst
    RfindIsLast
    CountIsMost
    SliceFits
