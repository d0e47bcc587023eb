SPECIFICATION Spec
CONSTANTS
    Header = 32
    BiggestAlignment = 16
    SizeMod = 65536
    Addr <- FitAddr
    NewArgs <- FitNew
    Sizes <- FitSizes
    AlignedArgs <- FitAligned
INVARIANTS
    BlocksInBounds
    BlocksDisjoint
    BlocksAligned
