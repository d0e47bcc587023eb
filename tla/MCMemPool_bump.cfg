SPECIFICATION Spec
CONSTANTS
    Header = 32
    BiggestAlignment = 16
    SizeMod = 65536
    Addr <- MCAddr
    NewArgs <- BumpNew
    Sizes <- BumpSizes
    AlignedArgs = {}
INVARIANTS
    TypeOK
    NoPoolLost
    NextTilesPools
    NextAligned
PROPERTIES
    ArenaSpec
