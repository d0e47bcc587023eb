SPECIFICATION Spec
CONSTANTS
    Header = 32
    BiggestAlignment = 16
    SizeMod = 65536
    Addr <- MCAddr
    NewArgs <- OddNew
    Sizes <- OddSizes
    AlignedArgs <- OddAligned
INVARIANTS
    ConsumedWithinMemory
