SPECIFICATION Spec
CONSTANTS
    Header = 32
    BiggestAlignment = 16
    SizeMod = 65536
    Addr <- MCAddr
    NewArgs <- WideNew
    Sizes = {}
    AlignedArgs <- WideAligned
INVARIANTS
    LargePoolsConsumed
