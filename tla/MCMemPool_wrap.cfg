SPECIFICATION Spec
CONSTANTS
    Header = 32
    BiggestAlignment = 16
    SizeMod = 1024
    Addr <- MCAddr
    NewArgs <- WrapNew
    Sizes = {}
    AlignedArgs = {}
INVARIANTS
    MemoryHoldsElement
