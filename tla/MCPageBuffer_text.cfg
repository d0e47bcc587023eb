SPECIFICATION Spec
CONSTANTS
    NewSizes <- MCSizes
    Formats <- MCFormats
    DefaultBufferSize = 7
    Header = 3
    MaxPages = 3
INVARIANTS
    TypeOK
    PagesWithinSize
    InOrder
    SwriteIsText
    FullCountIsEveryByte
PROPERTIES
    PagesLeftFull
    TextLogSpec
