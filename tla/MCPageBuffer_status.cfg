SPECIFICATION Spec
CONSTANTS
    NewSizes = {3}
    Formats <- MCFormats
    DefaultBufferSize = 7
    Header = 3
    MaxPages = 3
PROPERTIES
    ZeroOnSuccess
