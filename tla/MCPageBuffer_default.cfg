SPECIFICATION Spec
CONSTANTS
    NewSizes = {0, 3}
    Formats <- MCFormats
    DefaultBufferSize = 7
    Header = 3
    MaxPages = 3
PROPERTIES
    DefaultSize
