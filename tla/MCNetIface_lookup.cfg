SPECIFICATION Spec
CONSTANTS
    NULL = NULL
    Systems <- MCSystems
    IPs <- MCIPs
    Presets <- New
    Texts <- MCTexts
    MaxCalls = 2
CHECK_DEADLOCK FALSE
INVARIANTS
    TypeOK
    AllFreed
    OneInterface
    FlagsTell
    MacKept
    ReadsGroups
