SPECIFICATION Spec
CONSTANTS
    NULL = NULL
    Systems <- MCSystems
    IPs <- MCIPs
    Presets <- New
    Texts = {}
    MaxCalls = 1
CHECK_DEADLOCK FALSE
INVARIANTS
    MacWhole
