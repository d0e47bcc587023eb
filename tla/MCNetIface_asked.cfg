SPECIFICATION Spec
CONSTANTS
    NULL = NULL
    Systems <- MCSystems
    IPs <- MCIPs
    Presets <- Asked
    Texts = {}
    MaxCalls = 1
CHECK_DEADLOCK FALSE
INVARIANTS
    AskedObtained
