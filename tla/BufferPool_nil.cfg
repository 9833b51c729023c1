CONSTANTS
    Owners <- StreamOnly
    MayFail = TRUE
    MaxStorages = 3
    SharedLimit = 2
    MacOS = FALSE
    UnifiedMemory = FALSE
    ForceGPUStorage = FALSE
SPECIFICATION Spec
INVARIANTS
    RegionsBacked
