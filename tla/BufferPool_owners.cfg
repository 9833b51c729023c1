CONSTANTS
    Owners <- AllOwners
    MayFail = FALSE
    MaxStorages = 3
    SharedLimit = 2
    MacOS = TRUE
    UnifiedMemory = FALSE
    ForceGPUStorage = FALSE
SPECIFICATION Spec
INVARIANTS
    TypeOK
    RegionsDisjoint
    RegionsBacked
    CountExact
    SizesUniform
    LimitRespected
    FreeWhenAtLimit
