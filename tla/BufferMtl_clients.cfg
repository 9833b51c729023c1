CONSTANTS
    Buffers = {"b1", "b2"}
    Cells = {1, 2}
    NumValues = 2
    Sizes = {2}
    Clients <- AllClients
    PoolLimit = 2
    MaxSerial = 2
    MaxQueue = 2
    MaxStorages = 3
    SharedLimit = 2
    MacOS = TRUE
    UnifiedMemory = FALSE
    ForceGPUStorage = FALSE
SPECIFICATION Spec
INVARIANTS
    TypeOK
    DrawsSeeTheirData
    ReadsAreCurrent
    BoundIsCurrent
