CONSTANTS
    Buffers = {"b1", "b2"}
    Cells = {1, 2}
    NumValues = 2
    Sizes = {2}
    Clients <- ConverterOnly
    PoolLimit = 2
    MaxSerial = 2
    MaxQueue = 2
    MaxStorages = 5
    SharedLimit = 2
    MacOS = FALSE
    UnifiedMemory = FALSE
    ForceGPUStorage = FALSE
SPECIFICATION Spec
INVARIANTS
    DrawsSeeTheirData
