SPECIFICATION Spec
CONSTANTS
    Queries = {q1, q2}
    NoQuery = NoQuery
    MaxSlots = 3
    Devices <- AllDevices
    UniformOffsets = {"unused"}
    FullPoolRestart = FALSE
    MaxSerial = 2
    MaxFences = 2
    MaxWaits = 1
    MaxWork = 3
SYMMETRY Symmetry
INVARIANTS
    TypeOK
    CountedResults
    EncodingRules
    FencesAreSignalled
    WaitsFollowSignals
