SPECIFICATION Spec
CONSTANTS
    Queries = {q1, q2}
    NoQuery = NoQuery
    MaxSlots = 3
    Devices <- AllDevices
    UniformOffsets = {"unused"}
    FullPoolRestart = FALSE
    MaxSerial = 2
    MaxFences = 0
    MaxWaits = 0
    MaxWork = 3
INVARIANT QueryResults
