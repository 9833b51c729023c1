SPECIFICATION FairSpec
CONSTANTS
    Contexts = {"c1", "c2"}
    Clients <- AllClients
    MaxName = 3
    MaxBuffers = 3
    Sources = {"good", "bad"}
    Correct = {"good"}
    MaxTasks = 3
    MaxPools = 4
    HardwareThreads = 2
    MaxTranslators = 3
    MaxPoolSize = 1
    LinkOutcomes = {"mismatch", "backend", "ok"}
    SyncIds = {"s1"}
    MaxEvents = 2
    MaxWork = 1
    MaxSets = 2
    MaxItems = 2
INVARIANTS
    TypeOK
    RefCountsExact
    ResultIsOfItsSource
    TranslatorsOwned
    NoIdleWorker
    InUseIsResolved
    NothingLeft
    NamesExact
    SignalsAreTrue
    NoLostWakeup
PROPERTY
    CallsReturn
