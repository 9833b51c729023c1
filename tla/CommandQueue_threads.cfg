CONSTANTS
    c1 = c1
    c2 = c2
    c3 = c3
    r1 = r1
    r2 = r2
    t1 = t1
    t2 = t2
    NoContext = NoContext
    Threads = {t1, t2}
    Contexts = {c1, c2, c3}
    Resources = {r1, r2}
    SharedContexts = {c1, c2}
    Uses <- GroupUses
    MaxSerial = 3
SPECIFICATION FairSpec
INVARIANTS
    CompletedIsDone
    EnsureMeansReady
    NeverWaitsForItself
    NoEntryLost
    QueueInv
    DestroyedMeansDrained
PROPERTIES
    CallsReturn
    ImplementsTimeline
CHECK_DEADLOCK FALSE
