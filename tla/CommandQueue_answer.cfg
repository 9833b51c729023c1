CONSTANTS
    c1 = c1
    c2 = c2
    c3 = c3
    r1 = r1
    r2 = r2
    t1 = t1
    t2 = t2
    NoContext = NoContext
    Threads = {t1, t2}
    Contexts = {c1, c2}
    Resources = {r1, r2}
    SharedContexts = {}
    Uses <- PrivateUses
    MaxSerial = 3
SPECIFICATION Spec
INVARIANTS
    AnswerIsFlushed
