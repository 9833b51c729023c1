SPECIFICATION Spec
CONSTANTS
    Images = {t1, t2}
    Framebuffers = {f1, f2}
    Buffer = Buffer
    NoFramebuffer = NoFramebuffer
    MaxObjects = 5
    Clients <- AllClients
SYMMETRY Symmetry
INVARIANTS
    CallOrderKept
    PassIsOpen
    NothingReusedEarly
PROPERTIES
    AssertionsHold
