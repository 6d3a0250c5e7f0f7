CONSTANTS
    Subjects = {"mcs", "mumcs", "ticket", "rw", "once", "barrier", "mpsc", "mpmc", "ring"}
    Ctx = {c1, c2, c3}
    Null = Null
    W = 3
    Count = 2
    Elem = {e1, e2, e3, e4}
    Stub = Stub
    MpmcSize = 3
    MaxPos = 6
    Value = {v1, v2, v3}
    Uninit = Uninit
    RingSize = 4
SPECIFICATION Spec
SYMMETRY Symmetric
CONSTRAINT UntilStubTwice
CHECK_DEADLOCK FALSE
INVARIANTS
    HyperdriveTypeOK
    ForeignNodeAlive
    Exclusion
    ListShape
    MpmcHandsOver
    HoldsContent
PROPERTIES
    ImplementsFifoLock
    GuardSeesValue
    TicketImplementsFifoLock
    ValueIsFinal
    ImplementsRounds
    EmptyMeansUnlinked
