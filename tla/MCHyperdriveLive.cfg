CONSTANTS
    Subjects = {"mcs", "ticket", "rw", "once", "barrier", "mpsc"}
    Ctx = {c1, c2, c3}
    Null = Null
    W = 3
    Count = 3
    Elem = {e1, e2}
    Stub = Stub
    MpmcSize = 2
    MaxPos = 2
    Value = {v1}
    Uninit = Uninit
    RingSize = 2
SPECIFICATION FairSpec
CHECK_DEADLOCK FALSE
PROPERTIES
    LocksAreGranted
    WriterProceeds
    GetReturns
    WaitReturns
    
