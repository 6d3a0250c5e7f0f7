CONSTANTS
    Subjects = {"mpsc"}
    Ctx = {c1, c2, c3}
    Null = Null
    W = 3
    Count = 2
    Elem = {e1, e2, e3}
    Stub = Stub
    MpmcSize = 2
    MaxPos = 2
    Value = {v1}
    Uninit = Uninit
    RingSize = 2
SPECIFICATION Spec
CHECK_DEADLOCK FALSE
INVARIANT ReturnsAnElement
