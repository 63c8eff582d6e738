SPECIFICATION LimiterSpec
CONSTANTS
    Threads = {t1, t2}
    IPs = {a}
    Limit = 2
    Window = 2
    MaxLag = 1
    MaxTime = 7
    None = None
INVARIANTS
    WindowBound
    RefusalIsDeserved
    LimiterInv
CHECK_DEADLOCK FALSE
