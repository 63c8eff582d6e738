SPECIFICATION Spec
CONSTANTS
    Threads = {t1, t2}
    IPs = {a}
    Limit = 2
    Window = 0
    MaxLag = 0
    MaxTime = 1
    MaxAttempts = 1
    DailyCallBudget = 3
    SharedKey = TRUE
    LastDay = 2
    MaxBoots = 2
    None = None
INVARIANTS
    ServerInv
    SlotAccounting
    OvershootIsBounded
    OverchargeIsBounded
PROPERTIES
    RefusalIsJustified
CHECK_DEADLOCK FALSE
