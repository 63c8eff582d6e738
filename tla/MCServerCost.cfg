SPECIFICATION Spec
CONSTANTS
    Threads = {t1}
    IPs = {a}
    Limit = 6
    Window = 1
    MaxLag = 0
    MaxTime = 1
    MaxAttempts = 1
    DailyCallBudget = 1
    SharedKey = TRUE
    LastDay = 1
    MaxBoots = 1
    None = None
INVARIANTS
    CostIsCapped
CHECK_DEADLOCK FALSE
