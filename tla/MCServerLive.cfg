SPECIFICATION Spec
CONSTANTS
    Threads = {t1, t2}
    IPs = {a}
    Limit = 3
    Window = 0
    MaxLag = 0
    MaxTime = 0
    MaxAttempts = 1
    DailyCallBudget = 3
    SharedKey = FALSE
    LastDay = 1
    MaxBoots = 1
    None = None
PROPERTIES
    EveryRequestIsAnswered
CHECK_DEADLOCK FALSE
