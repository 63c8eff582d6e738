SPECIFICATION Spec
CONSTANTS
    NumProblems = 2
    Methods <- MCMethods
    MaxAttempts = 2
    good = good
    bad = bad
    Codes <- MCCodes
    Working <- MCWorking
    HostSeconds = {1, 2, 3}
    ProbeTimeout = 3
    RunTimeout = 2
    None = None
INVARIANTS
    HarnessInv
    CostIsMeasured
    
    DeltaIsExplained
    TablesAddUp
CHECK_DEADLOCK FALSE
