SPECIFICATION Spec
CONSTANTS
    Timeout = 2
    Cores = 2
    MaxClock = 3
    Helpers = {h1, h2}
INVARIANTS
    SandboxInv
    ResultIsFinal
    TimeoutIsTrue
    RaisesOnlyForCause
    ChildIsContained
PROPERTIES
    CallerReturns
CHECK_DEADLOCK FALSE
