SPECIFICATION Spec
CONSTANTS
    Timeout = 2
    Cores = 2
    MaxClock = 3
    Helpers = {h1, h2}
INVARIANT
    TimeoutIsReported
CHECK_DEADLOCK FALSE
