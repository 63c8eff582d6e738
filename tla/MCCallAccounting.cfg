SPECIFICATION Spec
CONSTANTS
    Workers = {t1, t2}
    r1 = r1
    r2 = r2
    r3 = r3
    shared = shared
    own = own
    Requests <- MCRequests
    Keys = {shared, own}
    SharedKey = shared
    VisitorKey <- MCVisitorKey
    MaxNesting = 2
    Nesting <- MCNesting
    MaxCalls = 2
    None = None
INVARIANTS
    AccountingInv
    KeysStayApart
PROPERTIES
    ImplementsLedger
CHECK_DEADLOCK FALSE
