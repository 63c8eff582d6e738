SPECIFICATION Spec
CONSTANTS
    MaxAttempts = 3
    clean = clean
    v1 = v1
    broken = broken
    Codes <- MCCodes
    Flaws <- MCFlaws
    Tests = {onDisk, written}
    None = None
INVARIANTS
    IInv
    OneRecordPerAttempt
    BackstopNeverHit
    OnlyGatedCodeRuns
    OneYardstick
    EvidenceIsOfThisAttempt
    DiagnosisGuidesNextAttempt
    RetryPromptIsCoherent
    ReportIsLastAttempt
    CallsFollowFromHistory
PROPERTIES
    NothingSpentAfterVerdict
    Terminates
    ImplementsLoop
CHECK_DEADLOCK FALSE
