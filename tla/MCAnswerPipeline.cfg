SPECIFICATION Spec
CONSTANTS
    MaxFenced = 7
    MaxPlain = 4
    Answers <- MCAnswers
    None = None
INVARIANTS
    TypeOK
    StripsToIntendedCode
    GateJudgesIntendedCode
    GuaranteedCrashIsRejected
CHECK_DEADLOCK FALSE
