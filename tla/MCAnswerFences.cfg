SPECIFICATION Spec
CONSTANTS
    MaxFenced = 7
    MaxPlain = 0
    Answers <- MCAnswers
    None = None
INVARIANT
    TakesAFencedBlock
CHECK_DEADLOCK FALSE
