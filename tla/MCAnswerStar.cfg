SPECIFICATION Spec
CONSTANTS
    MaxFenced = 0
    MaxPlain = 3
    Answers <- MCAnswers
    None = None
INVARIANT
    OnlyCrashesBlock
CHECK_DEADLOCK FALSE
