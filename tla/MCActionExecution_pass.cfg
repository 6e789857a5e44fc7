SPECIFICATION Spec
CONSTANTS
    Calls = {c1, c2}
    Providers <- Every
    PolicySet = {"slack", "gmail", "stripe"}
    MaxAttempts = 2
    MaxFaults = 1
INVARIANTS
    TypeOK
    DescribedIsBound
    OkIsDone
    
    ReleasedAtEnd
    NoWriteTooOften
CHECK_DEADLOCK FALSE
