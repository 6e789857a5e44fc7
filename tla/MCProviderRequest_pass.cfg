SPECIFICATION FairSpec
CONSTANTS
    c1 = c1
    c2 = c2
    c3 = c3
    Calls = {c1, c2, c3}
    Mode <- AllModes
    FailureThreshold = 2
    SuccessThreshold = 2
    MaxAttempts = 2
    MaxErrors = 6
INVARIANTS
    TypeOK
    CountsConsecutiveFailures
    RecoveryIsEarned
PROPERTIES
    HealthyRecovers
CHECK_DEADLOCK FALSE
