SPECIFICATION TaskFairSpec
CONSTANTS
    w1 = w1
    w2 = w2
    NoTask = NoTask
    Entries <- RetryEntry
    ByHand <- SomeByHand
    Processes = {w1, w2}
    MaxSends = 3
    MaxLosses = 2
INVARIANTS
    NothingLost
PROPERTIES
    SentIsRun
CHECK_DEADLOCK FALSE
