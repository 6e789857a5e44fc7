SPECIFICATION Spec
SYMMETRY Symmetry
CONSTANTS
    e1 = e1
    e2 = e2
    s1 = s1
    s2 = s2
    w1 = w1
    w2 = w2
    c1 = c1
    c2 = c2
    None = None
    Events = {e1, e2}
    Subscriptions = {s1, s2}
    Workers = {w1, w2}
    Channel <- TwoChannels
    Unroutable = {}
    RetryMax = 2
    RetryLimit = 1
    DeadLimit = 1
    MaxReplays = 1
    MaxFaults = 1
INVARIANTS
    TypeOK
    DeliveredWasAccepted
    AttemptsAreDeliveries
    AloneIsCounted
    DeadLetteredIsExhausted
PROPERTIES
    ImplementsLedger
CHECK_DEADLOCK FALSE
