SPECIFICATION Spec
CONSTANTS
    e1 = e1
    e2 = e2
    s1 = s1
    s2 = s2
    w1 = w1
    w2 = w2
    c1 = c1
    c2 = c2
    None = None
    Events = {e1}
    Subscriptions = {s1, s2}
    Workers = {w1}
    Channel <- OneChannel
    Unroutable = {}
    RetryMax = 2
    RetryLimit = 1
    DeadLimit = 1
    MaxReplays = 0
    MaxFaults = 0
INVARIANTS
    FailedDeliveryIsRetried
CHECK_DEADLOCK FALSE
