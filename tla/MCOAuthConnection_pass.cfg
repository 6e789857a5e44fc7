SPECIFICATION Spec
CONSTANTS
    st1 = st1
    st2 = st2
    w1 = w1
    w2 = w2
    None = None
    States = {st1, st2}
    Workers = {w1, w2}
    RevokeUrl = {TRUE, FALSE}
    MaxDeletions = 1
    MaxRefreshes = 1
    MaxFaults = 1
INVARIANTS
    TypeOK
    ReplayNeedsDeletion
    StoredMeansConsumed
    ClosedIsInactive
PROPERTIES
    OnlyCallbackConnects
CHECK_DEADLOCK FALSE
