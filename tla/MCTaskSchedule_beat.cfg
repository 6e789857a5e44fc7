SPECIFICATION TaskFairSpec
CONSTANTS
    w1 = w1
    w2 = w2
    NoTask = NoTask
    Entries <- AllEntries
    ByHand <- DispatchByHand
    Processes = {w1, w2}
    MaxSends = 1
    MaxLosses = 2
PROPERTIES
    ScheduledIsRun
CHECK_DEADLOCK FALSE
