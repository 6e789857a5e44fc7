SPECIFICATION Spec
CONSTANTS
    c1 = c1
    c2 = c2
    c3 = c3
    c4 = c4
    w1 = w1
    w2 = w2
    w3 = w3
    Row = Row
    None = None
    Connections = {c1, c2, c3, c4}
    Unrefreshable = {c3}
    Rotates = {c1, c2}
    Timeless = {c2, c3}
    Workers = {w1, w2, w3}
    Limit = 2
    MaxManual = 2
    MaxFaults = 1
INVARIANTS
    TypeOK
    UsableIsStored
PROPERTIES
    LostOnlyByFault
CHECK_DEADLOCK FALSE
