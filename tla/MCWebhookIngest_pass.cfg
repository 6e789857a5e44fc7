SPECIFICATION Spec
CONSTANTS
    m1 = m1
    m2 = m2
    m3 = m3
    m4 = m4
    k1 = k1
    k2 = k2
    NoKey = NoKey
    None = None
    Messages = {m1, m2, m3, m4}
    Genuine = {m1, m3, m4}
    Key <- KeyOf
    Requests = {1, 2}
    MaxSends = 2
    MaxFaults = 1
INVARIANTS
    TypeOK
    OneRowPerKey
    AckedIsStored
PROPERTIES
    ImplementsLog
CHECK_DEADLOCK FALSE
