SPECIFICATION Spec
CONSTANTS
    Ids = {i1, i2}
    Names = {"default", "oauth_default"}
    Payloads = {p1, p2}
    Expiries = {e1}
    Sessions = {s1, s2}
    None = None
    MaxKey = 2
    MaxOps = 5
INVARIANTS
    TypeOK
    LastWriteIsRead
    NewestReadsAll
CHECK_DEADLOCK FALSE
