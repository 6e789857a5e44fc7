SPECIFICATION FairSpec
CONSTANTS
    Callers = {c1, c2, c3}
    Closers = {c1}
    Names = {"teams", "documentation"}
    OAuthNames = {"teams"}
    StoreNames = {"documentation"}
    Instances = {i1, i2}
    NoInstance = NoInstance
INVARIANTS
    TypeOK
    NoLeak
PROPERTIES
    NoNeedlessRefresh
    CallsEnd
CHECK_DEADLOCK FALSE
