SPECIFICATION Spec
CONSTANTS
    Calls = {c1}
    Providers = {"postgres", "mysql"}
    PolicySet = {}
    MaxAttempts = 2
    MaxFaults = 1
INVARIANTS
    AnsweredIsDone
CHECK_DEADLOCK FALSE
