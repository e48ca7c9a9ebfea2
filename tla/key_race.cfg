SPECIFICATION Spec
CONSTANTS
    t1 = t1
    t2 = t2
    Threads = {t1, t2}
    KeyBytes = 2
    MaxCalls = 2
INVARIANTS
    OneEnvelope
CHECK_DEADLOCK FALSE
