SPECIFICATION FairSpec
CONSTANTS
    t1 = t1
    t2 = t2
    Threads = {t1, t2}
    KeyBytes = 2
    MaxCalls = 4
INVARIANTS
    TypeOK
    DestroyedIsZeroed
    EnvelopeMeansDestroyed
    NothingIsSignedTwice
    SomeEnvelopeIsWhole
PROPERTIES
    SignedKeyIsZeroed
CHECK_DEADLOCK FALSE
