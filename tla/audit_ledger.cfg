SPECIFICATION Spec
CONSTANTS
    t1 = t1
    t2 = t2
    Threads = {t1, t2}
    o1 = o1
    Orders = {o1}
    ph1 = ph1
    ph2 = ph2
    Phases = {ph1, ph2}
    s1 = s1
    s2 = s2
    Stamps = {s1, s2}
    RotationId = RotationId
    NoThread = NoThread
    NoRecord = NoRecord
    Torn = Torn
    EntryLen = 2
    MarkerLen = 3
    TornLen = 1
    MaxFileSize = 4
    FreshStamps = TRUE
    Faults = {"crash", "write", "index", "commit", "close", "db_removed", "rename"}
    MaxCalls = 4
    MaxFaults = 1
INVARIANTS
    IndexIsRebuildable
    SizeIsBounded
    ArchivesAreChained
PROPERTIES
    ImplementsLedger
SYMMETRY Symmetry
