SPECIFICATION Spec
CONSTANTS
    c1 = c1
    c2 = c2
    c3 = c3
    o1 = o1
    o2 = o2
    Calls = {c1, c2, c3}
    Orders = {o1, o2}
    Batches <- MCBatches
    Nobody = Nobody
    Torn = Torn
    MaxFaults = 2
INVARIANTS
    TypeOK
    BatchLogsAPrefix
    AckedIsIndexed
    LogsMissNothing
    RowIsNotPastItsRecord
    AloneRowsAreExact
SYMMETRY Symmetry
CHECK_DEADLOCK FALSE
