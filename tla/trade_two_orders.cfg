SPECIFICATION Spec
CONSTANTS
    Absent = Absent
    NaN = NaN
    o1 = o1
    o2 = o2
    acct = acct
    b1 = b1
    Orders = {o1, o2}
    Scopes = {acct}
    Brokers = {b1}
    ScopeOf <- MCScopeOf
    Terms <- MCTerms
    Fills <- MCFills
    Onboarded <- MCOnboarded
    Mistakes = {"old_envelope"}
    MaxSeeds = 6
    MaxRecords = 6
    MaxChanges = 0
    MaxStrands = 0
    MaxRotations = 0
INVARIANTS
    CertifiedFillsOnce
    BrokerAcknowledgedThisTrade
    CertifiedNoncesAreDistinct
SYMMETRY Symmetry
CHECK_DEADLOCK FALSE
