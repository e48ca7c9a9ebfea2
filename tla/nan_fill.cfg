SPECIFICATION Spec
CONSTANTS
    Absent = Absent
    NaN = NaN
    o1 = o1
    o2 = o2
    acct = acct
    b1 = b1
    Orders = {o1}
    Scopes = {acct}
    Brokers = {b1}
    ScopeOf <- MCScopeOf
    Terms <- MCTerms
    Fills <- MCNaNFills
    Onboarded <- MCOnboarded
    Mistakes = {}
    MaxSeeds = 3
    MaxRecords = 3
    MaxChanges = 0
    MaxStrands = 0
    MaxRotations = 0
INVARIANTS
    FillIsAuthorised
CHECK_DEADLOCK FALSE
