SPECIFICATION Spec
CONSTANTS
    Absent = Absent
    NaN = NaN
    o1 = o1
    o2 = o2
    acct = acct
    b1 = b1
    Orders = {o1}
    Scopes = {acct}
    Brokers = {b1}
    ScopeOf <- MCScopeOf
    Terms <- MCTerms
    Fills <- MCTwoFills
    Onboarded <- MCTwoKeys
    Mistakes = {"own_window", "reuse_seed"}
    MaxSeeds = 3
    MaxRecords = 3
    MaxChanges = 1
    MaxStrands = 1
    MaxRotations = 1
INVARIANTS
    TypeOK
    SeedsAreIndependent
    CertifiedIsUntampered
    UntamperedIsCertified
CHECK_DEADLOCK FALSE
