SPECIFICATION Spec
CONSTANTS
    P = 19
    N = 13
    B = 2
    G <- MCG13
    Bits = 4
    Infinity = Infinity
    Hashes <- MCBits4
    Keys <- MCBits4
INVARIANTS
    TypeOK
    LadderInvariant
    SignatureVerifies
    AdditionIsAGroup
CHECK_DEADLOCK FALSE
