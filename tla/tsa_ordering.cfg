SPECIFICATION Spec
CONSTANTS
    c1 = c1
    c2 = c2
    d1 = d1
    d2 = d2
    Digicert = Digicert
    Sectigo = Sectigo
    FreeTsa = FreeTsa
    Plain = Plain
    Loopback = Loopback
    Calls = {c1}
    Data = {d1, d2}
    DataOf <- MCDataOf
    Urls = {Digicert, Sectigo, Plain, Loopback}
    PartsOf <- MCPartsOf
    Passed = {None, Plain, Loopback}
    DEFAULT_TSA_URL = Digicert
    FALLBACK_TSA_URL = Sectigo
    AllowInsecureHttp = FALSE
    Libraries = {"pyasn1", "cms"}
    FormOf <- MCFormOf
    Ca = Ca
    None = None
    One = One
    NotASequence = NotASequence
    Quirks = {"ordering"}
    MaxBody = 1
    MaxTokens = 2
INVARIANTS
    RaisesOnlyUnanswered
CHECK_DEADLOCK FALSE
