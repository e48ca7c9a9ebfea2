SPECIFICATION FairSpec
CONSTANTS
    c1 = c1
    c2 = c2
    d1 = d1
    d2 = d2
    Digicert = Digicert
    Sectigo = Sectigo
    FreeTsa = FreeTsa
    Plain = Plain
    Loopback = Loopback
    Calls = {c1, c2}
    Data = {d1, d2}
    DataOf <- MCDataOf
    Urls = {Digicert, Sectigo, FreeTsa, Plain, Loopback}
    PartsOf <- MCPartsOf
    Passed = {None, FreeTsa, Plain, Loopback}
    DEFAULT_TSA_URL = Digicert
    FALLBACK_TSA_URL = Sectigo
    AllowInsecureHttp = FALSE
    Libraries = {"pyasn1", "cms"}
    FormOf <- MCFormOf
    Ca = Ca
    None = None
    One = One
    NotASequence = NotASequence
    Quirks = {"no_nonce", "confused", "replayed", "garbled", "refused",
              "not_a_sequence"}
    MaxBody = 1
    MaxTokens = 2
INVARIANTS
    TypeOK
    ReturnedTimeIsFresh
    ReturnedWasAttested
    ReturnedVerifies
    ReadableAnswerIsTaken
    AsksInOrder
PROPERTIES
    StampEnds
CHECK_DEADLOCK FALSE
