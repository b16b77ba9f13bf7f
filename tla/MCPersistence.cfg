CONSTANTS
    NoName = ""
    ChunkSize = 2
    Lines <- MCLines
    Fingerprint <- MCFingerprint
    ArgumentOrders <- MCArgumentOrders
    INT64_MAX = 17
    MaxLines = 4
    LongNames = {"long"}
    WordSize = 5
    Numbers = {0, 1, 2}
SPECIFICATION Spec
INVARIANTS
    TypeOK
    IngestsExactly
    PoolsExactly
    RoundTrip
    DamageCaught
