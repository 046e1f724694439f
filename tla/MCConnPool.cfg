SPECIFICATION FairSpec
CONSTANTS
    Connections = {c1, c2}
    Requests = {r1, r2, r3, r4}
    Nobody = Nobody
    AcquireTimeout = 2
    MostAwaits = 1
INVARIANTS
    IInv
    StallIsBounded
PROPERTIES
    RequestsEnd
