SPECIFICATION ASpec
CONSTANTS
    RRF_K = 2
    Candidates = 3
    Memories = {1, 2, 3, 4}
    Limits = {2, 4}
    Narrow = 1
    Wide = 2
    Unparsable = Unparsable
    Opaque = Opaque
    Configured <- MCConfigured
    MostEntries = 3
INVARIANTS
    OrderIsTotal
    BothChannelsFirst
    BetterRanksFirst
    CountedForItsSender
    TrustIsByPrefix
CHECK_DEADLOCK FALSE
