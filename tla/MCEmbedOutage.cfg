SPECIFICATION OFairSpec
CONSTANTS
    Searches = {s1, s2, s3, s4, s5}
    Threshold = 2
    Cooldown = 3
    Timeout = 2
INVARIANTS
    TypeOK
    OutageIsBounded
PROPERTIES
    LetsThroughAgain
