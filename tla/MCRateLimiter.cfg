SPECIFICATION HSpec
CONSTANTS
    k1 = k1
    k2 = k2
    k3 = k3
    Keys = {k1, k2, k3}
    Maximum <- MCMaximum
    Window <- MCWindow
    Retention = 3
    EvictAt = 1
    Capacity = 2
    Horizon = 7
    MostRefused = 1
INVARIANTS
    BoundedMap
    TwiceInAnySpan
PROPERTIES
    KeepsQuota
CHECK_DEADLOCK FALSE
