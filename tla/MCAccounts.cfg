SPECIFICATION Spec
CONSTANTS
    NoDeveloper = NoDeveloper
    NoWorkspace = NoWorkspace
    NoAgent = NoAgent
    NoLogin = NoLogin
    Workspaces = {w1, w2}
    Developers = {d1, d2}
    Agents = {a1, a2}
    Keys = {k1, k2, k3}
    Sessions = {s1, s2}
    Logins = {l1, l2}
    Claims = {c1, c2}
    Joins = {j1}
    Rotations = {r1, r2}
    Renewals = {n1}
    Entries = {e1}
    InviteMaximum = 2
SYMMETRY Interchangeable
INVARIANTS
    OneLiveKey
    NoOrphans
    DeveloperOwnsOne
    OneWayIn
    IInv
PROPERTIES
    OwnershipIsFinal
CHECK_DEADLOCK FALSE
