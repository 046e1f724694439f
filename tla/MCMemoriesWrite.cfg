SPECIFICATION Spec
CONSTANTS
    a1 = a1
    a2 = a2
    w1 = w1
    w2 = w2
    m1 = m1
    m2 = m2
    g1 = g1
    NoAgent = NoAgent
    NoGap = NoGap
    NoMemory = NoMemory
    NoInput = NoInput
    Agents = {a1, a2}
    Workspaces = {w1, w2}
    WorkspaceOf <- MCWorkspaceOf
    Memories = {m1, m2}
    Gaps = {g1}
    Inputs <- WritingInputs
    ImportMaximum = 2
    Imports = {i1}
    Publications = {p1}
    Removals = {d1}
    Ratings = {}
    Reads = {}
INVARIANTS
    TypeOK
    RemovedIsStripped
    PublicHasOwner
    PendingIsShared
PROPERTIES
    ImportIsAtomic
    KeepsPromise
    OnlyRemovalMakesChecksStale
CHECK_DEADLOCK FALSE
