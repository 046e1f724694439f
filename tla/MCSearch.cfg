SPECIFICATION SSpec
CONSTANTS
    a1 = a1
    w1 = w1
    g1 = g1
    NoAgent = NoAgent
    NoGap = NoGap
    NoMemory = NoMemory
    NoInput = NoInput
    Agents = {a1}
    Workspaces = {w1}
    WorkspaceOf <- MCWorkspaceOf
    Memories = {1}
    Gaps = {g1}
    Inputs <- FoundInputs
    ImportMaximum = 1
    Imports = {i1}
    Publications = {p1}
    Removals = {d1}
    Ratings = {}
    Reads = {}
    RRF_K = 2
    Candidates = 1
    Searches = {s1}
    Openings = {o1}
    Limits = {1}
    GapCandidates = 1
INVARIANTS
    SearchIInv
PROPERTIES
    ReadableUntilRemoved
    FoundIsReadable
    RelatedGapsAreClosed
CHECK_DEADLOCK FALSE
