SPECIFICATION Spec
CONSTANTS
    a1 = a1
    a2 = a2
    w1 = w1
    w2 = w2
    m1 = m1
    m2 = m2
    g1 = g1
    NoAgent = NoAgent
    NoGap = NoGap
    NoMemory = NoMemory
    NoInput = NoInput
    Agents = {a1, a2}
    Workspaces = {w1}
    WorkspaceOf <- MCOneWorkspace
    Memories = {m1}
    Gaps = {}
    Inputs <- RatingInputs
    ImportMaximum = 1
    Imports = {i1}
    Publications = {p1}
    Removals = {d1}
    Ratings = {}
    Reads = {}
PROPERTIES
    RemovedNeverPublished
CHECK_DEADLOCK FALSE
