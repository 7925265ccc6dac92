\* A replacement, a patch, a search, a diff and a client that reads by pages.
SPECIFICATION Spec
CONSTANTS
    a = a
    b = b
    u = u
    w1 = w1
    w2 = w2
    r1 = r1
    l1 = l1
    l2 = l2
    l3 = l3
    n1 = n1
    n2 = n2
    x1 = x1
    Paths = {a, b, u}
    Tracked = {a, b}
    Initial <- MCInitial
    Gone = Gone
    Jobs = {w1, w2, r1}
    Asks <- MCAsks
    ShellLine = x1
    Permits = 2
    MaxLines = 3
    MaxResults = 3
    MaxOutput = 7
    LineBytes <- MCLineBytes
    PathBytes = 1
    DiffBytes <- MCDiffBytes
    Stub = Stub
    Sorted <- MCSorted
    PageLimit = 2
    MaxShell = 1
INVARIANTS
    TypeOK
    AnswersTell
    
    WalksComplete
    PagesTile
PROPERTIES
    EditsCompose
CHECK_DEADLOCK FALSE
