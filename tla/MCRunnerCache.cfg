CONSTANTS
    s1 = s1
    r1 = r1
    r2 = r2
    c1 = c1
    c2 = c2
    p1 = p1
    q1 = q1
    d1 = d1
    Ids = {r1, r2}
    Sessions = {s1}
    Contents = {q1, d1}
    SessionOf <- MCSessionOf
    Kind <- MCKind
    Calls = {c1, c2}
    Sizes = {1, 2}
    MaxCached = 1
    MaxBytes = 1
    Permits = 2
    None = None
    MaxEpoch = 1
    MaxFrames = 4
SYMMETRY MCSymmetry
SPECIFICATION Spec
INVARIANTS TypeOK AtMostOnce CacheAccounting CallsShareOnlyEqualRequests
CHECK_DEADLOCK FALSE
