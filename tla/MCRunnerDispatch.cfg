CONSTANTS
    s1 = s1
    r1 = r1
    r2 = r2
    c1 = c1
    c2 = c2
    p1 = p1
    q1 = q1
    d1 = d1
    Ids = {r1, r2}
    Sessions = {s1}
    Contents = {p1}
    SessionOf <- MCSessionOf
    Kind <- MCKind
    Calls = {c1, c2}
    Sizes = {1}
    MaxCached = 2
    MaxBytes = 1
    Permits = 2
    None = None
    MaxEpoch = 2
    MaxFrames = 2
SPECIFICATION FairSpec
INVARIANTS SupersededIsWoken
PROPERTIES GuardsNeverRevive MutationsInEpochOrder CallsAnswered
CHECK_DEADLOCK FALSE
