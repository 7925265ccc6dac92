CONSTANTS
    nodeA = nodeA
    nodeB = nodeB
    bootA1 = bootA1
    bootA2 = bootA2
    bootB1 = bootB1
    s1 = s1
    s2 = s2
    Nodes = {nodeA, nodeB}
    Boots = {bootA1, bootB1}
    Sessions = {s1}
    NodeOf <- MCNodeOf
    Capacity <- MCCapacity
    Capable = {bootA1, bootB1}
    Rehoming = {bootB1}
    Deployed = {bootA1, bootB1}
    Online = {s1}
    Busy = {s1}
    NoBoot = NoBoot
    Free = Free
    MaxEpoch = 2
    MaxPlaced = 1
    MaxFaults = 2
SPECIFICATION Spec
INVARIANTS TypeOK TokensUnique DispatchFenced
PROPERTIES EffectsInEpochOrder FenceSpec
CHECK_DEADLOCK FALSE
