CONSTANTS
    nodeA = nodeA
    nodeB = nodeB
    bootA1 = bootA1
    bootA2 = bootA2
    bootB1 = bootB1
    s1 = s1
    s2 = s2
    Nodes = {nodeA}
    Boots = {bootA1, bootA2}
    Sessions = {s1, s2}
    NodeOf <- MCNodeOfOne
    Capacity <- MCCapacity
    Capable = {bootA1, bootA2}
    Rehoming = {bootA1, bootA2}
    Deployed = {bootA1}
    Online = {}
    Busy = {}
    NoBoot = NoBoot
    Free = Free
    MaxEpoch = 3
    MaxPlaced = 1
    MaxFaults = 2
SPECIFICATION Spec
INVARIANTS CapacityAdmission
CHECK_DEADLOCK FALSE
SYMMETRY MCSymmetry
