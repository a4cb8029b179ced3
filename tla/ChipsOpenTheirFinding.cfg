SPECIFICATION Spec
CONSTANTS
    p1 = p1  p2 = p2  p3 = p3  p4 = p4
    attacker = attacker  jewel = jewel  vault = vault  idle = idle
    f1 = f1  f2 = f2  f3 = f3  lens1 = lens1  lens2 = lens2
    A = A  B = B  C = C
    None = None
    PathList <- MCPathList
    PairOf <- MCPairOf
    NodesOf <- MCNodesOf
    LooseNodes <- MCLooseNodes
    FindingList <- MCFindingList
    Filters <- MCFilters
    PathOf <- MCPathOf
    FindingsOn <- MCFindingsOn
    Authored <- MCAuthored
    Overlays <- MCOverlays
    MaxMoves = 3
INVARIANT
    ChipsOpenTheirFinding
CHECK_DEADLOCK FALSE
