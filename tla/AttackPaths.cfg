SPECIFICATION Spec
CONSTANTS
    Nodes = {"a", "x", "y", "j", "k"}
    Edges = {1, 2, 3, 4}
    Graphs <- MCGraphs
    Pairs <- MCPairs
    HopLimits = {2, 5}
    MaxPaths = 2
    MaxRisk = 1
    Threshold = 2
INVARIANTS
    TypeOK
    EveryPathIsCollected
    NothingIsMissing
    WorstPathsAreNamed
    GapsAreSharedEdges
