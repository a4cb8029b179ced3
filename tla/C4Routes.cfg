SPECIFICATION Spec
CONSTANTS
    Containers = {1, 2, 3, 4, 5, 6}
    EdgeLists <- MCEdgeLists
    Px = 120
    ColumnStep = 43200
    RowStep = 18000
    Width = 19440
    Height <- MCHeight
    Rank <- MCRank
INVARIANTS
    LayoutTypeOK
    ColumnsAreLongestWalks
    EdgesRunRight
    RoutesClearBoxes
    PortsKeepApart
    LegsKeepApart
CHECK_DEADLOCK FALSE
