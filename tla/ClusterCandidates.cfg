SPECIFICATION Spec
CONSTANTS
    N = 5
    MaxGroup = 3
INVARIANTS
    TypeOK
    ForestIsSignalComponents
    GroupsFollowFromSignals
    ChunksAreBounded
PROPERTY
    FindDescends
CHECK_DEADLOCK FALSE
