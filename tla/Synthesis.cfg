SPECIFICATION Spec
CONSTANTS
    LensFindings = {"f1", "f2", "f3"}
    Capabilities = {"c1", "c2"}
    Evaluated = {"t1", "t2"}
    AttackPaths = {"p1"}
    Corpora <- MCCorpora
    Maturity <- MCMaturity
    DecisionLists <- MCDecisionLists
    VerdictLists <- MCVerdictLists
    MaxSessions = 3
INVARIANTS
    TypeOK
    NothingIsLost
    EveryMergeIsAccounted
    MaturityFollowsVerdicts
    RollupCountsTierFourOnce
CHECK_DEADLOCK FALSE
