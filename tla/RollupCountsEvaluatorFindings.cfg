SPECIFICATION Spec
CONSTANTS
    Tiers <- MCOneLens
    Configs <- MCBareConfig
    MaxFaults = 0
    MaxStops = 0
INVARIANT
    RollupCountsEvaluatorFindings
