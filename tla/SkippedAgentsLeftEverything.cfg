SPECIFICATION Spec
CONSTANTS
    Tiers <- MCOneLens
    Configs <- MCFullConfig
    MaxFaults = 0
    MaxStops = 1
INVARIANT
    SkippedAgentsLeftEverything
