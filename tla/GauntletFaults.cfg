SPECIFICATION Spec
CONSTANTS
    Tiers <- MCOneLens
    Configs <- MCFullConfig
    MaxFaults = 3
    MaxStops = 0
INVARIANTS
    TypeOK
PROPERTIES
    EachStepProgresses
