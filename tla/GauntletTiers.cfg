SPECIFICATION FairSpec
CONSTANTS
    Tiers <- MCTiers
    Configs <- MCConfigs
    MaxFaults = 1
    MaxStops = 1
INVARIANT
    SkippedLensesAreWhole
PROPERTIES
    CandidatesComeFromValidRecords
    KeepsContract
    EveryRunCanFinish
