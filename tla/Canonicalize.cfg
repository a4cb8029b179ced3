SPECIFICATION Spec
CONSTANTS
    NFiles = 2
    NRecs = 3
    FileOf <- MCFileOf
    Cites <- MCCites
    d1 = d1
    d2 = d2
    d3 = d3
    a1 = a1
    Ids <- MCIds
    Derived <- MCDerived
    Authored <- MCAuthored
    CutTitles <- MCCutTitles
    NoId = NoId
    Ctx = {"index"}
    MaxEdits = 1
SYMMETRY MCSymmetry
INVARIANTS
    TypeOK
    CanonicalIdsAreUnique
    CitationsFollowTheirRecords
PROPERTIES
    SecondPassChangesNothing
    CrashStrandsTheCitersBehind
