\* One handle, writers and loads that die half way, one change of limits.
SPECIFICATION Spec
CONSTANTS
    Ids = {1, 2, 3, 4}
    Rec <- FourRecords
    RateWindow = 3
    Handles = {h1}
    LimitsSet <- TightOrPaced
    Nobody = Nobody
    MaxRetunes = 1
    MaxPutCrashes = 1
    MaxFoldCrashes = 2
INVARIANTS
    NothingHidden
    StoredIsNamed
PROPERTIES
    ImplementsIndex
    RefoldHeals
