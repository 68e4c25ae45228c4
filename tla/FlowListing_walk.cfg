SPECIFICATION FairListingSpec
CONSTANTS
    NRuns = 3
    MaxTime = 2
    MaxRuns = 2
    MaxLimit = 2
    DefaultLimit = 2
    MaxWrites = 3
    Sources = {"memory", "sqlalchemy", "persistence"}
    ScanTies = FALSE
INVARIANTS
    
    PagesAgree
    KeepsTheLatest
PROPERTIES
    WalkEnds
