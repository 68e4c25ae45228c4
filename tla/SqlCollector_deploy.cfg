SPECIFICATION FairSpec
CONSTANTS
    Collectors = {c1, c2}
    Atoms = {a1, a2}
    MaxEvents = 2
    MaxProcesses = 2
    MaxFailures = 1
    MaxCrashes = 1
    MaxPrunes = 1
    Limit = 2
INVARIANTS
    AckedIsStored
    SnapshotIsLatest
PROPERTIES
    PagesAreContiguous
    EventuallyRead
CHECK_DEADLOCK FALSE
