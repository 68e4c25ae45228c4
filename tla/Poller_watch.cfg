SPECIFICATION FairSpec
CONSTANTS
    Runs = {r1, r2}
    AtomNames = {1}
    MaxChanges = 3
    MaxFailures = 1
INVARIANTS
    SinkShowsWhatWasSeen
    FinishedFlowsAreQuiet
    NumbersAreKept
PROPERTY
    CatchesUp
