SPECIFICATION FairSpec
CONSTANTS
    Threads = {t1, t2}
    Clients = {c1}
    MaxSeq = 4
    MaxEvents = 2
    Limit = 2
    MaxBreaks = 1
    CanLose = TRUE
INVARIANTS
    FramesAreContiguous
    PageIsTheLoop
PROPERTIES
    OnlyAHoleHoldsBack
    StreamEnds
CHECK_DEADLOCK FALSE
