SPECIFICATION Spec
CONSTANTS
    Producers = {p1, p2}
    MaxSubmits = 2
    NPublishers = 1
    MaxQueue = 1
    BatchSize = 2
    MaxStarts = 1
    JoinMayTimeOut = TRUE
    STOP = STOP
SYMMETRY ProducerSymmetry
INVARIANTS
    LossIsCounted
    NothingVanishes
    FatesAreExclusive
CHECK_DEADLOCK FALSE
