SPECIFICATION FairSpec
CONSTANTS
    Batches = {b1, b2, bad}
    Unreadable = {bad}
    Deliveries = 3
    MaxFailures = 1
    MaxGiveUps = 1
    MaxCrashes = 1
    MaxLate = 1
    InterruptsHandler = TRUE
INVARIANTS
    AckedIsStored
    HandledWhileHeld
    HandledOnce
PROPERTIES
    EventuallyAcked
    StopReturnsUnlessAbandoned
CHECK_DEADLOCK FALSE
