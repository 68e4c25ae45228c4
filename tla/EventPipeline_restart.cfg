SPECIFICATION FairSpec
CONSTANTS
    Producers = {p1}
    MaxSubmits = 3
    NPublishers = 2
    MaxQueue = 2
    BatchSize = 2
    MaxStarts = 2
    JoinMayTimeOut = FALSE
    STOP = STOP
INVARIANTS
    StopDelivers
    StartedMeansOpen
PROPERTIES
    BroadcastsInOrder
    EventuallyHandled
    SentinelIsObeyed
CHECK_DEADLOCK FALSE
