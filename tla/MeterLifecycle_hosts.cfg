SPECIFICATION FairSpec
CONSTANTS
    Hosts = {h1, h2}
    Requests = {r1}
    Loops = {l1, l2}
    Nobody = Nobody
    MaxStarts = 3
    MaxChanges = 2
    MaxFailures = 1
    MaxTimeouts = 1
INVARIANTS
    RunsExactlyWhileHeld
    StoppedMeansReleased
PROPERTIES
    ToldInOrder
    ChangesAreTold
    CallsReturn
