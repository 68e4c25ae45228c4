SPECIFICATION FairSpec
CONSTANTS
    Blocks = {"local", "remote"}
    Remote = {"remote"}
    Tasks = {"t1", "t2"}
    Retries = 1
    MaxNotes = 1
INVARIANTS
    WatchesWhileInside
    

    
CHECK_DEADLOCK FALSE
