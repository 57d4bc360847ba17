SPECIFICATION FairSpec
CONSTANTS
    Thread = {"t1", "t2", "ev"}
    Uuid = {"root", "a", "b", "c", "d"}
    Handle = {"h1", "h2"}
    Parent <- MCParent
    Order <- MCOrder
    ChunkSize = 1
    InitSize = 2
    InitBlocks = {0}
    Workloads <- MCWorkloads
    MaxFaults = 1
INVARIANTS TrackedIsSubscribed OpenFilesAreHeld OwnWritesAreSeen ReleasedWritesArrived
PROPERTY RetriesEnd
CHECK_DEADLOCK FALSE
