\* Two attempts instead of five: the first on the pool's thread, the second on the
\* scheduler's.
SPECIFICATION FairSpec
CONSTANTS
    Thread = {t1, t2}
    Storage = {"posix"}
    HelperParams <- MCHelperParams
    Points <- MCPoints
    Attempts = 2
    MaxGets = 3
    MaxFaults = 2
INVARIANTS
    DirectIsVerified
PROPERTIES
    GetReturns
CHECK_DEADLOCK FALSE
