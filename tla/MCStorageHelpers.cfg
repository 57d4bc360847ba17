CONSTANTS
    Kinds <- AllKinds
    Programs <- MCPrograms
    InitialSize = 3
    BlockSize = 2
    MinChunk = 1
    MaxChunk = 3
    ConfirmFactor = 2
    Bandwidths = {3}
    ReadChunk = 2
    MaxFaults = 1
    Threads = {t1, t2}
    Contexts = {"file1", "file2"}
    UserOf <- MCUserOf
    Permissions <- MCPermissions
    Descriptors = {3, 4, 5}
    FilePrograms <- MCFilePrograms
    MaxInterrupts = 1
    Stores = {"S3", "Swift", "Ceph"}
    Users = {"owner", "other"}
    HelperUser = "service"
    MaxRequests = 2
    MaxList = 1
    ServerList = 2
    MaxDelete = 2

SPECIFICATION StorageSpec
CHECK_DEADLOCK FALSE
INVARIANTS
    ReadsOwnWrites
    SyncedIsStored
    BlocksAreOneFile
    SystemCallsAreOwn
PROPERTIES
    OperationsReturn
