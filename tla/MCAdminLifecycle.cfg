CONSTANTS
    db1 = db1
    db2 = db2
    path1 = path1
    path2 = path2
    b1 = b1
    b2 = b2
    Thread = {t1, t2}
    DB = {db1}
    BucketOf <- OneBucket
    Checkpoint = FALSE
    Overlap = FALSE
    Garbage = {0}
    MaxLoading = 1
    MaxRequests = 5
    MaxMsgs = 2
    MaxCrashes = 1
    None = None
    Request <- Lifecycle
SPECIFICATION Spec
SYMMETRY Symmetric
INVARIANTS TypeOK UsedDBIsOpen  RegisterFindsNone HostedIsLoaded 
CHECK_DEADLOCK FALSE
