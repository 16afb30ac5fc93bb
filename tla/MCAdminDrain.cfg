CONSTANTS
    db1 = db1
    db2 = db2
    path1 = path1
    path2 = path2
    b1 = b1
    b2 = b2
    Thread = {t1, t2}
    DB = {db1}
    BucketOf <- TwoBuckets
    Checkpoint = FALSE
    Overlap = FALSE
    Garbage = {0}
    MaxLoading = 2
    MaxRequests = 4
    MaxMsgs = 0
    MaxCrashes = 0
    None = None
    Request <- LoadAndBackup
SPECIFICATION FairSpec
PROPERTIES OldRequestsDrain
CHECK_DEADLOCK FALSE
