CONSTANTS
    db1 = db1
    db2 = db2
    path1 = path1
    path2 = path2
    b1 = b1
    b2 = b2
    Thread = {t1, t2, t3}
    DB = {db1, db2}
    BucketOf <- TwoBuckets
    Checkpoint = TRUE
    Overlap = FALSE
    Garbage = {0, 1}
    MaxLoading = 2
    MaxRequests = 5
    MaxMsgs = 0
    MaxCrashes = 0
    None = None
    Request <- Transfers
SPECIFICATION Spec
SYMMETRY Symmetric
INVARIANTS DownloadsAreLimited S3ClientIsOwn
CHECK_DEADLOCK FALSE
