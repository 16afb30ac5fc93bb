CONSTANTS
    db1 = db1
    db2 = db2
    path1 = path1
    path2 = path2
    b1 = b1
    b2 = b2
    Thread = {t1, t2}
    DB = {db1}
    BucketOf <- OneBucket
    Checkpoint = FALSE
    Overlap = FALSE
    Garbage = {0}
    MaxLoading = 1
    MaxRequests = 4
    MaxMsgs = 0
    MaxCrashes = 0
    None = None
    Request <- Live
SPECIFICATION FairSpec
PROPERTIES FilesOfOpenDBAreKept RequestsAreAnswered
CHECK_DEADLOCK FALSE
