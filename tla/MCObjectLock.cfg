CONSTANTS
    x = x
    y = y
    z = z
    b1 = b1
    b2 = b2
    Thread = {t1, t2, t3}
    Object = {x, y, z}
    Node = {n1, n2, n3}
    NoNode = NoNode
    Free = Free
    Bucket = {b1, b2}
    BucketOf <- Shared
    PoolSize = 1
SPECIFICATION FairSpec
INVARIANTS TypeOK NodesAreTheUsed TryLockWontBlock
PROPERTIES LockIsMutex WaitedForIsLocked
