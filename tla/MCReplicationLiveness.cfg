CONSTANTS
    m = m
    s = s
    x = x
    y = y
    Node = {m, s}
    Batch = {x, y}
    Count <- OneAndTwo
    Upstream <- Pair
    Call = {c1, c2}
    Mode = 1
    MaxUpdates = 2
    MaxFaults = 1
SPECIFICATION FairSpec
INVARIANTS AckIsReplicated
PROPERTIES SlavesCatchUp
