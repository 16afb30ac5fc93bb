CONSTANTS
    m = m
    s = s
    x = x
    y = y
    Node = {m, s}
    Batch = {x, y}
    Count <- OneAndTwo
    Upstream <- Pair
    Call = {c1, c2}
    Mode = 2
    MaxUpdates = 2
    MaxFaults = 3
SPECIFICATION Spec
SYMMETRY Symmetric
INVARIANTS TypeOK   AckIsReplicated SeqNoCoversWrite
