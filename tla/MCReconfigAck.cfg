CONSTANTS
    m = m
    s = s
    x = x
    y = y
    Node = {m, s}
    Batch = {x, y}
    Count <- OneEach
    Upstream <- Pair
    Call = {c1, c2}
    Mode = 2
    MaxUpdates = 2
    MaxFaults = 1
    Config <- Swap
    MaxAdds = 2
SPECIFICATION ReconfigSpec
SYMMETRY Symmetric
PROPERTIES AckStepIsReplicated
CHECK_DEADLOCK FALSE
