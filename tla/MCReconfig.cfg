CONSTANTS
    m = m
    s = s
    x = x
    y = y
    Node = {m, s}
    Batch = {x}
    Count <- OneEach
    Upstream <- Pair
    Call = {c1, c2}
    Mode = 2
    MaxUpdates = 2
    MaxFaults = 2
    Config <- Rejoin
    MaxAdds = 1
SPECIFICATION FairReconfigSpec
INVARIANTS SinglePullLoop
PROPERTIES RemoveDBReturns RequestsAreAnswered
CHECK_DEADLOCK FALSE
