CONSTANTS
    Thread = {t1, t2, t3}
    MaxNum = 2
SPECIFICATION FairSpec
INVARIANTS TypeOK TimeoutCheckHolds NoLostWakeup WaitersArePending
PROPERTIES ReachedWaiterReturns ImplementsBox
