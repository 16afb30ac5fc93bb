CONSTANTS
    Task = {k1, k2}
    Notifier = {n1, n2}
    MaxLevel = 2
SPECIFICATION FairSpec
INVARIANTS  AtMostOnce NoMissedNotification TimerLosesNothing
PROPERTIES EventuallyRuns
CHECK_DEADLOCK FALSE
