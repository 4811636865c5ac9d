SPECIFICATION Spec
CONSTANTS
    N = 3
    Ids = {t1, t2}
    Garbage = Garbage
    t1 = t1
    t2 = t2
    UseConsumerGroup = {FALSE}
    retryAttempts = 2
    MaxCrashes = 0
    MaxReconnects = 0
INVARIANTS
    NoEventLost
