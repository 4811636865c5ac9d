SPECIFICATION FairSpec
CONSTANTS
    N = 4
    Ids = {t1, t2}
    Garbage = Garbage
    t1 = t1
    t2 = t2
    UseConsumerGroup = {TRUE, FALSE}
    retryAttempts = 2
    MaxCrashes = 2
    MaxReconnects = 2
INVARIANTS
    TypeOK
    OneDocument
    OffsetCovered
PROPERTIES
    EverythingSettled
