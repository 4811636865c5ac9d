SPECIFICATION FairPipeline
CONSTANTS
    N = 2
    Ids = {t1, t2}
    Ops = {t1}
    Garbage = Garbage
    t1 = t1
    t2 = t2
    UseConsumerGroup = {TRUE, FALSE}
    retryAttempts = 1
    MaxCrashes = 1
    MaxReconnects = 0
    retries = 3
    backoffMs = 1
    timeoutPerAttempt = 1
    MaxDeaths = 1
INVARIANTS
    PublisherTypeOK
    TimeBounded
    AckedNotLost
PROPERTIES
    EndToEnd
