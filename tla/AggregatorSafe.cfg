SPECIFICATION FairSpec
CONSTANTS
    N = 3
    Logs <- MixedLogs
    BatchSize = 2
    MaxAttempts = 2
    TickerOn = TRUE
    DLQEnabled = {TRUE, FALSE}
    MaxRestarts = 1
    MaxRebalances = 1
INVARIANTS
    TypeOK
    NothingDropped
    CommitCovered
    SingleCustody
    StoredWhereMeant
PROPERTIES
    EverythingStored
