SPECIFICATION FairSpec
CONSTANTS
    StartModes = {"sync", "async", "batch"}
    BatchSize = 2
    FlushIntervalMs = 1
    Controls <- MCControls
    NoControl = NoControl
    MaxEvents = 3
    MaxControls = 1
INVARIANTS
    TypeOK
    NothingDropped
    SentOnce
    BatchBounded
    ShutdownFlushed
PROPERTIES
    BatchDelivered
    ShutdownSendsAll
