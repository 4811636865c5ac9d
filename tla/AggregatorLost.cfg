SPECIFICATION Spec
CONSTANTS
    N = 3
    Logs <- AllLogs
    BatchSize = 2
    MaxAttempts = 2
    TickerOn = TRUE
    DLQEnabled = {TRUE, FALSE}
    MaxRestarts = 1
    MaxRebalances = 0
INVARIANTS
    NoEventLost
