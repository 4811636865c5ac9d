SPECIFICATION Spec
CONSTANTS
    r1 = r1
    r2 = r2
    r3 = r3
    r4 = r4
    Requests = {r1, r2, r3}
    NoReq = NoReq
    Users = {"ann", "bob"}
    OldUsers = {"ann"}
    supportedCurrencies <- MCCurrencies
    Workload <- LedgerWorkload
    Rates = {50, 150}
    Threshold = 30
    StartAmount = 4
    MaxAmount = 9
    MaxCrashes = 1
SYMMETRY MCSymmetry
INVARIANTS
    TypeOK
    NoOverdraft
    NoLostUpdate
    BooksBalance
    AnswersAreTrue
    EventsAreTrue
    RegisteredIsComplete
PROPERTIES
    RefinesAtomicLedger
