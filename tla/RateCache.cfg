SPECIFICATION FairSpec
CONSTANTS
    c1 = c1
    c2 = c2
    Callers = {c1, c2}
    Pairs = {"USD_EUR"}
    Rates = {0, 1}
    Absent = Absent
    AllPairs = AllPairs
    Nobody = Nobody
    TTL = 2
    Timeout = 1
    MaxTime = 5
    MaxUpdates = 1
INVARIANTS
    TypeOK
    RateWasCurrent
    WaitBounded
PROPERTIES
    FetchedOncePerTTL
    EveryCallReturns
