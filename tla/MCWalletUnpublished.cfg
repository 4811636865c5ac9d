SPECIFICATION Spec
CONSTANTS
    r1 = r1
    r2 = r2
    r3 = r3
    r4 = r4
    Requests = {r1, r2}
    NoReq = NoReq
    Users = {"ann"}
    OldUsers = {"ann"}
    supportedCurrencies <- MCCurrencies
    Workload <- LargeExchange
    Rates = {50}
    Threshold = 30
    StartAmount = 4
    MaxAmount = 9
    MaxCrashes = 0

INVARIANTS
    LargePublished
