SPECIFICATION FairSpec
CONSTANTS
    r1 = r1
    r2 = r2
    r3 = r3
    r4 = r4
    Requests = {r1, r2, r3}
    NoReq = NoReq
    Users = {"ann"}
    OldUsers = {"ann"}
    supportedCurrencies <- MCCurrencies
    Workload <- LiveWorkload
    Rates = {150}
    Threshold = 30
    StartAmount = 4
    MaxAmount = 9
    MaxCrashes = 0

PROPERTIES
    EveryRequestEnds
