SPECIFICATION Spec
CONSTANTS
    r1 = r1
    r2 = r2
    r3 = r3
    r4 = r4
    Requests = {r1, r2, r3, r4}
    NoReq = NoReq
    Users = {"bob"}
    OldUsers = {}
    supportedCurrencies <- MCCurrencies
    Workload <- RegisterWorkload
    Rates = {50}
    Threshold = 30
    StartAmount = 0
    MaxAmount = 9
    MaxCrashes = 0

INVARIANTS
    ExchangeCredits
