SPECIFICATION Spec
CONSTANTS
    r1 = r1
    r2 = r2
    Requests = {r1, r2}
    Profiles <- MCSubscriptionOnly
    InitWallet = 3
    InitToken = 4
    SubTotal = 4
    AllowOverflow = TRUE
    Actuals = {0, 2, 3}
    TrustQuota = 2
    ViolationFee = 1
    MaxFaults = 1
INVARIANTS RefundIdempotent
