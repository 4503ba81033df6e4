CONSTANTS
    Requests = {r1}
    Licenses = {l1}
    Workers = {w1, w2}
    NoRequest = NoRequest
    NoLicense = NoLicense
    Purposes = {"renewal", "new_subscription"}
    MaxMonths = 1
    MaxClock = 0
    MaxProofs = 2
    MaxRenewals = 2
SPECIFICATION Spec
SYMMETRY Symmetry
INVARIANTS
    PaidHasTransaction
    CreditHasTransaction
