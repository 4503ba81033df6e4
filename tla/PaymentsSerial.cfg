CONSTANTS
    Requests = {r1, r2}
    Licenses = {l1}
    Workers = {w1}
    NoRequest = NoRequest
    NoLicense = NoLicense
    Purposes = {"renewal"}
    MaxMonths = 2
    MaxClock = 1
    MaxProofs = 1
    MaxRenewals = 2
SPECIFICATION Spec
SYMMETRY Symmetry
INVARIANTS
    TypeOK
    CreditedOnce
    PaidPeriodsChain
    RefusedLeavesNoMoney
PROPERTIES
    ImplementsLedger
