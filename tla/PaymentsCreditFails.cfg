CONSTANTS
    Requests = {r1}
    Licenses = {l1}
    Workers = {w1}
    NoRequest = NoRequest
    NoLicense = NoLicense
    Purposes = {"renewal"}
    MaxMonths = 1
    MaxClock = 1
    MaxProofs = 1
    MaxRenewals = 2
SPECIFICATION Spec
SYMMETRY Symmetry
PROPERTIES
    FailedCreditRestoresRow
