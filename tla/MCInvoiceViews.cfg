SPECIFICATION ViewSpec
CONSTANTS
    Contracts = {c1}
    Requests = {r1, r2}
    Files = {f1, f2}
    NoContract = NoContract
    NoFile = NoFile
    PoolSize = 2
    Faults = {"crash", "lost_put", "failed_remove"}
    MaxAdjustments = 2
    MaxComments = 0
    MaxSaves = 0
INVARIANTS
    PaymentIsProven
    ViewsAreTrue
SYMMETRY Symmetry
