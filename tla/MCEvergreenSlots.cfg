SPECIFICATION SlotSpec
CONSTANTS
    BufferDays = 1
    MaxQuota = 2
    MaxInteger = 3
    c1 = c1
    c2 = c2
    c3 = c3
    e1 = e1
    e2 = e2
    Contracts = {c1, c2, c3}
    ContentIds = {x1, x2, x3, x4}
    Requests = {r1, r2}
    Emails = {e1, e2}
    NoEmail = NoEmail
    Seeded <- MCSeeded
    RawCreators <- MCRawCreators
    RawContents <- MCRawContents
    LastDay = 2
SYMMETRY MCSymmetry
INVARIANT SlotsHold
PROPERTY ImplementsAllocator
CHECK_DEADLOCK FALSE
