SPECIFICATION Spec
CONSTANTS
    BufferDays = 1
    MaxQuota = 2
    MaxInteger = 3
    c1 = c1
    c2 = c2
    e1 = e1
    e2 = e2
    Contracts = {c1, c2}
    ContentIds = {x1, x2}
    Requests = {r1, r2}
    Emails = {e1, e2}
    NoEmail = NoEmail
    Closed = Closed
    Seeded <- MCSeeded
    RawCreators = {}
    RawContents = {}
    LastDay = 1
    Terms <- MCTerms
    Contents <- MCContents
    MaxOpenings = 2
    MaxPicks = 2
SYMMETRY MCSymmetry
INVARIANT SavesAreAwaited
PROPERTY RefusedOnlyForNews
CHECK_DEADLOCK FALSE
