SPECIFICATION ViewSpec
CONSTANTS
    c1 = c1
    Contents = {c1}
    Requests = {r1, r2}
    NoContent = NoContent
    Deadline <- OneDeadline
    BufferDays = 1
    LastDay = 3
    MaxDrafts = 3
    MaxComments = 1
    NoLimit = NoLimit
    Periods <- PeriodsAround
VIEW WithoutStamps
SYMMETRY RequestSymmetry
INVARIANTS
    HistoryTellsStatus
    BypassFlagTellsTheTruth
    NoProposalInGraceWindow
    ViewsAgree
PROPERTIES
    ImplementsRounds
    OverdueIsKept
