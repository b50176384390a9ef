SPECIFICATION Spec
CONSTANTS
    ana = ana
    adm = adm
    bare = bare
    c1 = c1
    c2 = c2
    Users = {ana, adm, bare}
    Kind <- MCKind
    Contracts = {c1, c2}
    Owner <- MCOwner
    StartDay <- MCStartDay
    EndDay <- MCEndDay
    Requests = {r1, r2}
    Never = Never
    RevokeDays = {1}
    DayLength = 2
    Ahead = 1
    LastMoment = 5
SYMMETRY Symmetry
INVARIANT AnswersWereTrue
PROPERTY AccessLastsAndEnds
