SPECIFICATION Spec
CONSTANTS
    Sessions = {s1}
    Users = {u1}
    Requests = {r1, r2, r3}
    NoSession = NoSession
    NoUser = NoUser
    IdleTimeout = 2
    AbsoluteLifetime = 3
    LastTime = 4
INVARIANTS
    EndedSessionsAreRefused
    RevokedUsersAreRefused
    NoSessionOutlivesItsCap
SYMMETRY Symmetry
