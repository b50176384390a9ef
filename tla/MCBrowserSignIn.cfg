SPECIFICATION SignInSpec
CONSTANTS
    t1 = t1
    t2 = t2
    Tabs = {t1, t2}
    CallsOf <- MCCallsOf
    Entrances = {"/admin"}
    Accounts = {u1}
    Flows = {f1, f2}
    Sessions = {s1}
    NoCookie = NoCookie
    NoFlow = NoFlow
    NoUser = NoUser
INVARIANT CookieTellsTheTruth
PROPERTY SignInsArrive
