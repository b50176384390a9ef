---------------------------- MODULE BrowserSignIn ----------------------------
(***************************************************************************)
(* One browser and the backend behind it: tabs that open pages, sign in    *)
(* with Google, keep the session alive and sign out.  The attempt to sign  *)
(* in and the session it leads to share one cookie.  A request carries     *)
(* the cookie there was when it left; what its answer sets is set when the *)
(* answer arrives, in whatever order the answers of the tabs arrive.       *)
(*                                                                         *)
(* How a session's row is read and renewed, and how the whitelist answers, *)
(* are AppSessions' and CreatorAccess's concern; here both are asked at    *)
(* one moment.                                                             *)
(***************************************************************************)
EXTENDS Sequences, FiniteSets

CONSTANTS
    Tabs,
    CallsOf,    \* bound: the calls the pages of each tab make
    Entrances,  \* bound: the paths a person opens by themselves
    Accounts,   \* the accounts Google offers
    Flows,      \* attempts to sign in: each one's state, nonce and verifier
    Sessions,   \* session ids
    NoCookie, NoFlow, NoUser

ASSUME SignInAssumption ==
    /\ Flows \cap Sessions = {}     \* neither value parses as the other
    /\ NoCookie \notin Flows \cup Sessions
    /\ NoFlow \notin Flows
    /\ NoUser \notin Accounts
    /\ CallsOf \in [Tabs -> SUBSET {"activity", "api", "logout"}]
    /\ Entrances \subseteq {"/", "/login", "/admin", "/creator"}

VARIABLES
    cookie,     \* the browser's __session
    tabs,       \* what each tab shows
    loading,    \* the page each tab is loading
    fetching,   \* the call each tab's page has under way
    rows,       \* app_sessions
    access,     \* what the whitelist answers
    flows,      \* the flows in use and, for the properties, the spent ones
    told        \* for the properties: the sessions a tab was told have ended

signInVars == <<cookie, tabs, loading, fetching, rows, access, flows, told>>

-----------------------------------------------------------------------------
(* Who is signed in.                                                       *)

Roles == {"admin", "creator"}

HomeFor == [admin |-> "/admin", creator |-> "/creator"]

Paths == {"/", "/login", "/admin", "/creator"}
Pages == {"login", "admin", "creator", "denied", "google", "error"}

NoRow == [state |-> "unused", user |-> NoUser, role |-> "none"]

Live(c) == c \in Sessions /\ rows[c].state = "live"

\* "none" for nobody: the whitelist is asked again, whatever the row says.
CurrentRole(c) ==
    IF Live(c) /\ access[rows[c].user] = rows[c].role THEN rows[c].role ELSE "none"

SignedOut == [x \in Paths |-> CASE x = "/"      -> "/login"
                              [] x = "/login" -> "login"
                              [] OTHER        -> "denied"]

\* Both areas ask for an admin, and send whoever is none to sign in.
Route_AsksForAdmin(path, role) ==
    IF role = "none" THEN SignedOut[path]
    ELSE IF path \in {"/", "/login"} THEN HomeFor[role]
    ELSE IF role = "admin" THEN role ELSE "/login"

\* Where a path leads: to another path, or to a page.
Route(path, role) ==
    IF role = "none" THEN SignedOut[path]
    ELSE IF path \in {"/", "/login"} THEN HomeFor[role]
    ELSE IF path = HomeFor[role] THEN role ELSE "denied"

-----------------------------------------------------------------------------
(* What a tab has under way: a page, and a call of the page it shows.      *)

None == [stage |-> "none"]

Loading(t) == loading[t] # None
Fetching(t) == fetching[t] # None

Opening(path) == [stage |-> "open", path |-> path]

-----------------------------------------------------------------------------
(* The person at the browser.                                              *)

Visit(t, path) ==
    /\ ~Loading(t)
    /\ loading' = [loading EXCEPT ![t] = Opening(path)]
    /\ UNCHANGED <<cookie, tabs, fetching, rows, access, flows>>

PressSignIn(t) ==
    /\ tabs[t].page = "login"
    /\ ~Loading(t)
    /\ loading' = [loading EXCEPT ![t] = [stage |-> "start"]]
    /\ UNCHANGED <<cookie, tabs, fetching, rows, access, flows>>

\* An account is picked, or Google sends the browser back with an error.
LeaveGoogle(t, account) ==
    /\ tabs[t].page = "google"
    /\ ~Loading(t)
    /\ loading' = [loading EXCEPT ![t] =
                     [stage |-> "callback", flow |-> tabs[t].flow,
                      account |-> account, cookie |-> cookie]]
    /\ UNCHANGED <<cookie, tabs, fetching, rows, access, flows>>

\* The browser's Back button: Google's page is still in the tab's history.
BackToGoogle(t) ==
    /\ tabs[t].flow # NoFlow
    /\ tabs[t].page # "google"
    /\ ~Loading(t) /\ ~Fetching(t)
    /\ tabs' = [tabs EXCEPT ![t].page = "google"]
    /\ UNCHANGED <<cookie, loading, fetching, rows, access, flows>>

\* A home's pulse of activity, a call of its own, or Keluar.
Fetch(t, kind) ==
    /\ kind \in CallsOf[t]
    /\ tabs[t].page \in Roles
    /\ ~Loading(t) /\ ~Fetching(t)
    /\ fetching' = [fetching EXCEPT ![t] =
                      [stage |-> "sent", kind |-> kind, cookie |-> cookie]]
    /\ UNCHANGED <<cookie, tabs, loading, rows, access, flows>>

-----------------------------------------------------------------------------
(* Pages.  Answers that change nothing at the server arrive as it gives    *)
(* them: nobody could tell the difference.                                 *)

\* The tab goes on to `to`: a path is opened in its turn, a page shown.
Follow(t, to) ==
    IF to \in Paths
    THEN loading' = [loading EXCEPT ![t] = Opening(to)] /\ UNCHANGED tabs
    ELSE /\ loading' = [loading EXCEPT ![t] = None]
         /\ tabs' = [tabs EXCEPT ![t].page = to]

ServePage(t) ==
    /\ loading[t].stage = "open"
    /\ Follow(t, Route(loading[t].path, CurrentRole(cookie)))
    /\ UNCHANGED <<cookie, fetching, rows, access, flows>>

\* A flow of its own for every attempt.
newFlow(f) ==
    /\ flows[f] = "new"
    /\ flows' = [flows EXCEPT ![f] = "drawn"]

\* Google's page is another document: the tab's fetch dies with the old one.
ServeStart(t, f) ==
    /\ loading[t].stage = "start"
    /\ newFlow(f)
    /\ cookie' = f
    /\ tabs' = [tabs EXCEPT ![t] = [page |-> "google", flow |-> f]]
    /\ loading' = [loading EXCEPT ![t] = None]
    /\ fetching' = [fetching EXCEPT ![t] = None]
    /\ UNCHANGED <<rows, access>>

\* What is refused leaves the flow for another try.
RefuseCallback_KeepsFlow(t) ==
    /\ Follow(t, "/login")
    /\ flows' = [flows EXCEPT ![loading[t].flow] = "spent"]
    /\ UNCHANGED <<cookie, fetching, rows, access>>

\* The flow is spent whatever becomes of the attempt.
RefuseCallback(t) ==
    /\ Follow(t, "/login")
    /\ cookie' = NoCookie
    /\ flows' = [flows EXCEPT ![loading[t].flow] = "spent"]
    /\ UNCHANGED <<fetching, rows, access>>

\* No flow for anything but what a start put there, a session's value included.
parseFlow(value) == IF value \in Flows THEN value ELSE NoFlow

\* The callback belongs to the flow in the cookie it carries.
CheckCallback(call) ==
    /\ parseFlow(call.cookie) # NoFlow
    /\ call.flow = parseFlow(call.cookie)
    /\ call.account \in Accounts

ServeCallback(t) ==
    /\ loading[t].stage = "callback"
    /\ IF CheckCallback(loading[t])
       THEN /\ loading' = [loading EXCEPT ![t].stage = "exchanging"]
            /\ UNCHANGED <<cookie, tabs, fetching, rows, access, flows>>
       ELSE RefuseCallback(t)

Welcome(s) == <<NoCookie, s>>

\* The token is Google's, for this client and the nonce of this flow, and names
\* a verified email.
VerifyIdToken(t) ==
    /\ loading' = [loading EXCEPT ![t].stage = "identified"]
    /\ UNCHANGED <<cookie, tabs, fetching, rows, access, flows>>

\* Google answers with such a token, or otherwise, or not in time.
ExchangeCode(t) ==
    /\ loading[t].stage = "exchanging"
    /\ RefuseCallback(t) \/ VerifyIdToken(t)

\* The whitelist and the new row: both may fail the attempt.
CompleteSignIn(t) ==
    LET user == loading[t].account IN
    /\ loading[t].stage = "identified"
    /\ \/ RefuseCallback(t)
       \/ \E s \in Sessions :
            /\ access[user] # "none"
            /\ rows[s] = NoRow
            /\ rows' = [rows EXCEPT ![s] =
                          [state |-> "live", user |-> user, role |-> access[user]]]
            /\ loading' = [loading EXCEPT ![t] =
                 [stage |-> "welcomed", flow |-> @.flow,
                  sets |-> Welcome(s), to |-> HomeFor[access[user]]]]
            /\ UNCHANGED <<cookie, tabs, fetching, access, flows>>

\* Cookies are set in the order the answer names them.
ReceiveWelcome(t) ==
    LET answer == loading[t] IN
    /\ answer.stage = "welcomed"
    /\ cookie' = answer.sets[Len(answer.sets)]
    /\ Follow(t, answer.to)
    /\ flows' = [flows EXCEPT ![answer.flow] = "spent"]
    /\ UNCHANGED <<fetching, rows, access>>

\* The backend is not reached, or its answer is lost: the login page shows all
\* the same, any other page does not.
PageFails(t) ==
    /\ Loading(t)
    /\ Follow(t, IF loading[t] = Opening("/login") THEN "login" ELSE "error")
    /\ UNCHANGED <<cookie, fetching, rows, access, flows>>

-----------------------------------------------------------------------------
(* Calls of a home.                                                        *)

Arrived(t, kind) == fetching[t].stage = "sent" /\ fetching[t].kind = kind

Answer(t, sets, to) ==
    fetching' = [fetching EXCEPT ![t] =
                   [stage |-> "answered", kind |-> @.kind, cookie |-> @.cookie,
                    sets |-> sets, to |-> to]]

\* A request of a live session has its cookie set anew, even one that the
\* whitelist then refuses.
Renewed(c) == IF Live(c) THEN <<c>> ELSE <<>>

ServeActivity(t) ==
    /\ Arrived(t, "activity")
    /\ Answer(t, Renewed(fetching[t].cookie), "stay")
    /\ UNCHANGED <<cookie, tabs, loading, rows, access, flows>>

\* Only who is not signed in is sent to sign in; the other role is told so.
ServeApi(t) ==
    LET c == fetching[t].cookie IN
    /\ Arrived(t, "api")
    /\ Answer(t, Renewed(c), IF CurrentRole(c) = "none" THEN "/login" ELSE "stay")
    /\ UNCHANGED <<cookie, tabs, loading, rows, access, flows>>

\* The row first, then the cookie.
LogOut(t) ==
    LET c == fetching[t].cookie IN
    /\ Arrived(t, "logout")
    /\ IF Live(c) THEN rows' = [rows EXCEPT ![c].state = "gone"] ELSE UNCHANGED rows
    /\ Answer(t, <<NoCookie>>, "/login")
    /\ UNCHANGED <<cookie, tabs, loading, access, flows>>

\* Signed out, or found to be: the login page takes the place of whatever the
\* tab was loading.
ReceiveFetch(t) ==
    LET answer == fetching[t] IN
    /\ answer.stage = "answered"
    /\ cookie' = IF answer.sets = <<>> THEN cookie ELSE Head(answer.sets)
    /\ loading' = IF answer.to \in Paths
                  THEN [loading EXCEPT ![t] = Opening(answer.to)] ELSE loading
    /\ fetching' = [fetching EXCEPT ![t] = None]
    /\ told' = told \cup (IF answer.kind = "logout" THEN {answer.cookie} \cap Sessions ELSE {})
    /\ UNCHANGED <<tabs, rows, access, flows>>

\* The call does not come through, or its answer does not: nothing follows.
FetchFails(t) ==
    /\ Fetching(t)
    /\ fetching' = [fetching EXCEPT ![t] = None]
    /\ UNCHANGED <<cookie, tabs, loading, rows, access, flows>>

-----------------------------------------------------------------------------
(* Time and the admins.                                                    *)

RowExpires(s) ==
    /\ Live(s)
    /\ rows' = [rows EXCEPT ![s].state = "gone"]
    /\ UNCHANGED <<cookie, tabs, loading, fetching, access, flows>>

CookieExpires ==
    /\ cookie # NoCookie
    /\ cookie' = NoCookie
    /\ UNCHANGED <<tabs, loading, fetching, rows, access, flows>>

ChangeAccess(u, role) ==
    /\ access' = [access EXCEPT ![u] = role]
    /\ UNCHANGED <<cookie, tabs, loading, fetching, rows, flows>>

-----------------------------------------------------------------------------

SignInInit ==
    /\ cookie = NoCookie
    /\ tabs = [t \in Tabs |-> [page |-> "login", flow |-> NoFlow]]
    /\ loading = [t \in Tabs |-> None]
    /\ fetching = [t \in Tabs |-> None]
    /\ rows = [s \in Sessions |-> NoRow]
    /\ access \in [Accounts -> Roles]
    /\ flows = [f \in Flows |-> "new"]
    /\ told = {}

Person(t) ==
    \/ \E path \in Entrances : Visit(t, path)
    \/ PressSignIn(t)
    \/ \E account \in Accounts \cup {"refused"} : LeaveGoogle(t, account)
    \/ BackToGoogle(t)
    \/ \E kind \in {"activity", "api", "logout"} : Fetch(t, kind)

Page(t) ==
    \/ ServePage(t)
    \/ \E f \in Flows : ServeStart(t, f)
    \/ ServeCallback(t) \/ ExchangeCode(t) \/ CompleteSignIn(t) \/ ReceiveWelcome(t) \/ PageFails(t)

Call(t) == ServeActivity(t) \/ ServeApi(t) \/ LogOut(t) \/ FetchFails(t)

World ==
    \/ \E s \in Sessions : RowExpires(s)
    \/ CookieExpires
    \/ \E u \in Accounts, role \in Roles \cup {"none"} : ChangeAccess(u, role)

SignInNext ==
    \/ \E t \in Tabs : ReceiveFetch(t)
    \/ /\ World \/ \E t \in Tabs : Person(t) \/ Page(t) \/ Call(t)
       /\ UNCHANGED told

\* What a tab loads is answered: the exchange with Google and the fetch of its
\* keys are given up after five seconds, and whatever fails there is caught.
SignInSpec ==
    /\ SignInInit /\ [][SignInNext]_signInVars
    /\ \A t \in Tabs : WF_signInVars(Page(t) /\ UNCHANGED told)

-----------------------------------------------------------------------------
(* Properties.                                                             *)

\* Cookies, rows, tabs and flows keep their shape; the page a tab shows is one
\* the app or Google has (google-auth.controller.ts, session.server.ts).
SignInTypeOK ==
    /\ cookie \in Flows \cup Sessions \cup {NoCookie}
    /\ tabs \in [Tabs -> [page : Pages, flow : Flows \cup {NoFlow}]]
    /\ rows \in [Sessions -> {NoRow} \cup
                   [state : {"live", "gone"}, user : Accounts, role : Roles]]
    /\ access \in [Accounts -> Roles \cup {"none"}]
    /\ flows \in [Flows -> {"new", "drawn", "spent"}]

\* A flow the browser was answered about is spent, pass or fail: it is never
\* in the cookie again, whichever tabs are signing in and whatever of them
\* goes back to Google (google-auth.controller.ts, callback).
FlowsAreSpent == cookie \in Flows => flows[cookie] = "drawn"

\* Who is told to be signed out is: the session such an answer was asked with
\* has ended before it leaves the server, and stays so after it arrived,
\* whatever calls of other tabs are still under way.  The late answer of such a
\* call may put that session back in the cookie, where it signs nobody in
\* (session.service.ts, logout; dev-creator.guard.ts).
SignOutsAreKept ==
    /\ \A t \in Tabs :
         Fetching(t) /\ fetching[t].kind = "logout" /\ fetching[t].stage = "answered"
         => ~Live(fetching[t].cookie)
    /\ \A s \in told : ~Live(s)

\* A sign-in that succeeds leaves the browser holding the session it started,
\* in place of the flow that shares its cookie, and takes the tab to that
\* session's home (flow-cookie.ts, google-sign-in.service.ts).
LandsWhereSignedIn ==
    [][\A t \in Tabs :
         ReceiveWelcome(t) =>
             cookie' \in Sessions /\ loading'[t] = Opening(HomeFor[rows[cookie'].role])]_signInVars

\* A tab that opens a page, signs in or comes back from Google comes to rest on
\* a page, with no redirect going round in circles, whatever the whitelist says
\* meanwhile (admin and creator layouts, login page, google-sign-in.service.ts).
TabsSettle == \A t \in Tabs : []<>~Loading(t)

\* "a session lasts until sign-out or until access is revoked": the browser
\* loses no live session but by time or by signing out (dev-creator.guard.ts).
SessionLastsUntilSignOut ==
    [][Live(cookie) /\ ~Live(cookie)' =>
         \/ CookieExpires \/ \E s \in Sessions : RowExpires(s)
         \/ \E t \in Tabs : Fetching(t) /\ fetching[t].kind = "logout"]_signInVars

\* The one cookie tells the truth: no spent flow is in it, and no session of
\* which the browser was told that it ended is of any use there.
CookieTellsTheTruth ==
    /\ SignInTypeOK
    /\ FlowsAreSpent
    /\ SignOutsAreKept

\* Every sign-in comes to an end, and a good one at its home with its session.
SignInsArrive ==
    /\ LandsWhereSignedIn
    /\ TabsSettle
=============================================================================
