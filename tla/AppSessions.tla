---------------------------- MODULE AppSessions ----------------------------
(***************************************************************************)
(* Signing in, the session every later request carries, and the guard that *)
(* lets the request through: the session's row is read, judged by the      *)
(* clock and renewed, and the whitelist is asked again.  Each of these is  *)
(* a statement of its own, so requests of one browser and a logout in      *)
(* another tab come between them.                                          *)
(***************************************************************************)
EXTENDS Naturals

CONSTANTS
    Sessions,           \* random session ids
    Users,              \* ids of users the whitelist may know
    Requests,           \* slots for requests in flight
    NoSession, NoUser,
    IdleTimeout, AbsoluteLifetime,
    LastTime            \* bound: the last time the clock shows

ASSUME AppSessionsAssumption ==
    /\ NoSession \notin Sessions
    /\ NoUser \notin Users
    /\ IdleTimeout \in Nat \ {0}
    /\ AbsoluteLifetime \in Nat
    /\ IdleTimeout <= AbsoluteLifetime
    /\ LastTime \in Nat

VARIABLES
    clock,      \* the time the program reads
    access,     \* what the whitelist answers for each user
    rows,       \* app_sessions
    requests    \* the requests in flight

vars == <<clock, access, rows, requests>>

-----------------------------------------------------------------------------

Roles == {"admin", "creator"}

\* state: a row is "unused" before its id is drawn and "gone" once deleted.
NoRow == [state |-> "unused", user |-> NoUser, role |-> "none",
          idle |-> 0, absolute |-> 0]

Rows == [state : {"live", "gone"}, user : Users, role : Roles,
         idle : Nat, absolute : Nat]

Idle == [phase |-> "idle", session |-> NoSession, user |-> NoUser,
         role |-> "none", idle |-> 0, absolute |-> 0,
         ended |-> FALSE, unwelcome |-> FALSE]

SignInPhases == {"identified", "resolved"}
UsePhases    == {"arrived", "read", "expired", "renewing", "renewed", "admitted"}

\* idle, absolute: what the request read, then what it is about to write.
\* ended, unwelcome: what was true of its session when it arrived, for the
\* properties.
RequestStates ==
    [phase : SignInPhases \cup UsePhases, session : Sessions \cup {NoSession},
     user : Users, role : Roles \cup {"none"}, idle : Nat, absolute : Nat,
     ended : BOOLEAN, unwelcome : BOOLEAN]

GoTo(r, phase) == requests' = [requests EXCEPT ![r].phase = phase]

Finish(r) == requests' = [requests EXCEPT ![r] = Idle]

IsOver(s) == rows[s].state = "gone" \/ rows[s].absolute <= clock

-----------------------------------------------------------------------------
(* Signing in: Google has named the user.                                  *)

SignIn(r, u) ==
    /\ requests[r] = Idle
    /\ requests' = [requests EXCEPT ![r] =
                      [Idle EXCEPT !.phase = "identified", !.user = u]]
    /\ UNCHANGED <<clock, access, rows>>

\* The whitelist answers, and the new session's times are fixed.
Resolve(r) ==
    LET role == access[requests[r].user] IN
    /\ requests[r].phase = "identified"
    /\ IF role = "none"
       THEN Finish(r)
       ELSE requests' = [requests EXCEPT
              ![r].phase = "resolved", ![r].role = role,
              ![r].idle = clock + IdleTimeout,
              ![r].absolute = clock + AbsoluteLifetime]
    /\ UNCHANGED <<clock, access, rows>>

Start(r, s) ==
    LET q == requests[r] IN
    /\ q.phase = "resolved"
    /\ rows[s] = NoRow
    /\ rows' = [rows EXCEPT ![s] =
                  [state |-> "live", user |-> q.user, role |-> q.role,
                   idle |-> q.idle, absolute |-> q.absolute]]
    /\ Finish(r)
    /\ UNCHANGED <<clock, access>>

-----------------------------------------------------------------------------
(* A guarded request: authenticate, then the whitelist.                    *)

Arrive(r, s) ==
    /\ requests[r] = Idle
    /\ rows[s] # NoRow
    /\ requests' = [requests EXCEPT ![r] =
                      [Idle EXCEPT !.phase = "arrived", !.session = s,
                                   !.user = rows[s].user,
                                   !.ended = IsOver(s),
                                   !.unwelcome = access[rows[s].user] # rows[s].role]]
    /\ UNCHANGED <<clock, access, rows>>

ReadRow(r) ==
    LET row == rows[requests[r].session] IN
    /\ requests[r].phase = "arrived"
    /\ IF row.state = "live"
       THEN requests' = [requests EXCEPT
              ![r].phase = "read", ![r].role = row.role,
              ![r].idle = row.idle, ![r].absolute = row.absolute]
       ELSE Finish(r)
    /\ UNCHANGED <<clock, access, rows>>

Earlier(a, b) == IF a <= b THEN a ELSE b

\* Activity renews the session for as long as it goes on.
Judge_Uncapped(r) ==
    LET q == requests[r] IN
    /\ q.phase = "read"
    /\ IF q.idle <= clock \/ q.absolute <= clock
       THEN GoTo(r, "expired")
       ELSE requests' = [requests EXCEPT
              ![r].phase = "renewing", ![r].idle = clock + IdleTimeout]
    /\ UNCHANGED <<clock, access, rows>>

Judge(r) ==
    LET q == requests[r] IN
    /\ q.phase = "read"
    /\ IF q.idle <= clock \/ q.absolute <= clock
       THEN GoTo(r, "expired")
       ELSE requests' = [requests EXCEPT
              ![r].phase = "renewing",
              ![r].idle = Earlier(clock + IdleTimeout, q.absolute)]
    /\ UNCHANGED <<clock, access, rows>>

Delete(s) == rows' = [rows EXCEPT ![s].state = "gone"]

DeleteExpired(r) ==
    /\ requests[r].phase = "expired"
    /\ Delete(requests[r].session)
    /\ Finish(r)
    /\ UNCHANGED <<clock, access>>

\* An upsert: a row that was deleted meanwhile comes back.
Renew_Upsert(r) ==
    LET q == requests[r] IN
    /\ q.phase = "renewing"
    /\ rows' = [rows EXCEPT ![q.session].state = "live", ![q.session].idle = q.idle]
    /\ GoTo(r, "renewed")
    /\ UNCHANGED <<clock, access>>

\* The UPDATE of a row that is gone throws, and the request fails.
Renew(r) ==
    LET q == requests[r] IN
    /\ q.phase = "renewing"
    /\ IF rows[q.session].state = "live"
       THEN /\ rows' = [rows EXCEPT ![q.session].idle = q.idle]
            /\ GoTo(r, "renewed")
       ELSE /\ Finish(r)
            /\ UNCHANGED rows
    /\ UNCHANGED <<clock, access>>

\* The role recorded at sign-in is trusted.
AskWhitelist_TrustsSession(r) ==
    /\ requests[r].phase = "renewed"
    /\ GoTo(r, "admitted")
    /\ UNCHANGED <<clock, access, rows>>

AskWhitelist(r) ==
    /\ requests[r].phase = "renewed"
    /\ IF access[requests[r].user] = requests[r].role
       THEN GoTo(r, "admitted")
       ELSE Finish(r)
    /\ UNCHANGED <<clock, access, rows>>

\* The handler runs and answers; or any statement before it fails.
Answer(r) ==
    /\ requests[r] # Idle
    /\ Finish(r)
    /\ UNCHANGED <<clock, access, rows>>

LogOut(s) ==
    /\ rows[s] # NoRow
    /\ Delete(s)
    /\ UNCHANGED <<clock, access, requests>>

-----------------------------------------------------------------------------
(* The world.                                                              *)

Tick ==
    /\ clock < LastTime
    /\ clock' = clock + 1
    /\ UNCHANGED <<access, rows, requests>>

\* A user is demoted, revoked, removed or let in again.
ChangeAccess(u, role) ==
    /\ access' = [access EXCEPT ![u] = role]
    /\ requests' = [r \in Requests |->
         LET q == requests[r] IN
         IF q.user = u /\ q.session # NoSession /\ rows[q.session].role = role
         THEN [q EXCEPT !.unwelcome = FALSE]
         ELSE q]
    /\ UNCHANGED <<clock, rows>>

Init ==
    /\ clock = 0
    /\ access \in [Users -> Roles \cup {"none"}]
    /\ rows = [s \in Sessions |-> NoRow]
    /\ requests = [r \in Requests |-> Idle]

Handle(r) ==
    \/ Resolve(r)
    \/ ReadRow(r)
    \/ Judge(r)
    \/ DeleteExpired(r)
    \/ Renew(r)
    \/ AskWhitelist(r)
    \/ Answer(r)

Next ==
    \/ \E r \in Requests, u \in Users : SignIn(r, u)
    \/ \E r \in Requests, s \in Sessions : Start(r, s) \/ Arrive(r, s)
    \/ \E r \in Requests : Handle(r)
    \/ \E s \in Sessions : LogOut(s)
    \/ \E u \in Users, role \in Roles \cup {"none"} : ChangeAccess(u, role)
    \/ Tick

Spec == Init /\ [][Next]_vars

-----------------------------------------------------------------------------
(* Properties.                                                             *)

\* Every variable holds what the program can store; above all, no session is
\* stored for somebody the whitelist does not know (the check on
\* app_sessions.role, migration 20260927120000_app_sessions).
TypeOK ==
    /\ clock \in Nat
    /\ access \in [Users -> Roles \cup {"none"}]
    /\ rows \in [Sessions -> Rows \cup {NoRow}]
    /\ requests \in [Requests -> RequestStates \cup {Idle}]

\* A request that comes after its session was logged out, discarded or used up
\* is refused, whatever other requests of that session are still under way:
\* logout "revokes the server record" (session.service.ts), and a renewal that
\* was already decided must not bring it back.
EndedSessionsAreRefused ==
    \A r \in Requests : requests[r].phase = "admitted" => ~requests[r].ended

\* A request that comes after its user lost the role of the session is refused,
\* unless the role is given back meanwhile: "the whitelist is asked again
\* rather than trusting the role recorded at sign-in" (dev-creator.guard.ts),
\* and the same in admin.guard.ts.
RevokedUsersAreRefused ==
    \A r \in Requests : requests[r].phase = "admitted" => ~requests[r].unwelcome

\* Activity never carries a session past the end that was fixed at sign-in.
NoSessionOutlivesItsCap ==
    \A s \in Sessions : rows[s].idle <= rows[s].absolute

\* A session somebody uses is neither shortened nor deleted: "Activity renews
\* idle timeout, never beyond absolute cap" (.env.example).
ActivityRenews ==
    [][\A s \in Sessions :
         rows[s].state = "live" =>
            /\ rows'[s].idle >= rows[s].idle
            /\ rows'[s].state = "gone" => LogOut(s) \/ rows[s].idle <= clock]_vars

-----------------------------------------------------------------------------
(* What the steps above rely on, for the proofs.                           *)

\* A request under way carries what its session's row holds for good.
RequestsKnowTheirSession ==
    \A r \in Requests :
        LET q == requests[r] IN
        /\ q.phase \in UsePhases =>
             /\ q.session \in Sessions
             /\ rows[q.session] # NoRow
             /\ q.user = rows[q.session].user
        /\ q.phase \in UsePhases \ {"arrived"} =>
             /\ q.role = rows[q.session].role
             /\ q.absolute = rows[q.session].absolute
        /\ q.phase \in SignInPhases =>
             q.session = NoSession /\ ~q.ended /\ ~q.unwelcome
        /\ q.phase = "resolved" => q.role \in Roles
        /\ q.phase \in {"resolved", "renewing"} => q.idle <= q.absolute

\* What was true of its session when a request arrived stays true, and the
\* request is stopped by it on its way.
EndedRequestsAreStopped ==
    \A r \in Requests :
        LET q == requests[r] IN
        q.phase \in UsePhases /\ q.ended =>
            /\ IsOver(q.session)
            /\ q.phase \in {"arrived", "read", "expired"}
            /\ q.phase = "read" => q.absolute <= clock

UnwelcomeRequestsAreStopped ==
    \A r \in Requests :
        LET q == requests[r] IN
        q.phase \in UsePhases /\ q.unwelcome =>
            /\ access[q.user] # rows[q.session].role
            /\ q.phase # "admitted"

SessionInv ==
    /\ TypeOK
    /\ NoSessionOutlivesItsCap
    /\ RequestsKnowTheirSession
    /\ EndedRequestsAreStopped
    /\ UnwelcomeRequestsAreStopped
=============================================================================
