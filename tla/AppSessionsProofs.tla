------------------------- MODULE AppSessionsProofs -------------------------
(***************************************************************************)
(* Proofs about AppSessions, for any sessions, users, slots and timeouts.  *)
(* SessionInv is inductive: the properties say what an admitted request is *)
(* not, and what keeps it from being so has to hold on its whole way.      *)
(***************************************************************************)
EXTENDS AppSessions, TLAPS

USE AppSessionsAssumption

LEMMA InitInv == Init => SessionInv
    BY DEF Init, SessionInv, TypeOK, NoSessionOutlivesItsCap, NoRow, Idle,
           RequestsKnowTheirSession, EndedRequestsAreStopped,
           UnwelcomeRequestsAreStopped, UsePhases, SignInPhases

-----------------------------------------------------------------------------
(* One request at a time.                                                  *)

Known(r) ==
    LET q == requests[r] IN
    /\ q.phase \in UsePhases =>
         /\ q.session \in Sessions
         /\ rows[q.session] # NoRow
         /\ q.user = rows[q.session].user
    /\ q.phase \in UsePhases \ {"arrived"} =>
         /\ q.role = rows[q.session].role
         /\ q.absolute = rows[q.session].absolute
    /\ q.phase \in SignInPhases => q.session = NoSession /\ ~q.ended /\ ~q.unwelcome
    /\ q.phase = "resolved" => q.role \in Roles
    /\ q.phase \in {"resolved", "renewing"} => q.idle <= q.absolute

Stopped(r) ==
    LET q == requests[r] IN
    /\ q.phase \in UsePhases /\ q.ended =>
         /\ IsOver(q.session)
         /\ q.phase \in {"arrived", "read", "expired"}
         /\ q.phase = "read" => q.absolute <= clock
    /\ q.phase \in UsePhases /\ q.unwelcome =>
         /\ access[q.user] # rows[q.session].role
         /\ q.phase # "admitted"

Sound(r) == requests[r] \in RequestStates \cup {Idle} /\ Known(r) /\ Stopped(r)

RowsOK ==
    /\ clock \in Nat
    /\ access \in [Users -> Roles \cup {"none"}]
    /\ rows \in [Sessions -> Rows \cup {NoRow}]
    /\ NoSessionOutlivesItsCap

RequestsOK == DOMAIN requests = Requests /\ requests = [r \in Requests |-> requests[r]]

LEMMA InvBySlot ==
    SessionInv <=> RowsOK /\ RequestsOK /\ \A r \in Requests : Sound(r)
    BY DEF SessionInv, TypeOK, RowsOK, RequestsOK, Sound, Known, Stopped,
           RequestsKnowTheirSession, EndedRequestsAreStopped,
           UnwelcomeRequestsAreStopped

LEMMA InvBySlotNext ==
    (RowsOK /\ RequestsOK /\ \A r \in Requests : Sound(r))' => SessionInv'
    BY DEF SessionInv, TypeOK, RowsOK, RequestsOK, Sound, Known, Stopped,
           RequestsKnowTheirSession, EndedRequestsAreStopped,
           UnwelcomeRequestsAreStopped

\* A row keeps its user, its role and its end, and is never stored again.
RowsStay ==
    \A s \in Sessions : rows[s] # NoRow =>
        /\ rows'[s] # NoRow
        /\ rows'[s].user = rows[s].user
        /\ rows'[s].role = rows[s].role
        /\ rows'[s].absolute = rows[s].absolute
        /\ rows[s].state = "gone" => rows'[s].state = "gone"

LEMMA OthersStaySound ==
    ASSUME RowsOK, RowsStay, clock' \in Nat, clock <= clock', access' = access,
           NEW r \in Requests, Sound(r), requests'[r] = requests[r]
    PROVE  Sound(r)'
    <1>1. Known(r)'
      BY DEF Sound, Known, RowsStay
    <1>2. CASE requests[r].phase \notin UsePhases
      BY <1>1, <1>2 DEF Sound, Stopped
    <1>3. CASE requests[r].phase \in UsePhases
      <2>1. requests[r].session \in Sessions /\ rows[requests[r].session] \in Rows
        BY <1>3 DEF Sound, Known, RowsOK
      <2>2. IsOver(requests[r].session) => IsOver(requests[r].session)'
        BY <1>3, <2>1 DEF IsOver, RowsStay, Sound, Known, RowsOK, Rows
      <2>3. requests[r].absolute <= clock /\ requests[r].phase = "read"
              => requests[r].absolute <= clock'
        BY <1>3, <2>1 DEF Sound, Known, RowsOK, Rows, UsePhases
      <2>4. Stopped(r)'
        BY <1>3, <2>1, <2>2, <2>3 DEF Sound, Stopped, Known, RowsStay
      <2>. QED  BY <1>1, <2>4 DEF Sound
    <1>. QED  BY <1>2, <1>3

LEMMA IdleIsSound == \A r \in Requests : requests[r] = Idle => Sound(r)
    BY DEF Idle, Sound, Known, Stopped, UsePhases, SignInPhases

\* A step of slot r that leaves the clock and the whitelist alone.
LEMMA SlotStep ==
    ASSUME SessionInv, NEW r \in Requests, NEW q,
           requests' = [requests EXCEPT ![r] = q],
           RowsOK', RowsStay, UNCHANGED <<clock, access>>, Sound(r)'
    PROVE  SessionInv'
    <1>1. RowsOK /\ RequestsOK /\ \A x \in Requests : Sound(x)
      BY InvBySlot
    <1>2. \A x \in Requests \ {r} : requests'[x] = requests[x]
      BY <1>1 DEF RequestsOK
    <1>3. \A x \in Requests \ {r} : Sound(x)'
      BY <1>1, <1>2, OthersStaySound DEF RowsOK
    <1>4. RequestsOK'
      BY <1>1 DEF RequestsOK
    <1>5. (RowsOK /\ RequestsOK /\ \A x \in Requests : Sound(x))'
      BY <1>3, <1>4
    <1>. QED  BY <1>5, InvBySlotNext

\* A slot that becomes idle, whatever was deleted on the way.
LEMMA FinishStep ==
    ASSUME SessionInv, NEW r \in Requests, Finish(r),
           RowsOK', RowsStay, UNCHANGED <<clock, access>>
    PROVE  SessionInv'
    <1>1. requests'[r] = Idle
      BY InvBySlot DEF Finish, RequestsOK
    <1>2. Sound(r)'
      BY <1>1 DEF Idle, Sound, Known, Stopped, UsePhases, SignInPhases
    <1>. QED  BY <1>2, SlotStep DEF Finish

LEMMA SameRows ==
    ASSUME SessionInv, UNCHANGED <<clock, access, rows>>
    PROVE  RowsOK' /\ RowsStay
    BY InvBySlot DEF RowsOK, RowsStay, NoSessionOutlivesItsCap

LEMMA DeletedRows ==
    ASSUME SessionInv, NEW s \in Sessions, rows[s] # NoRow, Delete(s),
           UNCHANGED <<clock, access>>
    PROVE  RowsOK' /\ RowsStay
    <1>1. RowsOK
      BY InvBySlot
    <1>2. rows[s] \in Rows
      BY <1>1 DEF RowsOK
    <1>3. rows'[s] \in Rows /\ rows' \in [Sessions -> Rows \cup {NoRow}]
      BY <1>1, <1>2 DEF RowsOK, Delete, Rows
    <1>4. RowsStay
      BY <1>1, <1>2 DEF RowsOK, RowsStay, Delete, Rows, NoRow
    <1>5. NoSessionOutlivesItsCap'
      BY <1>1, <1>2 DEF RowsOK, NoSessionOutlivesItsCap, Delete, Rows
    <1>. QED  BY <1>1, <1>3, <1>4, <1>5 DEF RowsOK

-----------------------------------------------------------------------------
(* The steps of a sign-in.                                                 *)

\* A slot in flight holds a request.
LEMMA SlotType ==
    ASSUME SessionInv, NEW r \in Requests
    PROVE  /\ Sound(r) /\ RowsOK /\ RequestsOK
           /\ requests[r].phase # "idle" => requests[r] \in RequestStates
    BY InvBySlot DEF Sound, Idle

LEMMA SignInStep ==
    ASSUME SessionInv, NEW r \in Requests, NEW u \in Users, SignIn(r, u)
    PROVE  SessionInv'
    <1>1. RowsOK' /\ RowsStay
      BY SameRows DEF SignIn
    <1>2. PICK q : q = [Idle EXCEPT !.phase = "identified", !.user = u]
      OBVIOUS
    <1>3. requests' = [requests EXCEPT ![r] = q] /\ UNCHANGED <<clock, access>>
      BY <1>2 DEF SignIn
    <1>4. requests'[r] = q
      BY <1>3, SlotType DEF RequestsOK
    <1>5. q \in RequestStates /\ q.phase = "identified" /\ q.session = NoSession
            /\ q.ended = FALSE /\ q.unwelcome = FALSE
      BY <1>2 DEF Idle, RequestStates, SignInPhases
    <1>6. Sound(r)'
      BY <1>4, <1>5 DEF Sound, Known, Stopped, UsePhases, SignInPhases
    <1>. QED  BY <1>1, <1>3, <1>6, SlotStep

LEMMA ResolveStep ==
    ASSUME SessionInv, NEW r \in Requests, Resolve(r)
    PROVE  SessionInv'
    <1>1. RowsOK' /\ RowsStay /\ UNCHANGED <<clock, access>>
      BY SameRows DEF Resolve
    <1>2. CASE access[requests[r].user] = "none"
      BY <1>1, <1>2, FinishStep DEF Resolve
    <1>3. CASE access[requests[r].user] # "none"
      <2>1. PICK q : q = [requests[r] EXCEPT
                !.phase = "resolved", !.role = access[requests[r].user],
                !.idle = clock + IdleTimeout, !.absolute = clock + AbsoluteLifetime]
        OBVIOUS
      <2>2. requests[r].phase = "identified" /\ requests[r] \in RequestStates
              /\ Sound(r) /\ RowsOK /\ RequestsOK
        BY SlotType DEF Resolve
      <2>3. requests' = [requests EXCEPT ![r] = q]
        BY <1>3, <2>1, <2>2 DEF Resolve, RequestsOK, RequestStates
      <2>4. requests'[r] = q
        BY <2>2, <2>3 DEF RequestsOK
      <2>5. access[requests[r].user] \in Roles
        BY <1>3, <2>2 DEF RowsOK, RequestStates
      <2>a. PICK i \in Nat, a \in Nat, role \in Roles :
              /\ i = clock + IdleTimeout /\ a = clock + AbsoluteLifetime
              /\ role = access[requests[r].user] /\ i <= a
        BY <2>2, <2>5 DEF RowsOK
      <2>b. q = [requests[r] EXCEPT !.phase = "resolved", !.role = role,
                                    !.idle = i, !.absolute = a]
        BY <2>1, <2>a
      <2>6. /\ q \in RequestStates /\ q.phase = "resolved" /\ q.role = role
            /\ q.session = requests[r].session /\ q.ended = requests[r].ended
            /\ q.unwelcome = requests[r].unwelcome /\ q.idle = i /\ q.absolute = a
        BY <2>2, <2>b DEF RequestStates, SignInPhases
      <2>7. q.session = NoSession /\ ~q.ended /\ ~q.unwelcome /\ q.idle <= q.absolute
        BY <2>2, <2>a, <2>6 DEF Sound, Known, SignInPhases
      <2>8. Sound(r)'
        BY <2>4, <2>6, <2>7 DEF Sound, Known, Stopped, UsePhases, SignInPhases
      <2>. QED  BY <1>1, <2>3, <2>8, SlotStep
    <1>. QED  BY <1>2, <1>3

LEMMA StartStep ==
    ASSUME SessionInv, NEW r \in Requests, NEW s \in Sessions, Start(r, s)
    PROVE  SessionInv'
    <1>1. requests[r].phase = "resolved" /\ requests[r] \in RequestStates
            /\ Sound(r) /\ RowsOK
      BY SlotType DEF Start
    <1>2. PICK row : row = [state |-> "live", user |-> requests[r].user,
                            role |-> requests[r].role, idle |-> requests[r].idle,
                            absolute |-> requests[r].absolute]
      OBVIOUS
    <1>3. row \in Rows /\ row.idle <= row.absolute
      BY <1>1, <1>2 DEF Sound, Known, RequestStates, Rows
    <1>4. rows' = [rows EXCEPT ![s] = row] /\ rows[s] = NoRow
      BY <1>2 DEF Start
    <1>5. RowsOK' /\ RowsStay
      BY <1>1, <1>3, <1>4 DEF RowsOK, RowsStay, NoSessionOutlivesItsCap, Start
    <1>. QED  BY <1>5, FinishStep DEF Start

-----------------------------------------------------------------------------
(* The steps of a guarded request.                                         *)

LEMMA ArriveStep ==
    ASSUME SessionInv, NEW r \in Requests, NEW s \in Sessions, Arrive(r, s)
    PROVE  SessionInv'
    <1>1. RowsOK' /\ RowsStay /\ RowsOK /\ RequestsOK
      BY SameRows, SlotType DEF Arrive
    <1>2. PICK e \in BOOLEAN : e = IsOver(s)
      BY DEF IsOver
    <1>3. PICK w \in BOOLEAN : w = (access[rows[s].user] # rows[s].role)
      OBVIOUS
    <1>4. PICK q : q = [Idle EXCEPT !.phase = "arrived", !.session = s,
                          !.user = rows[s].user, !.ended = e, !.unwelcome = w]
      OBVIOUS
    <1>5. requests' = [requests EXCEPT ![r] = q] /\ UNCHANGED <<clock, access, rows>>
      BY <1>2, <1>3, <1>4 DEF Arrive
    <1>6. requests'[r] = q
      BY <1>1, <1>5 DEF RequestsOK
    <1>7. rows[s] \in Rows /\ rows[s] # NoRow
      BY <1>1 DEF RowsOK, Arrive
    <1>8. /\ q \in RequestStates /\ q.phase = "arrived" /\ q.session = s
          /\ q.user = rows[s].user /\ q.ended = e /\ q.unwelcome = w
      BY <1>4, <1>7 DEF Idle, RequestStates, UsePhases, Rows
    <1>9. Known(r)'
      BY <1>5, <1>6, <1>7, <1>8 DEF Known, UsePhases, SignInPhases
    <1>10. Stopped(r)'
      BY <1>2, <1>3, <1>5, <1>6, <1>8 DEF Stopped, IsOver
    <1>. QED  BY <1>1, <1>5, <1>6, <1>8, <1>9, <1>10, SlotStep DEF Sound

\* What a request on its way knows of its session.
LEMMA UseFacts ==
    ASSUME SessionInv, NEW r \in Requests, requests[r].phase \in UsePhases
    PROVE  /\ requests[r] \in RequestStates /\ Known(r) /\ Stopped(r)
           /\ requests[r].session \in Sessions
           /\ rows[requests[r].session] \in Rows
           /\ rows[requests[r].session] # NoRow
    BY SlotType DEF Sound, Known, RowsOK, UsePhases

LEMMA ReadRowStep ==
    ASSUME SessionInv, NEW r \in Requests, ReadRow(r)
    PROVE  SessionInv'
    <1>1. RowsOK' /\ RowsStay /\ RequestsOK /\ UNCHANGED <<clock, access, rows>>
      BY SameRows, SlotType DEF ReadRow
    <1>2. PICK row : row = rows[requests[r].session]
      OBVIOUS
    <1>3. CASE row.state # "live"
      BY <1>1, <1>2, <1>3, FinishStep DEF ReadRow
    <1>4. CASE row.state = "live"
      <2>1. PICK q : q = [requests[r] EXCEPT !.phase = "read", !.role = row.role,
                            !.idle = row.idle, !.absolute = row.absolute]
        OBVIOUS
      <2>2. /\ requests[r].phase = "arrived" /\ requests[r] \in RequestStates
            /\ Known(r) /\ Stopped(r) /\ requests[r].session \in Sessions
            /\ row \in Rows /\ row # NoRow
        BY <1>2, UseFacts DEF ReadRow, UsePhases
      <2>3. requests' = [requests EXCEPT ![r] = q] /\ requests'[r] = q
        BY <1>1, <1>2, <1>4, <2>1, <2>2 DEF ReadRow, RequestsOK, RequestStates
      <2>4. /\ q \in RequestStates /\ q.phase = "read" /\ q.role = row.role
            /\ q.session = requests[r].session /\ q.user = requests[r].user
            /\ q.ended = requests[r].ended /\ q.unwelcome = requests[r].unwelcome
            /\ q.absolute = row.absolute
        BY <2>1, <2>2 DEF RequestStates, UsePhases, Rows
      <2>5. Known(r)'
        BY <1>1, <1>2, <2>2, <2>3, <2>4 DEF Known, UsePhases, SignInPhases
      <2>6. Stopped(r)'
        BY <1>1, <1>2, <1>4, <2>2, <2>3, <2>4 DEF Stopped, IsOver, UsePhases, Rows
      <2>. QED  BY <1>1, <2>3, <2>4, <2>5, <2>6, SlotStep DEF Sound
    <1>. QED  BY <1>3, <1>4

Goes(r, p, i) == requests' = [requests EXCEPT ![r].phase = p, ![r].idle = i]

\* A request that goes on to another phase of its way.
LEMMA PhaseStep ==
    ASSUME SessionInv, NEW r \in Requests, NEW p, NEW i \in Nat,
           requests[r].phase \in UsePhases, p \in UsePhases \ {"arrived", "read"},
           requests[r].phase # "arrived",
           Goes(r, p, i),
           p = "renewing" => i <= requests[r].absolute,
           p # "expired" => ~requests[r].ended,
           p = "admitted" => ~requests[r].unwelcome,
           RowsOK', RowsStay, UNCHANGED <<clock, access>>
    PROVE  SessionInv'
    <1>1. PICK q : q = [requests[r] EXCEPT !.phase = p, !.idle = i]
      OBVIOUS
    <1>2. /\ requests[r] \in RequestStates /\ Known(r) /\ Stopped(r)
          /\ requests[r].session \in Sessions
          /\ rows[requests[r].session] \in Rows
          /\ rows[requests[r].session] # NoRow /\ RequestsOK
      BY UseFacts, SlotType
    <1>3. requests' = [requests EXCEPT ![r] = q] /\ requests'[r] = q
      BY <1>1, <1>2 DEF Goes, RequestsOK, RequestStates
    <1>4. /\ q \in RequestStates /\ q.phase = p /\ q.role = requests[r].role
          /\ q.session = requests[r].session /\ q.user = requests[r].user
          /\ q.ended = requests[r].ended /\ q.unwelcome = requests[r].unwelcome
          /\ q.idle = i /\ q.absolute = requests[r].absolute
      BY <1>1, <1>2 DEF RequestStates, UsePhases
    <1>5. Known(r)'
      BY <1>2, <1>3, <1>4 DEF Known, UsePhases, SignInPhases, RowsStay
    <1>6. PICK s : s = requests[r].session
      OBVIOUS
    <1>7. IsOver(s) => IsOver(s)'
      BY <1>2, <1>6 DEF IsOver, RowsStay
    <1>8. Stopped(r)'
      BY <1>2, <1>3, <1>4, <1>6, <1>7 DEF Stopped, UsePhases, RowsStay
    <1>. QED  BY <1>3, <1>4, <1>5, <1>8, SlotStep DEF Sound

\* GoTo keeps the time a request carries.
LEMMA GoToKeeps ==
    ASSUME SessionInv, NEW r \in Requests, NEW p, GoTo(r, p),
           requests[r].phase # "idle"
    PROVE  /\ requests[r].idle \in Nat
           /\ Goes(r, p, requests[r].idle)
    BY SlotType DEF GoTo, Goes, RequestStates, RequestsOK

LEMMA JudgeStep ==
    ASSUME SessionInv, NEW r \in Requests, Judge(r)
    PROVE  SessionInv'
    <1>1. RowsOK /\ RowsOK' /\ RowsStay /\ UNCHANGED <<clock, access, rows>>
      BY SameRows, SlotType DEF Judge
    <1>2. /\ requests[r].phase = "read" /\ requests[r] \in RequestStates
          /\ Known(r) /\ Stopped(r)
      BY UseFacts DEF Judge, UsePhases
    <1>3. CASE requests[r].idle <= clock \/ requests[r].absolute <= clock
      <2>1. GoTo(r, "expired")
        BY <1>3 DEF Judge
      <2>2. PICK i \in Nat : Goes(r, "expired", i)
        BY <1>2, <2>1, GoToKeeps
      <2>. QED  BY <1>1, <1>2, <2>2, PhaseStep DEF UsePhases
    <1>4. CASE ~(requests[r].idle <= clock \/ requests[r].absolute <= clock)
      <2>1. PICK i \in Nat : /\ i = Earlier(clock + IdleTimeout, requests[r].absolute)
                             /\ i <= requests[r].absolute
        BY <1>1, <1>2 DEF Earlier, RowsOK, RequestStates
      <2>2. Goes(r, "renewing", i)
        BY <1>4, <2>1 DEF Judge, Goes
      <2>3. ~requests[r].ended
        BY <1>1, <1>2, <1>4 DEF Stopped, UsePhases
      <2>. QED  BY <1>1, <1>2, <2>1, <2>2, <2>3, PhaseStep DEF UsePhases
    <1>. QED  BY <1>3, <1>4

LEMMA DeleteExpiredStep ==
    ASSUME SessionInv, NEW r \in Requests, DeleteExpired(r)
    PROVE  SessionInv'
    BY UseFacts, DeletedRows, FinishStep DEF DeleteExpired, UsePhases

LEMMA RenewStep ==
    ASSUME SessionInv, NEW r \in Requests, Renew(r)
    PROVE  SessionInv'
    <1>0. PICK s : s = requests[r].session
      OBVIOUS
    <1>1. /\ requests[r].phase = "renewing" /\ requests[r] \in RequestStates
          /\ Known(r) /\ Stopped(r) /\ RowsOK
          /\ s \in Sessions /\ rows[s] \in Rows /\ rows[s] # NoRow
      BY <1>0, UseFacts, SlotType DEF Renew, UsePhases
    <1>2. CASE rows[s].state # "live"
      BY <1>0, <1>2, SameRows, FinishStep DEF Renew
    <1>3. CASE rows[s].state = "live"
      <2>1. PICK row : row = [rows[s] EXCEPT !.idle = requests[r].idle]
        OBVIOUS
      <2>2. /\ row \in Rows /\ row.state = "live" /\ row.user = rows[s].user
            /\ row.role = rows[s].role /\ row.absolute = rows[s].absolute
            /\ row.idle <= row.absolute
        BY <1>0, <1>1, <1>3, <2>1 DEF Rows, RequestStates, Known, UsePhases
      <2>3. rows' = [rows EXCEPT ![s] = row] /\ UNCHANGED <<clock, access>>
        BY <1>0, <1>1, <1>3, <2>1 DEF Renew, RowsOK
      <2>4. RowsOK' /\ RowsStay
        BY <1>1, <1>3, <2>2, <2>3
           DEF RowsOK, RowsStay, NoSessionOutlivesItsCap, NoRow
      <2>5. GoTo(r, "renewed") /\ ~requests[r].ended
        BY <1>0, <1>1, <1>3 DEF Renew, Stopped, UsePhases
      <2>6. PICK i \in Nat : Goes(r, "renewed", i)
        BY <1>1, <2>5, GoToKeeps
      <2>. QED  BY <1>1, <2>3, <2>4, <2>5, <2>6, PhaseStep DEF UsePhases
    <1>. QED  BY <1>2, <1>3

LEMMA AskWhitelistStep ==
    ASSUME SessionInv, NEW r \in Requests, AskWhitelist(r)
    PROVE  SessionInv'
    <1>1. RowsOK' /\ RowsStay /\ UNCHANGED <<clock, access, rows>>
      BY SameRows DEF AskWhitelist
    <1>2. requests[r].phase = "renewed" /\ Known(r) /\ Stopped(r)
      BY UseFacts DEF AskWhitelist, UsePhases
    <1>3. CASE access[requests[r].user] # requests[r].role
      BY <1>1, <1>3, FinishStep DEF AskWhitelist
    <1>4. CASE access[requests[r].user] = requests[r].role
      <2>1. ~requests[r].ended /\ ~requests[r].unwelcome
        BY <1>2, <1>4 DEF Known, Stopped, UsePhases
      <2>2. GoTo(r, "admitted")
        BY <1>4 DEF AskWhitelist
      <2>3. PICK i \in Nat : Goes(r, "admitted", i)
        BY <1>2, <2>2, GoToKeeps
      <2>. QED  BY <1>1, <1>2, <2>1, <2>3, PhaseStep DEF UsePhases
    <1>. QED  BY <1>3, <1>4

-----------------------------------------------------------------------------
(* The other steps, and the theorems.                                      *)

LEMMA LogOutStep ==
    ASSUME SessionInv, NEW s \in Sessions, LogOut(s)
    PROVE  SessionInv'
    <1>1. RowsOK' /\ RowsStay
      BY DeletedRows DEF LogOut
    <1>2. \A r \in Requests : Sound(r)'
      BY <1>1, SlotType, OthersStaySound DEF LogOut, RowsOK
    <1>3. RequestsOK'
      BY SlotType, InvBySlot DEF LogOut, RequestsOK
    <1>. QED  BY <1>1, <1>2, <1>3, InvBySlotNext

LEMMA TickStep ==
    ASSUME SessionInv, Tick
    PROVE  SessionInv'
    <1>0. RowsOK /\ RequestsOK /\ \A r \in Requests : Sound(r)
      BY InvBySlot
    <1>1. RowsOK' /\ RowsStay /\ clock <= clock' /\ RequestsOK'
      BY <1>0 DEF Tick, RowsOK, RowsStay, NoSessionOutlivesItsCap, RequestsOK
    <1>2. \A r \in Requests : Sound(r)'
      BY <1>0, <1>1, OthersStaySound DEF Tick, RowsOK
    <1>. QED  BY <1>1, <1>2, InvBySlotNext

LEMMA ChangeAccessStep ==
    ASSUME SessionInv, NEW u \in Users, NEW role \in Roles \cup {"none"},
           ChangeAccess(u, role)
    PROVE  SessionInv'
    <1>0. RowsOK /\ RequestsOK /\ \A r \in Requests : Sound(r)
      BY InvBySlot
    <1>1. RowsOK' /\ rows' = rows /\ clock' = clock
            /\ access' = [access EXCEPT ![u] = role]
      BY <1>0 DEF ChangeAccess, RowsOK, NoSessionOutlivesItsCap
    <1>2. RequestsOK'
      BY DEF ChangeAccess, RequestsOK
    <1>3. ASSUME NEW r \in Requests
          PROVE  Sound(r)'
      <2>0. Sound(r)
        BY <1>0
      <2>1. CASE requests[r].user = u /\ requests[r].session # NoSession
                   /\ rows[requests[r].session].role = role
        <3>1. requests'[r] = [requests[r] EXCEPT !.unwelcome = FALSE]
          BY <2>1 DEF ChangeAccess
        <3>2. requests[r] \in RequestStates
          BY <2>0, <2>1 DEF Sound, Idle
        <3>3. /\ requests'[r] \in RequestStates
              /\ requests'[r].phase = requests[r].phase
              /\ requests'[r].session = requests[r].session
              /\ requests'[r].user = requests[r].user
              /\ requests'[r].role = requests[r].role
              /\ requests'[r].idle = requests[r].idle
              /\ requests'[r].absolute = requests[r].absolute
              /\ requests'[r].ended = requests[r].ended
              /\ requests'[r].unwelcome = FALSE
          BY <3>1, <3>2 DEF RequestStates
        <3>. QED
          BY <1>1, <2>0, <2>1, <3>3 DEF Sound, Known, Stopped, IsOver
      <2>2. CASE ~(requests[r].user = u /\ requests[r].session # NoSession
                   /\ rows[requests[r].session].role = role)
        <3>1. requests'[r] = requests[r]
          BY <2>2 DEF ChangeAccess
        <3>2. requests[r].phase \in UsePhases =>
                /\ requests[r].session # NoSession /\ requests[r].user \in Users
          BY <2>0 DEF Sound, Known, RequestStates, Idle, UsePhases
        <3>3. Known(r)' /\ requests'[r] \in RequestStates \cup {Idle}
          BY <1>1, <2>0, <3>1 DEF Sound, Known
        <3>4. Stopped(r)'
          BY <1>0, <1>1, <2>0, <2>2, <3>1, <3>2 DEF Sound, Stopped, IsOver, RowsOK
        <3>. QED  BY <3>3, <3>4 DEF Sound
      <2>. QED  BY <2>1, <2>2
    <1>. QED  BY <1>1, <1>2, <1>3, InvBySlotNext

LEMMA NextInv == SessionInv /\ [Next]_vars => SessionInv'
    <1>. SUFFICES ASSUME SessionInv, [Next]_vars PROVE SessionInv'
      OBVIOUS
    <1>1. ASSUME NEW r \in Requests, Handle(r) PROVE SessionInv'
      <2>1. CASE Answer(r)
        BY <2>1, SameRows, FinishStep DEF Answer
      <2>. QED
        BY <1>1, <2>1, ResolveStep, ReadRowStep, JudgeStep, DeleteExpiredStep,
           RenewStep, AskWhitelistStep DEF Handle
    <1>2. CASE UNCHANGED vars
      BY <1>2 DEF vars, SessionInv, TypeOK, NoSessionOutlivesItsCap,
                  RequestsKnowTheirSession, EndedRequestsAreStopped,
                  UnwelcomeRequestsAreStopped, IsOver
    <1>. QED
      BY <1>1, <1>2, SignInStep, StartStep, ArriveStep, LogOutStep, TickStep,
         ChangeAccessStep DEF Next

\* The invariant holds, whatever requests, logouts and revocations come
\* between each other's statements.
THEOREM SessionInvariant == Spec => []SessionInv
    BY InitInv, NextInv, PTL DEF Spec

\* Rows and requests hold only what the program can store.
THEOREM TypeCorrect == Spec => []TypeOK
    <1>1. SessionInv => TypeOK
      BY DEF SessionInv
    <1>. QED  BY <1>1, SessionInvariant, PTL

\* A session that was logged out, discarded or used up admits no request that
\* comes after.
THEOREM EndedRefused == Spec => []EndedSessionsAreRefused
    <1>1. SessionInv => EndedSessionsAreRefused
      BY DEF SessionInv, EndedRequestsAreStopped, EndedSessionsAreRefused, UsePhases
    <1>. QED  BY <1>1, SessionInvariant, PTL

\* A user who lost the role of the session is refused from the next request on.
THEOREM RevokedRefused == Spec => []RevokedUsersAreRefused
    <1>1. SessionInv => RevokedUsersAreRefused
      BY DEF SessionInv, UnwelcomeRequestsAreStopped, RevokedUsersAreRefused, UsePhases
    <1>. QED  BY <1>1, SessionInvariant, PTL

\* No activity carries a session past its absolute end.
THEOREM CapKept == Spec => []NoSessionOutlivesItsCap
    <1>1. SessionInv => NoSessionOutlivesItsCap
      BY DEF SessionInv
    <1>. QED  BY <1>1, SessionInvariant, PTL
=============================================================================
