------------------------ MODULE CreatorAccessProofs ------------------------
(***************************************************************************)
(* Proofs about the whitelist's answers, for any users, contracts, days    *)
(* and requests.  The inductive invariant says of a request what its       *)
(* earlier reads still tell: that the revocation day it read is one the    *)
(* row held meanwhile, and that what it has witnessed already includes the *)
(* answer it will give, by that day.                                       *)
(*                                                                         *)
(* The second part is about the browser that signs in with the whitelist's *)
(* answer (BrowserSignIn), for any tabs, accounts, flows and sessions.     *)
(* What a tab has under way is kept next to the rows: no answer promises a *)
(* session nobody started, or a home that is not that session's, and the   *)
(* session of a sign-out that was answered is gone.  Rows only ever go on, *)
(* so what fits them keeps fitting.                                        *)
(***************************************************************************)
EXTENDS CreatorAccess, BrowserSignIn, TLAPS

OwesSomething(u, today) ==
    \E c \in BegunInvoices(u, today) : Unsettled(invoices[c], today)

RequestIsTyped(r) ==
    Open(r) =>
        /\ requests[r].phase \in Asking \cup {"admitted", "moving", "refused"}
        /\ requests[r].user \in Users
        /\ requests[r].truths \in SUBSET BOOLEAN
        /\ requests[r].held \in SUBSET (RevokeDays \cup {Never})

\* A request sees one midnight at most, and stamps its move in between.
RequestIsTimely(r) ==
    Open(r) =>
        /\ requests[r].since \in Int
        /\ requests[r].since <= Today
        /\ Today <= requests[r].since + 1
        /\ requests[r].phase = "moving" =>
             /\ requests[r].at \in Moments
             /\ requests[r].since <= JakartaDay(requests[r].at)

\* The day the row holds now is among those seen, and the access each of them
\* gives now has been witnessed.
RequestWitnesses(r) ==
    LET q == requests[r] IN
    q.phase \in Asking =>
        /\ revokeDay[q.user] \in q.held
        /\ \A day \in q.held :
             /\ HasAccessBy(q.user, day) => TRUE \in q.truths
             /\ ~HasAccessBy(q.user, day) => FALSE \in q.truths

RequestRemembers(r) ==
    requests[r].phase \in {"found", "revoked"} =>
        /\ Kind[requests[r].user] = "creator"
        /\ requests[r].day \in requests[r].held

\* Both answers the invoices can lead to have been witnessed, or still hold.
RevokedIsWitnessed(r) ==
    LET q == requests[r] IN
    q.phase = "revoked" =>
        /\ q.today \in Int /\ q.today <= Today
        /\ Revoked(q.day, q.today)
        /\ OwesSomething(q.user, q.today) => TRUE \in q.truths
        /\ ~OwesSomething(q.user, q.today) => FALSE \in q.truths

AnswerWasTrue(r) ==
    LET q == requests[r] IN
    /\ q.phase \in {"admitted", "moving"} => TRUE \in q.truths
    /\ q.phase = "refused" => FALSE \in q.truths

RequestIsGood(r) ==
    /\ RequestIsTyped(r)
    /\ RequestIsTimely(r)
    /\ RequestWitnesses(r)
    /\ RequestRemembers(r)
    /\ RevokedIsWitnessed(r)
    /\ AnswerWasTrue(r)

RowsAreTyped ==
    /\ now \in Moments
    /\ revokeDay \in [Users -> RevokeDays \cup {Never}]
    /\ invoices \in [Contracts -> InvoiceRows]

AccessInv ==
    /\ RowsAreTyped
    /\ DOMAIN requests = Requests
    /\ \A r \in Requests : RequestIsGood(r)

-----------------------------------------------------------------------------
(* Days and moves.                                                         *)

\* Days are whole numbers, and a later moment has no earlier day.
LEMMA DaysCount ==
    ASSUME NEW m \in Moments
    PROVE  /\ JakartaDay(m) \in Int
           /\ JakartaDay(m) <= JakartaDay(m + 1)
  BY AccessAssumption DEF JakartaDay, Moments

\* No move starts from a paid invoice, and only the creator's last one pays.
LEMMA MovesGoOn ==
    ASSUME NEW m \in Moves
    PROVE  /\ From[m] \in RowStatuses \ {"paid", "absent"}
           /\ To[m] \in RowStatuses \ {"absent"}
           /\ To[m] = "paid" => m \in CreatorMoves
  BY DEF Moves, From, To, RowStatuses, INVOICE_STATUSES, Commands, CreatorMoves

\* A move is made on an unpaid invoice, leaves the others alone, and dates the
\* payment with the moment it was given.
LEMMA MoveEffect ==
    ASSUME RowsAreTyped, NEW c \in Contracts, NEW m \in Moves, NEW at \in Moments,
           AssertCan(m, invoices[c].status), invoices' = Moved(c, m, at)
    PROVE  /\ invoices' \in [Contracts -> InvoiceRows]
           /\ invoices[c].status # "paid"
           /\ \A d \in Contracts : d # c => invoices'[d] = invoices[d]
           /\ invoices'[c].status = "paid" => m \in CreatorMoves /\ invoices'[c].paidAt = at
<1>1. invoices[c].status # "paid"
  BY MovesGoOn DEF AssertCan, StatusOf
<1>2. invoices[c].paidAt = -1
  BY <1>1 DEF RowsAreTyped, InvoiceRows
<1>3. invoices'[c] = [status |-> To[m], paidAt |-> IF To[m] = "paid" THEN at ELSE -1]
  BY <1>2 DEF Moved, RowsAreTyped
<1>4. invoices'[c] \in InvoiceRows
  BY <1>3, MovesGoOn DEF InvoiceRows
<1>5. \A d \in Contracts : d # c => invoices'[d] = invoices[d]
  BY DEF Moved, RowsAreTyped
<1>6. invoices' \in [Contracts -> InvoiceRows]
  BY <1>4, <1>5 DEF Moved, RowsAreTyped
<1> QED BY <1>1, <1>3, <1>5, <1>6, MovesGoOn

\* The rule agrees with what it is for, on the day it is asked.
LEMMA RuleIsRight ==
    ASSUME RowsAreTyped, NEW u \in Users, Kind[u] = "creator",
           NEW day \in RevokeDays \cup {Never}
    PROVE  /\ ~Revoked(day, Today) => HasAccessBy(u, day)
           /\ Revoked(day, Today) => (HasAccessBy(u, day) <=> OwesSomething(u, Today))
<1>1. Today \in Int
  BY DaysCount DEF Today, RowsAreTyped
<1>2. day = Never \/ day \in Int
  BY AccessAssumption
<1>3. ASSUME ~Revoked(day, Today)
      PROVE  HasAccessBy(u, day)
  <2>1. CASE day = Never
    BY <2>1 DEF HasAccessBy
  <2>2. CASE day # Never
    <3>1. Today <= day - 1
      BY <1>1, <1>2, <1>3, <2>2 DEF Revoked
    <3> QED BY <3>1 DEF HasAccessBy
  <2> QED BY <2>1, <2>2
<1>4. ASSUME Revoked(day, Today)
      PROVE  HasAccessBy(u, day) <=> OwesSomething(u, Today)
  <2>1. day # Never /\ ~(Today <= day - 1)
    BY <1>1, <1>2, <1>4 DEF Revoked
  <2>2. \A c \in BegunInvoices(u, Today) :
           JakartaDay(invoices[c].paidAt) >= Today <=> Today <= JakartaDay(invoices[c].paidAt)
    OBVIOUS
  <2>3. HasAccessBy(u, day)
          <=> \/ \E c \in BegunInvoices(u, Today) : invoices[c].status # "paid"
              \/ \E c \in BegunInvoices(u, Today) :
                   Today <= JakartaDay(invoices[c].paidAt)
    BY <2>1 DEF HasAccessBy, PaymentDays
  <2> QED BY <2>2, <2>3 DEF OwesSomething, Unsettled
<1> QED BY <1>3, <1>4

-----------------------------------------------------------------------------
(* The steps of a request.                                                 *)

rowVars == <<now, revokeDay, invoices>>

\* While the rows stay, so does what follows from them.
LEMMA RowsDecide ==
    ASSUME UNCHANGED rowVars
    PROVE  /\ Today' = Today
           /\ \A u, day : HasAccessBy(u, day)' <=> HasAccessBy(u, day)
           /\ \A u, day : OwesSomething(u, day)' <=> OwesSomething(u, day)
           /\ RowsAreTyped' <=> RowsAreTyped
  BY DEF rowVars, Today, JakartaDay, HasAccessBy, PaymentDays, BegunInvoices,
         OwesSomething, Unsettled, RowsAreTyped

\* A request that is left alone stays good.
LEMMA OthersStayGood ==
    ASSUME NEW p \in Requests, RequestIsGood(p),
           UNCHANGED rowVars, requests'[p] = requests[p]
    PROVE  RequestIsGood(p)'
<1>1. RequestIsTyped(p)' /\ AnswerWasTrue(p)'
  BY DEF RequestIsGood, RequestIsTyped, AnswerWasTrue, Open
<1>2. RequestIsTimely(p)'
  BY RowsDecide DEF RequestIsGood, RequestIsTimely, Open, JakartaDay
<1>3. RequestWitnesses(p)'
  <2>1. PICK u : u = requests[p].user
    OBVIOUS
  <2>2. \A day : HasAccessBy(u, day)' <=> HasAccessBy(u, day)
    BY RowsDecide
  <2> QED BY <2>1, <2>2 DEF RequestIsGood, RequestWitnesses, rowVars
<1>4. RequestRemembers(p)'
  BY DEF RequestIsGood, RequestRemembers
<1>5. RevokedIsWitnessed(p)'
  <2>1. PICK u, day : u = requests[p].user /\ day = requests[p].today
    OBVIOUS
  <2>2. OwesSomething(u, day)' <=> OwesSomething(u, day)
    BY RowsDecide
  <2> QED BY <2>1, <2>2, RowsDecide DEF RequestIsGood, RevokedIsWitnessed, Revoked
<1> QED BY <1>1, <1>2, <1>3, <1>4, <1>5 DEF RequestIsGood

\* A step of one request keeps the invariant if it leaves that request good.
LEMMA OneRequestSteps ==
    ASSUME AccessInv, UNCHANGED rowVars, NEW r \in Requests, NEW q,
           requests' = [requests EXCEPT ![r] = q], RequestIsGood(r)'
    PROVE  AccessInv'
<1>1. DOMAIN requests' = Requests
  BY DEF AccessInv
<1>2. \A p \in Requests : p # r => RequestIsGood(p)'
  <2> TAKE p \in Requests
  <2> HAVE p # r
  <2>1. requests'[p] = requests[p]
    BY DEF AccessInv
  <2> QED BY <2>1, OthersStayGood DEF AccessInv
<1> QED BY <1>1, <1>2, RowsDecide DEF AccessInv

\* A request that is over says nothing.
LEMMA IdleIsGood ==
    ASSUME NEW r \in Requests, requests[r] = Idle
    PROVE  RequestIsGood(r)
<1>1. requests[r].phase = "idle"
  BY DEF Idle
<1> QED BY <1>1 DEF RequestIsGood, RequestIsTyped, RequestIsTimely, RequestWitnesses,
            RequestRemembers, RevokedIsWitnessed, AnswerWasTrue, Open, Asking

\* The request comes.
LEMMA AskKeepsInv ==
    ASSUME AccessInv, NEW r \in Requests, NEW u \in Users, Ask(r, u)
    PROVE  AccessInv'
<1>1. PICK q : /\ requests' = [requests EXCEPT ![r] = q]
               /\ q = [phase |-> "asked", user |-> u, since |-> Today,
                       day |-> Never, today |-> Today, at |-> 0,
                       held |-> {revokeDay[u]}, truths |-> {HasAccess(u)}]
  BY DEF Ask
<1>2. UNCHANGED rowVars /\ requests'[r] = q
  BY <1>1 DEF Ask, rowVars, AccessInv
<1>3. Today \in Int
  BY DaysCount DEF AccessInv, RowsAreTyped, Today
<1> DEFINE truths == {HasAccess(u)}
<1> HIDE DEF truths
<1>8. /\ requests'[r].phase = "asked" /\ requests'[r].user = u
      /\ requests'[r].truths = truths /\ requests'[r].held = {revokeDay[u]}
      /\ requests'[r].since = Today
  BY <1>1, <1>2 DEF truths
<1>9. truths \in SUBSET BOOLEAN
  BY Zenon DEF truths, HasAccess, HasAccessBy
<1>4. RequestIsTyped(r)'
  <2>1. {revokeDay[u]} \in SUBSET (RevokeDays \cup {Never})
    BY DEF AccessInv, RowsAreTyped
  <2> QED BY <1>8, <1>9, <2>1 DEF RequestIsTyped, Asking
<1>5. RequestIsTimely(r)'
  BY <1>2, <1>3, <1>8, RowsDecide DEF RequestIsTimely
<1>6. RequestWitnesses(r)'
  <2>1. PICK day : day = revokeDay[u]
    OBVIOUS
  <2>2. HasAccessBy(u, day)' <=> HasAccessBy(u, day)
    BY <1>2, RowsDecide
  <2>3. /\ HasAccess(u) => TRUE \in {HasAccess(u)}
        /\ ~HasAccess(u) => FALSE \in {HasAccess(u)}
    BY Zenon DEF HasAccess, HasAccessBy
  <2>4. /\ HasAccessBy(u, day) => TRUE \in truths
        /\ ~HasAccessBy(u, day) => FALSE \in truths
    BY <2>1, <2>3 DEF truths, HasAccess
  <2>5. revokeDay'[u] = day /\ requests'[r].held = {day}
    BY <1>2, <1>8, <2>1 DEF rowVars
  <2> QED BY <1>8, <2>2, <2>4, <2>5 DEF RequestWitnesses
<1>7. RequestRemembers(r)' /\ RevokedIsWitnessed(r)' /\ AnswerWasTrue(r)'
  BY <1>8 DEF RequestRemembers, RevokedIsWitnessed, AnswerWasTrue
<1> QED BY <1>1, <1>2, <1>4, <1>5, <1>6, <1>7, OneRequestSteps DEF RequestIsGood

\* An answer that was witnessed is a good one.
LEMMA AnswerKeepsInv ==
    ASSUME AccessInv, UNCHANGED rowVars, NEW r \in Requests, Open(r),
           requests[r].phase \in Asking, NEW ok \in BOOLEAN,
           requests' = [requests EXCEPT ![r] = Answered(r, ok)],
           (ok => TRUE \in requests[r].truths) /\ (~ok => FALSE \in requests[r].truths)
    PROVE  AccessInv'
<1>1. /\ ok => requests'[r].phase = "admitted"
      /\ ~ok => requests'[r].phase = "refused"
      /\ requests'[r].user = requests[r].user
      /\ requests'[r].truths = requests[r].truths \cap {ok}
      /\ requests'[r].held = {}
      /\ requests'[r].since = requests[r].since
  BY DEF Answered, AccessInv
<1>2. RequestIsGood(r)
  BY DEF AccessInv
<1>3. RequestIsTyped(r)' /\ RequestIsTimely(r)' /\ AnswerWasTrue(r)'
  BY <1>1, <1>2, RowsDecide
     DEF RequestIsGood, RequestIsTyped, RequestIsTimely, AnswerWasTrue, Open, Asking
<1>4. RequestWitnesses(r)' /\ RequestRemembers(r)' /\ RevokedIsWitnessed(r)'
  BY <1>1 DEF RequestWitnesses, RequestRemembers, RevokedIsWitnessed, Asking
<1> QED BY <1>3, <1>4, OneRequestSteps DEF RequestIsGood

\* Whoever is no creator is answered at once, and rightly.
LEMMA ReadUserKeepsInv ==
    ASSUME AccessInv, NEW r \in Requests, ReadUser(r)
    PROVE  AccessInv'
<1> DEFINE q == requests[r]
<1>1. UNCHANGED rowVars /\ q.phase = "asked" /\ Open(r) /\ RequestIsGood(r)
  BY DEF ReadUser, rowVars, Open, AccessInv
<1>2. q.user \in Users
  BY <1>1 DEF RequestIsGood, RequestIsTyped
<1>3. CASE Kind[q.user] = "creator"
  <2>1. PICK p : /\ requests' = [requests EXCEPT ![r] = p]
                 /\ p = [q EXCEPT !.phase = "found", !.day = revokeDay[q.user]]
    BY <1>3 DEF ReadUser
  <2>2. /\ requests'[r].phase = "found" /\ requests'[r].user = q.user
        /\ requests'[r].truths = q.truths /\ requests'[r].held = q.held
        /\ requests'[r].since = q.since /\ requests'[r].day = revokeDay[q.user]
    BY <2>1 DEF AccessInv
  <2>3. RequestIsTyped(r)' /\ RequestIsTimely(r)' /\ RequestRemembers(r)'
    BY <1>1, <1>3, <2>2, RowsDecide
       DEF RequestIsGood, RequestIsTyped, RequestIsTimely, RequestRemembers,
           RequestWitnesses, Open, Asking, rowVars
  <2>4. RequestWitnesses(r)'
    <3>1. PICK u : u = q.user /\ \A day : HasAccessBy(u, day)' <=> HasAccessBy(u, day)
      BY <1>1, RowsDecide
    <3> QED BY <1>1, <2>2, <3>1 DEF RequestIsGood, RequestWitnesses, Asking, rowVars
  <2>5. RevokedIsWitnessed(r)' /\ AnswerWasTrue(r)'
    BY <2>2 DEF RevokedIsWitnessed, AnswerWasTrue
  <2> QED BY <1>1, <2>1, <2>3, <2>4, <2>5, OneRequestSteps DEF RequestIsGood
<1>4. CASE Kind[q.user] # "creator"
  <2>1. PICK ok \in BOOLEAN :
           /\ ok <=> Kind[q.user] = "admin"
           /\ requests' = [requests EXCEPT ![r] = Answered(r, ok)]
    <3>1. requests' = [requests EXCEPT ![r] = Answered(r, Kind[q.user] = "admin")]
      BY <1>4 DEF ReadUser
    <3> QED BY <3>1, Zenon
  <2>2. HasAccess(q.user) <=> Kind[q.user] = "admin"
    BY <1>4 DEF HasAccess, HasAccessBy
  <2>3. /\ Kind[q.user] = "admin" => TRUE \in q.truths
        /\ Kind[q.user] # "admin" => FALSE \in q.truths
    <3>1. PICK u, day : u = q.user /\ day = revokeDay[u]
      OBVIOUS
    <3>2. HasAccess(u) <=> HasAccessBy(u, day)
      BY <3>1 DEF HasAccess
    <3>3. /\ HasAccessBy(u, day) => TRUE \in q.truths
          /\ ~HasAccessBy(u, day) => FALSE \in q.truths
      BY <1>1, <3>1 DEF RequestIsGood, RequestWitnesses, Asking
    <3> QED BY <2>2, <3>1, <3>2, <3>3
  <2>4. q.phase \in Asking
    BY <1>1 DEF Asking
  <2> QED BY <1>1, <2>1, <2>3, <2>4, AnswerKeepsInv
<1> QED BY <1>3, <1>4

\* What is witnessed when the clock is read is what the invoices will tell.
LEMMA ReadClockKeepsInv ==
    ASSUME AccessInv, NEW r \in Requests, ReadClock(r)
    PROVE  AccessInv'
<1> DEFINE q == requests[r]
<1>1. UNCHANGED rowVars /\ q.phase = "found" /\ q.phase \in Asking /\ Open(r)
  BY DEF ReadClock, rowVars, Open, Asking
<1>2. RequestIsGood(r) /\ RowsAreTyped
  BY DEF AccessInv
<1>3. /\ q.user \in Users /\ Kind[q.user] = "creator"
      /\ q.day \in q.held /\ q.day \in RevokeDays \cup {Never}
  BY <1>1, <1>2 DEF RequestIsGood, RequestIsTyped, RequestRemembers
<1>4. /\ HasAccessBy(q.user, q.day) => TRUE \in q.truths
      /\ ~HasAccessBy(q.user, q.day) => FALSE \in q.truths
  BY <1>1, <1>2, <1>3 DEF RequestIsGood, RequestWitnesses
<1>5. /\ ~Revoked(q.day, Today) => HasAccessBy(q.user, q.day)
      /\ Revoked(q.day, Today) =>
            (HasAccessBy(q.user, q.day) <=> OwesSomething(q.user, Today))
  BY <1>2, <1>3, RuleIsRight
<1>6. CASE Revoked(q.day, Today)
  <2>1. PICK p : /\ requests' = [requests EXCEPT ![r] = p]
                 /\ p = [q EXCEPT !.phase = "revoked", !.today = Today]
    BY <1>6 DEF ReadClock
  <2>2. /\ requests'[r].phase = "revoked" /\ requests'[r].user = q.user
        /\ requests'[r].truths = q.truths /\ requests'[r].held = q.held
        /\ requests'[r].since = q.since /\ requests'[r].day = q.day
        /\ requests'[r].today = Today
    BY <2>1 DEF AccessInv
  <2>3. RequestIsTyped(r)' /\ RequestIsTimely(r)' /\ RequestRemembers(r)'
    BY <1>1, <1>2, <1>3, <2>2, RowsDecide
       DEF RequestIsGood, RequestIsTyped, RequestIsTimely, RequestRemembers,
           Open, Asking, rowVars
  <2>4. PICK u, today : /\ u = q.user /\ today = Today
                        /\ \A day : HasAccessBy(u, day)' <=> HasAccessBy(u, day)
                        /\ (OwesSomething(u, today)' <=> OwesSomething(u, today))
    BY <1>1, RowsDecide
  <2>5. RequestWitnesses(r)'
    BY <1>1, <1>2, <2>2, <2>4 DEF RequestIsGood, RequestWitnesses, rowVars
  <2>6. RevokedIsWitnessed(r)'
    <3>1. Today \in Int /\ Today' = Today
      BY <1>1, <1>2, DaysCount, RowsDecide DEF RowsAreTyped, Today
    <3>2. OwesSomething(u, today) <=> HasAccessBy(u, q.day)
      BY <1>5, <1>6, <2>4
    <3>3. /\ OwesSomething(u, today)' => TRUE \in q.truths
          /\ ~OwesSomething(u, today)' => FALSE \in q.truths
      BY <1>4, <2>4, <3>2
    <3>4. requests'[r].user = u /\ requests'[r].today = today /\ Today' = today
      BY <2>2, <2>4, <3>1
    <3>5. /\ requests'[r].today \in Int /\ requests'[r].today <= Today'
          /\ Revoked(requests'[r].day, requests'[r].today)
      BY <1>6, <2>2, <3>1 DEF Revoked
    <3> QED BY <2>2, <3>3, <3>4, <3>5 DEF RevokedIsWitnessed, Revoked
  <2>7. AnswerWasTrue(r)'
    BY <2>2 DEF AnswerWasTrue
  <2> QED BY <1>1, <2>1, <2>3, <2>5, <2>6, <2>7, OneRequestSteps DEF RequestIsGood
<1>7. CASE ~Revoked(q.day, Today)
  <2>1. requests' = [requests EXCEPT ![r] = Answered(r, TRUE)]
    BY <1>7 DEF ReadClock
  <2>2. TRUE \in q.truths
    BY <1>4, <1>5, <1>7
  <2> QED BY <1>1, <2>1, <2>2, AnswerKeepsInv
<1> QED BY <1>6, <1>7

\* What the invoices tell was witnessed.
LEMMA ReadInvoicesKeepsInv ==
    ASSUME AccessInv, NEW r \in Requests, ReadInvoices(r)
    PROVE  AccessInv'
<1> DEFINE q == requests[r]
<1>1. UNCHANGED rowVars /\ q.phase = "revoked" /\ q.phase \in Asking /\ Open(r)
  BY DEF ReadInvoices, rowVars, Open, Asking
<1>2. PICK ok \in BOOLEAN :
         /\ ok <=> CreatorMaySignIn(q.day, q.today, BegunInvoices(q.user, q.today))
         /\ requests' = [requests EXCEPT ![r] = Answered(r, ok)]
  <2>1. CreatorMaySignIn(q.day, q.today, BegunInvoices(q.user, q.today)) \in BOOLEAN
    BY Zenon DEF CreatorMaySignIn
  <2> QED BY <2>1, Zenon DEF ReadInvoices
<1>3. RevokedIsWitnessed(r)
  BY DEF AccessInv, RequestIsGood
<1>4. ok <=> OwesSomething(q.user, q.today)
  BY <1>1, <1>2, <1>3 DEF RevokedIsWitnessed, CreatorMaySignIn, OwesSomething
<1>5. (ok => TRUE \in q.truths) /\ (~ok => FALSE \in q.truths)
  BY <1>1, <1>3, <1>4 DEF RevokedIsWitnessed
<1> QED BY <1>1, <1>2, <1>5, AnswerKeepsInv

\* The handler's own steps.
LEMMA HandlingKeepsInv ==
    ASSUME AccessInv, NEW r \in Requests, StartMove(r) \/ Done(r)
    PROVE  AccessInv'
<1> DEFINE q == requests[r]
<1>1. UNCHANGED rowVars /\ Open(r)
  BY DEF StartMove, Done, Open, rowVars
<1>2. CASE StartMove(r)
  <2>1. PICK p : /\ requests' = [requests EXCEPT ![r] = p]
                 /\ p = [q EXCEPT !.phase = "moving", !.at = now]
    BY <1>2 DEF StartMove
  <2>2. /\ requests'[r].phase = "moving" /\ requests'[r].user = q.user
        /\ requests'[r].truths = q.truths /\ requests'[r].held = q.held
        /\ requests'[r].since = q.since /\ requests'[r].at = now
    BY <2>1 DEF AccessInv
  <2>3. RequestIsGood(r) /\ q.phase = "admitted" /\ now \in Moments /\ Today = JakartaDay(now)
    BY <1>2 DEF AccessInv, StartMove, RowsAreTyped, Today
  <2>4. RequestIsTyped(r)' /\ AnswerWasTrue(r)'
    BY <1>1, <2>2, <2>3
       DEF RequestIsGood, RequestIsTyped, AnswerWasTrue, Open
  <2>5. RequestIsTimely(r)'
    BY <1>1, <2>2, <2>3, RowsDecide DEF RequestIsGood, RequestIsTimely, JakartaDay
  <2>6. RequestWitnesses(r)' /\ RequestRemembers(r)' /\ RevokedIsWitnessed(r)'
    BY <2>2 DEF RequestWitnesses, RequestRemembers, RevokedIsWitnessed, Asking
  <2> QED BY <1>1, <2>1, <2>4, <2>5, <2>6, OneRequestSteps DEF RequestIsGood
<1>3. CASE Done(r)
  <2>1. requests' = [requests EXCEPT ![r] = Idle] /\ requests'[r] = Idle
    BY <1>3 DEF Done, AccessInv
  <2>2. requests'[r].phase = "idle"
    BY <2>1 DEF Idle
  <2>3. RequestIsGood(r)'
    BY <2>2 DEF RequestIsGood, RequestIsTyped, RequestIsTimely, RequestWitnesses,
                RequestRemembers, RevokedIsWitnessed, AnswerWasTrue, Open, Asking
  <2> QED BY <1>1, <2>1, <2>3, OneRequestSteps
<1> QED BY <1>2, <1>3

-----------------------------------------------------------------------------
(* The steps of the world.                                                 *)

\* What a request that is past asking, or idle, is after a step of the world.
LEMMA OthersAreLeft ==
    ASSUME NEW done, Witness(done), NEW r \in Requests
    PROVE  /\ r \in done => requests'[r] = Idle
           /\ r \notin done /\ requests[r].phase \notin Asking => requests'[r] = requests[r]
<1> DEFINE welcome == {p \in Users \X (RevokeDays \cup {Never}) : HasAccessBy(p[1], p[2])'}
<1>1. requests'[r] =
        CASE r \in done                                      -> Idle
          [] r \notin done /\ requests[r].phase \in Asking    -> Seen(requests[r], welcome)
          [] r \notin done /\ requests[r].phase \notin Asking -> requests[r]
  BY DEF Witness
<1> QED BY <1>1

\* What a request still asking has seen after a step of the world.
LEMMA WitnessEffect ==
    ASSUME NEW done, Witness(done), NEW r \in Requests, r \notin done,
           requests[r].phase \in Asking, NEW u \in Users, requests[r].user = u,
           requests[r].held \in SUBSET (RevokeDays \cup {Never}),
           revokeDay'[u] \in RevokeDays \cup {Never}
    PROVE  /\ requests'[r].phase = requests[r].phase
           /\ requests'[r].user = u
           /\ requests'[r].since = requests[r].since
           /\ requests'[r].day = requests[r].day
           /\ requests'[r].today = requests[r].today
           /\ requests'[r].at = requests[r].at
           /\ requests'[r].held = requests[r].held \cup {revokeDay'[u]}
           /\ requests[r].truths \subseteq requests'[r].truths
           /\ requests[r].truths \in SUBSET BOOLEAN =>
                 requests'[r].truths \in SUBSET BOOLEAN
           /\ RequestWitnesses(r)'
<1> DEFINE welcome == {p \in Users \X (RevokeDays \cup {Never}) : HasAccessBy(p[1], p[2])'}
           q == requests[r]
           held == q.held \cup {revokeDay'[u]}
           saw == {ok \in BOOLEAN : \E day \in held : ok <=> <<u, day>> \in welcome}
           truths == q.truths \cup saw
           next == [q EXCEPT !.held = held, !.truths = truths]
<1>1. requests'[r] = next
  <2>1. requests'[r] = Seen(requests[r], welcome)
    BY DEF Witness
  <2> QED BY <2>1 DEF Seen
<1>2. ASSUME NEW day \in held
      PROVE  <<u, day>> \in welcome <=> HasAccessBy(u, day)'
  <2>1. <<u, day>> \in Users \X (RevokeDays \cup {Never})
    OBVIOUS
  <2> QED BY <2>1
<1> HIDE DEF welcome
<1>3. /\ next.phase = q.phase /\ next.user = q.user /\ next.since = q.since
      /\ next.day = q.day /\ next.today = q.today /\ next.at = q.at
      /\ next.held = held /\ next.truths = truths
  <2> HIDE DEF held, truths
  <2> QED OBVIOUS
<1>4. saw \in SUBSET BOOLEAN
  OBVIOUS
<1>5. ASSUME NEW day \in held
      PROVE  /\ HasAccessBy(u, day)' => TRUE \in saw
             /\ ~HasAccessBy(u, day)' => FALSE \in saw
  <2> HIDE DEF held
  <2> QED BY <1>2
<1> HIDE DEF saw, next
<1>6. q.truths \in SUBSET BOOLEAN => truths \in SUBSET BOOLEAN
  BY <1>4
<1>7. RequestWitnesses(r)'
  <2>1. /\ requests'[r].user = u /\ requests'[r].held = held
        /\ saw \subseteq requests'[r].truths /\ revokeDay'[u] \in held
    BY <1>1, <1>3
  <2> HIDE DEF held
  <2> QED BY <1>5, <2>1 DEF RequestWitnesses
<1> QED BY <1>1, <1>3, <1>6, <1>7

\* A step of the world keeps the invariant if it lasts no second midnight, and
\* settles an invoice under a request that counts on it only if its user has no
\* access then, by the day that request read.
LEMMA WorldKeepsInv ==
    ASSUME AccessInv, NEW done, Witness(done), RowsAreTyped',
           Today <= Today',
           \A r \in Requests : Open(r) => Today' <= requests[r].since + 1,
           \A u \in Users, day \in Int : OwesSomething(u, day)' => OwesSomething(u, day),
           \A r \in Requests, u \in Users, day \in Int, read \in RevokeDays \cup {Never} :
              /\ requests[r].phase = "revoked"
              /\ u = requests[r].user /\ day = requests[r].today /\ read = requests[r].day
              /\ OwesSomething(u, day) /\ ~OwesSomething(u, day)'
              => ~HasAccessBy(u, read)'
    PROVE  AccessInv'
<1>1. DOMAIN requests' = Requests
  BY DEF Witness
<1>0. Today \in Int /\ Today' \in Int
  BY DaysCount DEF AccessInv, RowsAreTyped, Today
<1>2. ASSUME NEW r \in Requests
      PROVE  RequestIsGood(r)'
  <2> DEFINE q == requests[r]
  <2>0. RequestIsGood(r)
    BY DEF AccessInv
  <2>1. CASE r \in done
    <3>1. requests'[r].phase = "idle"
      BY <2>1, OthersAreLeft DEF Idle
    <3> QED BY <3>1 DEF RequestIsGood, RequestIsTyped, RequestIsTimely, RequestWitnesses,
                RequestRemembers, RevokedIsWitnessed, AnswerWasTrue, Open, Asking
  <2>2. CASE r \notin done /\ q.phase \notin Asking
    <3>1. requests'[r] = q
      BY <2>2, OthersAreLeft
    <3>2. RequestIsTyped(r)' /\ AnswerWasTrue(r)'
      BY <2>0, <3>1 DEF RequestIsGood, RequestIsTyped, AnswerWasTrue, Open
    <3>3. RequestIsTimely(r)'
      BY <1>0, <2>0, <3>1 DEF RequestIsGood, RequestIsTimely, Open, JakartaDay
    <3>4. RequestWitnesses(r)' /\ RequestRemembers(r)' /\ RevokedIsWitnessed(r)'
      BY <2>2, <3>1 DEF RequestWitnesses, RequestRemembers, RevokedIsWitnessed, Asking
    <3> QED BY <3>2, <3>3, <3>4 DEF RequestIsGood
  <2>3. CASE r \notin done /\ q.phase \in Asking
    <3>0. Open(r)
      BY <2>3 DEF Open, Asking
    <3>3. PICK u \in Users : u = q.user
      BY <2>0, <3>0 DEF RequestIsGood, RequestIsTyped
    <3>1. /\ requests'[r].phase = q.phase /\ requests'[r].user = u
          /\ requests'[r].since = q.since /\ requests'[r].day = q.day
          /\ requests'[r].today = q.today /\ requests'[r].at = q.at
          /\ requests'[r].held = q.held \cup {revokeDay'[u]}
          /\ q.truths \subseteq requests'[r].truths
          /\ requests'[r].truths \in SUBSET BOOLEAN
          /\ RequestWitnesses(r)'
      <4>1. /\ q.held \in SUBSET (RevokeDays \cup {Never})
            /\ q.truths \in SUBSET BOOLEAN
        BY <2>0, <3>0 DEF RequestIsGood, RequestIsTyped
      <4>2. revokeDay'[u] \in RevokeDays \cup {Never}
        BY DEF RowsAreTyped
      <4> QED BY <2>3, <3>3, <4>1, <4>2, WitnessEffect
    <3>2. q.held \in SUBSET (RevokeDays \cup {Never})
          /\ revokeDay'[u] \in RevokeDays \cup {Never}
      BY <2>0, <3>0 DEF RequestIsGood, RequestIsTyped, RowsAreTyped
    <3>4. RequestIsTyped(r)'
      BY <2>3, <3>1, <3>2 DEF RequestIsTyped, Asking
    <3>5. RequestIsTimely(r)'
      BY <1>0, <2>0, <2>3, <3>0, <3>1
         DEF RequestIsGood, RequestIsTimely, Open, JakartaDay, Asking
    <3>7. RequestRemembers(r)'
      BY <2>0, <3>1, <3>3 DEF RequestIsGood, RequestRemembers
    <3>8. RevokedIsWitnessed(r)'
      <4> SUFFICES ASSUME q.phase = "revoked"
                   PROVE  /\ q.today \in Int /\ q.today <= Today'
                          /\ Revoked(q.day, q.today)
                          /\ OwesSomething(u, q.today)' => TRUE \in requests'[r].truths
                          /\ ~OwesSomething(u, q.today)' => FALSE \in requests'[r].truths
        BY <3>1, <3>3 DEF RevokedIsWitnessed, Revoked
      <4>2. /\ q.today \in Int /\ q.today <= Today /\ Revoked(q.day, q.today)
            /\ OwesSomething(u, q.today) => TRUE \in q.truths
            /\ ~OwesSomething(u, q.today) => FALSE \in q.truths
        BY <2>0, <3>3 DEF RequestIsGood, RevokedIsWitnessed
      <4>3. q.today <= Today'
        BY <1>0, <4>2
      <4>4. OwesSomething(u, q.today)' => TRUE \in requests'[r].truths
        <5>1. PICK day \in Int : day = q.today
          BY <4>2
        <5>2. OwesSomething(u, day)' => OwesSomething(u, day)
          OBVIOUS
        <5>3. OwesSomething(u, day) => TRUE \in q.truths
          BY <4>2, <5>1
        <5> QED BY <3>1, <5>1, <5>2, <5>3
      <4>5. ~OwesSomething(u, q.today)' => FALSE \in requests'[r].truths
        <5>1. PICK day \in Int : day = q.today
          BY <4>2
        <5>2. SUFFICES ASSUME ~OwesSomething(u, day)'
                       PROVE  FALSE \in requests'[r].truths
          BY <3>1, <5>1
        <5>3. CASE ~OwesSomething(u, day)
          BY <3>1, <4>2, <5>1, <5>3
        <5>4. CASE OwesSomething(u, day)
          <6>1. PICK read \in RevokeDays \cup {Never} : read = q.day /\ read \in q.held
            BY <2>0, <3>2 DEF RequestIsGood, RequestRemembers
          <6>2. ~HasAccessBy(u, read)'
            BY <3>3, <5>1, <5>2, <5>4, <6>1
          <6> QED BY <2>3, <3>1, <6>1, <6>2 DEF RequestWitnesses
        <5> QED BY <5>3, <5>4
      <4> QED BY <4>2, <4>3, <4>4, <4>5
    <3>9. AnswerWasTrue(r)'
      BY <2>3, <3>1 DEF AnswerWasTrue, Asking
    <3> QED BY <3>1, <3>4, <3>5, <3>7, <3>8, <3>9 DEF RequestIsGood
  <2> QED BY <2>1, <2>2, <2>3
<1> QED BY <1>1, <1>2 DEF AccessInv

\* An admin's move leaves unsettled what was.
LEMMA AdminMoveKeepsInv ==
    ASSUME AccessInv, NEW c \in Contracts, NEW m \in Moves, AdminMove(c, m)
    PROVE  AccessInv'
<1>1. /\ m \notin CreatorMoves /\ AssertCan(m, invoices[c].status)
      /\ invoices' = Moved(c, m, now) /\ now' = now /\ revokeDay' = revokeDay
      /\ Witness({})
  BY DEF AdminMove
<1>2. RowsAreTyped /\ now \in Moments
  BY DEF AccessInv, RowsAreTyped
<1>3. /\ invoices' \in [Contracts -> InvoiceRows] /\ invoices[c].status # "paid"
      /\ \A d \in Contracts : d # c => invoices'[d] = invoices[d]
      /\ invoices'[c].status # "paid"
  BY <1>1, <1>2, MoveEffect
<1>4. Today' = Today /\ RowsAreTyped'
  BY <1>1, <1>2, <1>3 DEF Today, JakartaDay, RowsAreTyped
<1>5. Today \in Int
  BY <1>2, DaysCount DEF Today
<1>6. \A d \in Contracts : \A day : Unsettled(invoices[d], day)' <=> Unsettled(invoices[d], day)
  BY <1>3 DEF Unsettled, JakartaDay
<1>7. \A u \in Users : \A day : OwesSomething(u, day)' <=> OwesSomething(u, day)
  BY <1>6 DEF OwesSomething, BegunInvoices
<1>8. \A r \in Requests : Open(r) => Today' <= requests[r].since + 1
  BY <1>4 DEF AccessInv, RequestIsGood, RequestIsTimely
<1> QED BY <1>1, <1>4, <1>5, <1>7, <1>8, WorldKeepsInv

\* The creator's last move settles an invoice under a request that has read an
\* earlier day only when the day after the payment has come: that request has
\* then lost its access too.
LEMMA CreatorMoveKeepsInv ==
    ASSUME AccessInv, NEW p \in Requests, NEW c \in Contracts, NEW m \in Moves,
           CreatorMove(p, c, m)
    PROVE  AccessInv'
<1> DEFINE at == requests[p].at
<1>1. /\ AssertCan(m, invoices[c].status) /\ requests[p].phase = "moving" /\ Open(p)
      /\ Owner[c] = requests[p].user
      /\ invoices' = Moved(c, m, at) /\ now' = now /\ revokeDay' = revokeDay
      /\ Witness({p})
  BY DEF CreatorMove, Open
<1>2. RowsAreTyped /\ at \in Moments /\ requests[p].since <= JakartaDay(at)
      /\ Today <= requests[p].since + 1 /\ requests[p].since \in Int
  BY <1>1 DEF AccessInv, RequestIsGood, RequestIsTimely
<1>3. /\ invoices' \in [Contracts -> InvoiceRows] /\ invoices[c].status # "paid"
      /\ \A d \in Contracts : d # c => invoices'[d] = invoices[d]
      /\ invoices'[c].status = "paid" => invoices'[c].paidAt = at
  BY <1>1, <1>2, MoveEffect
<1>4. Today' = Today /\ RowsAreTyped'
  BY <1>1, <1>2, <1>3 DEF Today, JakartaDay, RowsAreTyped
<1>5. Today \in Int /\ JakartaDay(at) \in Int
  BY <1>2, DaysCount DEF Today, RowsAreTyped
<1>6. \A d \in Contracts : \A day : Unsettled(invoices[d], day)' => Unsettled(invoices[d], day)
  BY <1>3 DEF Unsettled, JakartaDay
<1>7. \A u \in Users : \A day : OwesSomething(u, day)' => OwesSomething(u, day)
  BY <1>6 DEF OwesSomething, BegunInvoices
<1>8. \A r \in Requests : Open(r) => Today' <= requests[r].since + 1
  BY <1>4 DEF AccessInv, RequestIsGood, RequestIsTimely
<1>9. ASSUME NEW r \in Requests, NEW u \in Users, NEW day \in Int,
             NEW read \in RevokeDays \cup {Never}, requests[r].phase = "revoked",
             u = requests[r].user, day = requests[r].today, read = requests[r].day,
             OwesSomething(u, day), ~OwesSomething(u, day)'
      PROVE  ~HasAccessBy(u, read)'
  <2>1. /\ Kind[u] = "creator" /\ Revoked(read, day) /\ day <= Today
    BY <1>9 DEF AccessInv, RequestIsGood, RequestRemembers, RevokedIsWitnessed
  <2>2. PICK d \in BegunInvoices(u, day) :
          Unsettled(invoices[d], day) /\ ~Unsettled(invoices[d], day)'
    BY <1>9 DEF OwesSomething, BegunInvoices
  <2>3. d = c /\ invoices'[c].status = "paid" /\ ~(JakartaDay(at) >= day)
    BY <1>3, <2>2 DEF Unsettled, JakartaDay, BegunInvoices
  <2>4. Today = day
    BY <1>2, <1>5, <2>1, <2>3
  <2>5. ~OwesSomething(u, Today)'
    <3>1. PICK today : today = Today /\ today = day /\ Today' = today
      BY <1>4, <2>4
    <3>2. ~OwesSomething(u, day)'
      BY <1>9
    <3>3. OwesSomething(u, Today)' <=> OwesSomething(u, day)'
      BY <3>1 DEF OwesSomething, BegunInvoices
    <3> QED BY <3>1, <3>2, <3>3
  <2>6. \A i \in BegunInvoices(u, Today)' :
           invoices'[i].status = "paid" /\ ~(JakartaDay(invoices'[i].paidAt) >= Today')
    BY <2>5 DEF OwesSomething, Unsettled, JakartaDay
  <2>7. \A paid \in PaymentDays(u)' : ~(Today' <= paid)
    BY <2>6 DEF PaymentDays, BegunInvoices, JakartaDay
  <2>8. read # Never /\ ~(Today' <= read - 1)
    <3>1. read \in Int /\ read # Never /\ read <= Today
      BY <2>1, <2>4, AccessAssumption DEF Revoked
    <3> QED BY <1>4, <1>5, <3>1
  <2>9. Kind[u] # "admin"
    BY <2>1
  <2> QED BY <2>6, <2>7, <2>8, <2>9 DEF HasAccessBy
<1> QED BY <1>1, <1>4, <1>5, <1>7, <1>8, <1>9, WorldKeepsInv

\* A day that is written is seen by the requests still asking.
LEMMA RevokeKeepsInv ==
    ASSUME AccessInv, NEW u \in Users, NEW day \in RevokeDays \cup {Never}, Revoke(u, day)
    PROVE  AccessInv'
<1>1. /\ revokeDay' = [revokeDay EXCEPT ![u] = day] /\ now' = now /\ invoices' = invoices
      /\ Witness({})
  BY DEF Revoke
<1>2. RowsAreTyped
  BY DEF AccessInv
<1>3. RowsAreTyped' /\ Today' = Today
  BY <1>1, <1>2 DEF RowsAreTyped, Today, JakartaDay
<1>5. Today \in Int
  BY <1>2, DaysCount DEF Today, RowsAreTyped
<1>6. \A v, today : OwesSomething(v, today)' <=> OwesSomething(v, today)
  BY <1>1 DEF OwesSomething, BegunInvoices, Unsettled, JakartaDay
<1>7. \A r \in Requests : Open(r) => Today' <= requests[r].since + 1
  BY <1>3 DEF AccessInv, RequestIsGood, RequestIsTimely
<1> QED BY <1>1, <1>3, <1>5, <1>6, <1>7, WorldKeepsInv

\* Midnight comes once.
LEMMA TickKeepsInv ==
    ASSUME AccessInv, Tick
    PROVE  AccessInv'
<1>1. /\ now < LastMoment /\ now' = now + 1 /\ revokeDay' = revokeDay
      /\ invoices' = invoices /\ Witness({})
      /\ \A r \in Requests : Open(r) => JakartaDay(now + 1) <= requests[r].since + 1
  BY DEF Tick
<1>2. RowsAreTyped /\ now \in Moments
  BY DEF AccessInv, RowsAreTyped
<1>3. now' \in Moments
  BY <1>1, <1>2, AccessAssumption DEF Moments
<1>4. RowsAreTyped'
  BY <1>1, <1>2, <1>3 DEF RowsAreTyped, InvoiceRows, Moments
<1>5. Today' = JakartaDay(now + 1) /\ Today <= Today'
  BY <1>1, <1>2, DaysCount DEF Today, JakartaDay
<1>6. \A v, today : OwesSomething(v, today)' <=> OwesSomething(v, today)
  BY <1>1 DEF OwesSomething, BegunInvoices, Unsettled, JakartaDay
<1> QED BY <1>1, <1>4, <1>5, <1>6, WorldKeepsInv

-----------------------------------------------------------------------------

\* No request is under way at the start.
LEMMA InitHasInv == Init => AccessInv
<1> SUFFICES ASSUME Init PROVE AccessInv
  OBVIOUS
<1>1. RowsAreTyped
  BY AccessAssumption DEF Init, RowsAreTyped, InvoiceRows, RowStatuses, Moments
<1>2. \A r \in Requests : requests[r] = Idle
  BY DEF Init
<1>3. DOMAIN requests = Requests
  BY DEF Init
<1> QED BY <1>1, <1>2, <1>3, IdleIsGood DEF AccessInv

LEMMA NextKeepsInv == AccessInv /\ [Next]_vars => AccessInv'
<1> SUFFICES ASSUME AccessInv, [Next]_vars PROVE AccessInv'
  OBVIOUS
<1>1. ASSUME NEW r \in Requests, NEW u \in Users, Ask(r, u) PROVE AccessInv'
  BY <1>1, AskKeepsInv
<1>2. ASSUME NEW r \in Requests, ReadUser(r) \/ ReadClock(r) \/ ReadInvoices(r) PROVE AccessInv'
  BY <1>2, ReadUserKeepsInv, ReadClockKeepsInv, ReadInvoicesKeepsInv
<1>3. ASSUME NEW r \in Requests, StartMove(r) \/ Done(r) PROVE AccessInv'
  BY <1>3, HandlingKeepsInv
<1>4. ASSUME NEW r \in Requests, NEW c \in Contracts, NEW m \in Moves, CreatorMove(r, c, m)
      PROVE AccessInv'
  BY <1>4, CreatorMoveKeepsInv
<1>5. ASSUME NEW c \in Contracts, NEW m \in Moves, AdminMove(c, m) PROVE AccessInv'
  BY <1>5, AdminMoveKeepsInv
<1>6. ASSUME NEW u \in Users, NEW day \in RevokeDays \cup {Never}, Revoke(u, day) PROVE AccessInv'
  BY <1>6, RevokeKeepsInv
<1>7. CASE Tick
  BY <1>7, TickKeepsInv
<1>8. CASE UNCHANGED vars
  <2>1. UNCHANGED rowVars /\ requests' = requests
    BY <1>8 DEF vars, rowVars
  <2>2. \A p \in Requests : RequestIsGood(p)'
    BY <2>1, OthersStayGood DEF AccessInv
  <2> QED BY <2>1, <2>2, RowsDecide DEF AccessInv
<1> QED BY <1>1, <1>2, <1>3, <1>4, <1>5, <1>6, <1>7, <1>8 DEF Next

\* Rows and requests keep their shape.
THEOREM TypeCorrect == Spec => []TypeOK
<1>1. AccessInv => TypeOK
  BY DEF AccessInv, RequestIsGood, RequestIsTyped, RowsAreTyped, TypeOK
<1> QED BY <1>1, InitHasInv, NextKeepsInv, PTL DEF Spec

\* The whitelist's answer, put together from three reads and a clock, was true
\* at some moment while it was asked, whoever else is at work.
THEOREM AnswersAreTrue == Spec => []AnswersWereTrue
<1>1. AccessInv => AnswersWereTrue
  BY DEF AccessInv, RequestIsGood, AnswerWasTrue, AnswersWereTrue
<1> QED BY <1>1, InitHasInv, NextKeepsInv, PTL DEF Spec

-----------------------------------------------------------------------------
(* How long access lasts.                                                  *)

\* Only a creator is about to move an invoice.
MoversAreCreators ==
    \A r \in Requests : requests[r].phase = "moving" => Kind[requests[r].user] = "creator"

LEMMA InitLasts == Init => MoversAreCreators
  BY DEF Init, MoversAreCreators, Idle

\* What the world's steps leave of the requests that move.
LEMMA MoversStay ==
    ASSUME MoversAreCreators, NEW done, Witness(done)
    PROVE  MoversAreCreators'
<1> SUFFICES ASSUME NEW r \in Requests, requests'[r].phase = "moving"
             PROVE  Kind[requests'[r].user] = "creator"
  BY DEF MoversAreCreators
<1>1. requests'[r] = requests[r]
  <2>1. r \notin done
    BY OthersAreLeft DEF Idle
  <2>2. requests[r].phase \notin Asking
    <3> SUFFICES ASSUME requests[r].phase \in Asking
                 PROVE  requests'[r].phase = requests[r].phase
      BY DEF Asking
    <3> DEFINE welcome == {p \in Users \X (RevokeDays \cup {Never}) : HasAccessBy(p[1], p[2])'}
    <3>1. requests'[r] = Seen(requests[r], welcome)
      BY <2>1 DEF Witness
    <3> HIDE DEF welcome
    <3> QED BY <3>1 DEF Seen
  <2> QED BY <2>1, <2>2, OthersAreLeft
<1> QED BY <1>1 DEF MoversAreCreators

LEMMA NextLasts == AccessInv /\ MoversAreCreators /\ [Next]_vars => MoversAreCreators'
<1> SUFFICES ASSUME AccessInv, MoversAreCreators, [Next]_vars PROVE MoversAreCreators'
  OBVIOUS
<1>1. ASSUME NEW r \in Requests, NEW q, requests' = [requests EXCEPT ![r] = q],
             q.phase = "moving" => Kind[q.user] = "creator"
      PROVE  MoversAreCreators'
  BY <1>1 DEF AccessInv, MoversAreCreators
<1>2. ASSUME NEW r \in Requests, NEW u \in Users, Ask(r, u) PROVE MoversAreCreators'
  <2>1. PICK q : /\ requests' = [requests EXCEPT ![r] = q]
                 /\ q = [phase |-> "asked", user |-> u, since |-> Today,
                         day |-> Never, today |-> Today, at |-> 0,
                         held |-> {revokeDay[u]}, truths |-> {HasAccess(u)}]
    BY <1>2 DEF Ask
  <2> QED BY <1>1, <2>1
<1>3. ASSUME NEW r \in Requests, ReadUser(r) \/ ReadClock(r) \/ ReadInvoices(r)
      PROVE MoversAreCreators'
  <2>1. PICK q : /\ requests' = [requests EXCEPT ![r] = q]
                 /\ \/ \E day : q = [requests[r] EXCEPT !.phase = "found", !.day = day]
                    \/ \E day : q = [requests[r] EXCEPT !.phase = "revoked", !.today = day]
                    \/ \E ok : q = Answered(r, ok)
    BY <1>3 DEF ReadUser, ReadClock, ReadInvoices
  <2>2. q.phase # "moving"
    <3>1. ASSUME NEW day, q = [requests[r] EXCEPT !.phase = "found", !.day = day]
          PROVE  q.phase = "found"
      BY <3>1
    <3>2. ASSUME NEW day, q = [requests[r] EXCEPT !.phase = "revoked", !.today = day]
          PROVE  q.phase = "revoked"
      BY <3>2
    <3>3. ASSUME NEW ok, q = Answered(r, ok)
          PROVE  q.phase \in {"admitted", "refused"}
      BY <3>3 DEF Answered
    <3> QED BY <2>1, <3>1, <3>2, <3>3
  <2> QED BY <1>1, <2>1, <2>2
<1>4. ASSUME NEW r \in Requests, StartMove(r) PROVE MoversAreCreators'
  <2>1. PICK q : /\ requests' = [requests EXCEPT ![r] = q]
                 /\ q = [requests[r] EXCEPT !.phase = "moving", !.at = now]
    BY <1>4 DEF StartMove
  <2>2. q.user = requests[r].user
    BY <2>1
  <2>3. Kind[q.user] = "creator"
    BY <1>4, <2>2 DEF StartMove
  <2> QED BY <1>1, <2>1, <2>3
<1>5. ASSUME NEW r \in Requests, Done(r) PROVE MoversAreCreators'
  <2>1. requests' = [requests EXCEPT ![r] = Idle]
    BY <1>5 DEF Done
  <2> QED BY <1>1, <2>1 DEF Idle
<1>6. ASSUME NEW r \in Requests, NEW c \in Contracts, NEW m \in Moves, CreatorMove(r, c, m)
      PROVE MoversAreCreators'
  BY <1>6, MoversStay DEF CreatorMove
<1>7. ASSUME NEW c \in Contracts, NEW m \in Moves, AdminMove(c, m) PROVE MoversAreCreators'
  BY <1>7, MoversStay DEF AdminMove
<1>8. ASSUME NEW u \in Users, NEW day, Revoke(u, day) PROVE MoversAreCreators'
  BY <1>8, MoversStay DEF Revoke
<1>9. CASE Tick
  BY <1>9, MoversStay DEF Tick
<1>10. CASE UNCHANGED vars
  BY <1>10 DEF vars, MoversAreCreators
<1> QED BY <1>2, <1>3, <1>4, <1>5, <1>6, <1>7, <1>8, <1>9, <1>10 DEF Next

\* A creator who moves the invoice of a contract that has begun has one that is
\* not paid, which is all access asks for.
LEMMA MoversHaveAccess ==
    ASSUME MoversAreCreators, NEW r \in Requests, NEW c \in Contracts, NEW m \in Moves,
           CreatorMove(r, c, m), StartDay[c] <= Today
    PROVE  HasAccess(requests[r].user)
<1>1. invoices[c].status # "paid"
  BY MovesGoOn DEF CreatorMove, AssertCan, StatusOf
<1>2. Kind[requests[r].user] = "creator" /\ Owner[c] = requests[r].user
  BY DEF CreatorMove, MoversAreCreators
<1> QED BY <1>1, <1>2 DEF HasAccess, HasAccessBy, BegunInvoices

\* Without access everything that has begun is paid, on days gone by.
LEMMA NothingLeftToSettle ==
    ASSUME RowsAreTyped, NEW u \in Users, ~HasAccess(u), Kind[u] = "creator"
    PROVE  /\ revokeDay[u] \in Int /\ revokeDay[u] <= Today
           /\ \A c \in BegunInvoices(u, Today) :
                 invoices[c].status = "paid" /\ JakartaDay(invoices[c].paidAt) < Today
<1>1. Today \in Int
  BY DaysCount DEF Today, RowsAreTyped
<1>2. revokeDay[u] \in Int
  BY AccessAssumption DEF HasAccess, HasAccessBy, RowsAreTyped
<1>3. ~(Today <= revokeDay[u] - 1)
  BY DEF HasAccess, HasAccessBy
<1>4. \A c \in BegunInvoices(u, Today) :
        invoices[c].status = "paid" /\ ~(Today <= JakartaDay(invoices[c].paidAt))
  BY DEF HasAccess, HasAccessBy, PaymentDays
<1>5. \A c \in BegunInvoices(u, Today) : JakartaDay(invoices[c].paidAt) \in Int
  <2> SUFFICES ASSUME NEW c \in Contracts, invoices[c].status = "paid"
               PROVE  JakartaDay(invoices[c].paidAt) \in Int
    BY <1>4 DEF BegunInvoices
  <2>1. invoices[c].paidAt \in Moments
    BY DEF RowsAreTyped, InvoiceRows
  <2> QED BY <2>1, DaysCount
<1> QED BY <1>1, <1>2, <1>3, <1>4, <1>5

\* What changes the rows.
LEMMA RowsMove ==
    ASSUME [Next]_vars
    PROVE  \/ UNCHANGED rowVars
           \/ \E r \in Requests, c \in Contracts, m \in Moves : CreatorMove(r, c, m)
           \/ \E c \in Contracts, m \in Moves : AdminMove(c, m)
           \/ \E u \in Users, day \in RevokeDays \cup {Never} : Revoke(u, day)
           \/ Tick
<1>1. ASSUME NEW r \in Requests, NEW u \in Users, Ask(r, u) PROVE UNCHANGED rowVars
  BY <1>1 DEF Ask, rowVars
<1>2. ASSUME NEW r \in Requests, ReadUser(r) PROVE UNCHANGED rowVars
  BY <1>2 DEF ReadUser, rowVars
<1>3. ASSUME NEW r \in Requests, ReadClock(r) PROVE UNCHANGED rowVars
  BY <1>3 DEF ReadClock, rowVars
<1>4. ASSUME NEW r \in Requests, ReadInvoices(r) PROVE UNCHANGED rowVars
  BY <1>4 DEF ReadInvoices, rowVars
<1>5. ASSUME NEW r \in Requests, StartMove(r) \/ Done(r) PROVE UNCHANGED rowVars
  BY <1>5 DEF StartMove, Done, rowVars
<1>6. CASE UNCHANGED vars
  BY <1>6 DEF vars, rowVars
<1> QED BY <1>1, <1>2, <1>3, <1>4, <1>5, <1>6 DEF Next

\* Access comes back with a new day of a contract, or with an operator.
LEMMA AccessComesBack ==
    ASSUME AccessInv, [Next]_vars, NEW u \in Users, ~HasAccess(u), HasAccess(u)',
           revokeDay'[u] = revokeDay[u]
    PROVE  \E c \in Contracts : Owner[c] = u /\ StartDay[c] \in (Today + 1) .. Today'
<1>0. RowsAreTyped /\ RowsAreTyped'
  BY NextKeepsInv DEF AccessInv
<1>1. Kind[u] = "creator"
  BY DEF HasAccess, HasAccessBy
<1>2. /\ revokeDay[u] \in Int /\ revokeDay[u] <= Today
      /\ \A c \in BegunInvoices(u, Today) :
            invoices[c].status = "paid" /\ JakartaDay(invoices[c].paidAt) < Today
  BY <1>0, <1>1, NothingLeftToSettle
<1>3. Today \in Int /\ Today' \in Int /\ Today <= Today'
  <2>1. Today \in Int /\ Today' \in Int
    BY <1>0, DaysCount DEF Today, RowsAreTyped, JakartaDay
  <2>2. now' = now \/ (now' = now + 1 /\ now \in Moments)
    BY <1>0, RowsMove DEF rowVars, CreatorMove, AdminMove, Revoke, Tick, RowsAreTyped
  <2>3. Today <= Today'
    BY <2>1, <2>2, DaysCount DEF Today, JakartaDay
  <2> QED BY <2>1, <2>3
\* A contract of this creator's that has begun is paid for good.
<1>4. \A c \in BegunInvoices(u, Today) : invoices'[c] = invoices[c]
  <2> SUFFICES ASSUME NEW c \in BegunInvoices(u, Today), invoices'[c] # invoices[c]
               PROVE  FALSE
    OBVIOUS
  <2>1. c \in Contracts
    BY DEF BegunInvoices
  <2>2. PICK d \in Contracts, m \in Moves, at \in Moments :
          AssertCan(m, invoices[d].status) /\ invoices' = Moved(d, m, at)
    <3>1. ASSUME NEW r \in Requests, NEW d \in Contracts, NEW m \in Moves, CreatorMove(r, d, m)
          PROVE  requests[r].at \in Moments
      BY <3>1 DEF AccessInv, RequestIsGood, RequestIsTimely, CreatorMove, Open
    <3>2. \/ \E r \in Requests, d \in Contracts, m \in Moves : CreatorMove(r, d, m)
          \/ \E d \in Contracts, m \in Moves : AdminMove(d, m)
          \/ invoices' = invoices
      BY RowsMove DEF rowVars, Revoke, Tick
    <3> QED BY <1>0, <3>1, <3>2 DEF CreatorMove, AdminMove, RowsAreTyped
  <2>3. invoices[d].status # "paid" /\ \A e \in Contracts : e # d => invoices'[e] = invoices[e]
    BY <1>0, <2>2, MoveEffect
  <2>4. c = d
    BY <2>1, <2>3
  <2> QED BY <1>2, <2>3, <2>4
<1> SUFFICES ASSUME \A c \in Contracts : ~(Owner[c] = u /\ StartDay[c] \in (Today + 1) .. Today')
             PROVE  FALSE
  OBVIOUS
<1>5. \A c \in BegunInvoices(u, Today)' : c \in BegunInvoices(u, Today)
  BY <1>3, AccessAssumption DEF BegunInvoices
<1>6. \A c \in BegunInvoices(u, Today)' :
        /\ invoices'[c].status = "paid"
        /\ JakartaDay(invoices'[c].paidAt) \in Int
        /\ ~(Today' <= JakartaDay(invoices'[c].paidAt))
  <2> SUFFICES ASSUME NEW c \in BegunInvoices(u, Today)
               PROVE  /\ invoices'[c].status = "paid"
                      /\ JakartaDay(invoices'[c].paidAt) \in Int
                      /\ ~(Today' <= JakartaDay(invoices'[c].paidAt))
    BY <1>5
  <2>1. invoices'[c] = invoices[c] /\ invoices[c].status = "paid"
        /\ JakartaDay(invoices[c].paidAt) < Today
    BY <1>2, <1>4
  <2>2. invoices[c].paidAt \in Moments
    BY <1>0, <2>1 DEF BegunInvoices, RowsAreTyped, InvoiceRows
  <2>3. JakartaDay(invoices[c].paidAt) \in Int
    BY <2>2, DaysCount
  <2> QED BY <1>3, <2>1, <2>3
<1>7. \A day \in PaymentDays(u)' : ~(Today' <= day)
  BY <1>6 DEF PaymentDays, BegunInvoices, JakartaDay
<1>8. ~(Today' <= revokeDay'[u] - 1) /\ revokeDay'[u] # Never
  BY <1>2, <1>3, AccessAssumption
<1> QED BY <1>1, <1>6, <1>7, <1>8 DEF HasAccess, HasAccessBy

\* A creator's access outlives a move of anybody's, but for a payment stamped
\* on a day gone by.
LEMMA MovesLeaveAccess ==
    ASSUME RowsAreTyped, NEW c \in Contracts, NEW m \in Moves, NEW at \in Moments,
           AssertCan(m, invoices[c].status), invoices' = Moved(c, m, at),
           now' = now, revokeDay' = revokeDay,
           NEW u \in Users, HasAccess(u), ~HasAccess(u)'
    PROVE  /\ Owner[c] = u
           /\ m \in CreatorMoves
           /\ JakartaDay(at) < Today
<1>1. /\ invoices' \in [Contracts -> InvoiceRows] /\ invoices[c].status # "paid"
      /\ \A d \in Contracts : d # c => invoices'[d] = invoices[d]
      /\ invoices'[c].status = "paid" => m \in CreatorMoves /\ invoices'[c].paidAt = at
  BY MoveEffect
<1>2. Today' = Today /\ Today \in Int /\ JakartaDay(at) \in Int
  BY DaysCount DEF Today, JakartaDay, RowsAreTyped
<1>3. Kind[u] = "creator" /\ revokeDay[u] # Never /\ ~(Today <= revokeDay[u] - 1)
  BY <1>2 DEF HasAccess, HasAccessBy
<1>4. /\ \A d \in BegunInvoices(u, Today) : invoices'[d].status = "paid"
      /\ \A d \in BegunInvoices(u, Today) : ~(Today <= JakartaDay(invoices'[d].paidAt))
  BY <1>2, <1>3 DEF HasAccess, HasAccessBy, PaymentDays, BegunInvoices, JakartaDay
<1>5. PICK d \in BegunInvoices(u, Today) :
        invoices[d].status # "paid" \/ Today <= JakartaDay(invoices[d].paidAt)
  BY <1>3 DEF HasAccess, HasAccessBy, PaymentDays
<1>6. d = c
  <2> SUFFICES ASSUME d # c PROVE FALSE
    OBVIOUS
  <2>1. invoices'[d] = invoices[d]
    BY <1>1 DEF BegunInvoices
  <2> QED BY <1>4, <1>5, <2>1
<1>7. invoices'[c].status = "paid" /\ ~(Today <= JakartaDay(invoices'[c].paidAt))
  BY <1>4, <1>6
<1>8. ~(Today <= JakartaDay(at))
  BY <1>1, <1>7
<1> QED BY <1>1, <1>2, <1>6, <1>7, <1>8 DEF BegunInvoices

\* Access ends at midnight, by an operator, or with such a payment.
LEMMA AccessGoes ==
    ASSUME AccessInv, [Next]_vars, NEW u \in Users, HasAccess(u), ~HasAccess(u)',
           Today' = Today, revokeDay'[u] = revokeDay[u]
    PROVE  \E r \in Requests, c \in Contracts, m \in CreatorMoves :
             CreatorMove(r, c, m) /\ Owner[c] = u /\ JakartaDay(requests[r].at) < Today
<1>1. RowsAreTyped
  BY DEF AccessInv
<1>2. ASSUME invoices' = invoices
      PROVE  FALSE
  BY <1>2 DEF HasAccess, HasAccessBy, PaymentDays, BegunInvoices, JakartaDay
<1>3. ASSUME NEW c \in Contracts, NEW m \in Moves, AdminMove(c, m)
      PROVE  FALSE
  BY <1>1, <1>3, MovesLeaveAccess DEF AdminMove, RowsAreTyped
<1>4. ASSUME NEW r \in Requests, NEW c \in Contracts, NEW m \in Moves, CreatorMove(r, c, m)
      PROVE  /\ m \in CreatorMoves /\ Owner[c] = u
             /\ JakartaDay(requests[r].at) < Today
  <2>1. requests[r].at \in Moments
    BY <1>4 DEF AccessInv, RequestIsGood, RequestIsTimely, CreatorMove, Open
  <2> QED BY <1>1, <1>4, <2>1, MovesLeaveAccess DEF CreatorMove
<1>5. \/ \E r \in Requests, c \in Contracts, m \in Moves : CreatorMove(r, c, m)
      \/ \E c \in Contracts, m \in Moves : AdminMove(c, m)
      \/ invoices' = invoices
  BY RowsMove DEF rowVars, Revoke, Tick
<1> QED BY <1>2, <1>3, <1>4, <1>5

\* A creator has access at the moment of every move on a contract that has
\* begun, though the guard asked earlier, is never locked out in the middle of
\* a day, and once out stays out: only a new contract's first day or an operator
\* lets them in again (invoice-confirmation.service.ts, creator-access.ts).
THEOREM AccessIsKeptAndEnds == Spec => AccessLastsAndEnds
<1>1. Spec => [](AccessInv /\ MoversAreCreators)
  BY InitHasInv, NextKeepsInv, InitLasts, NextLasts, PTL DEF Spec
<1>2. AccessInv /\ MoversAreCreators /\ [Next]_vars
      => [\A r \in Requests, c \in Contracts, m \in CreatorMoves :
            CreatorMove(r, c, m) /\ StartDay[c] <= Today => HasAccess(requests[r].user)]_vars
  BY MoversHaveAccess DEF CreatorMoves, Moves
<1>3. AccessInv /\ MoversAreCreators /\ [Next]_vars
      => [\A u \in Users :
            HasAccess(u) /\ ~HasAccess(u)'
            => \/ Today' # Today
               \/ revokeDay'[u] # revokeDay[u]
               \/ \E r \in Requests, c \in Contracts, m \in CreatorMoves :
                     /\ CreatorMove(r, c, m) /\ Owner[c] = u
                     /\ JakartaDay(requests[r].at) < Today]_vars
  BY AccessGoes
<1>4. AccessInv /\ MoversAreCreators /\ [Next]_vars
      => [\A u \in Users :
            /\ ~HasAccess(u) /\ HasAccess(u)'
            => \/ revokeDay'[u] # revokeDay[u]
               \/ \E c \in Contracts :
                    Owner[c] = u /\ StartDay[c] \in (Today + 1) .. Today']_vars
  BY AccessComesBack
<1> QED BY <1>1, <1>2, <1>3, <1>4, PTL
        DEF Spec, AccessLastsAndEnds, MovesAreMadeWithAccess, AccessEndsAtMidnight, AccessEndsForGood

-----------------------------------------------------------------------------
(* One browser: what each tab has under way, by the sessions' rows.        *)

RowSet == {NoRow} \cup [state : {"live", "gone"}, user : Accounts, role : Roles]

\* What a cookie may hold: no session nobody ever started.
CookieHolds(c, row) ==
    /\ c \in Flows \cup Sessions \cup {NoCookie}
    /\ c \in Sessions => row[c] # NoRow

\* The answer to a sign-in promises a session, and that session's own home.
Welcomed(p, row) ==
    \E s \in Sessions, f \in Flows \cup {NoFlow} :
      /\ row[s] # NoRow
      /\ p = [stage |-> "welcomed", flow |-> f, sets |-> Welcome(s),
              to |-> HomeFor[row[s].role]]

\* A page under way: no session is promised but with its own home.
PageHolds(p, row) ==
    \/ p = None
    \/ \E path \in Paths : p = Opening(path)
    \/ p = [stage |-> "start"]
    \/ /\ p.stage \in {"callback", "exchanging", "identified"}
       /\ p = [stage |-> p.stage, flow |-> p.flow, account |-> p.account, cookie |-> p.cookie]
       /\ p.flow \in Flows \cup {NoFlow}
       /\ p.stage # "callback" => p.account \in Accounts
    \/ Welcomed(p, row)

\* A call under way: it was sent with the cookie of its time, what it sets is
\* that or nothing, and a session whose sign-out was answered is gone.
CallHolds(call, row) ==
    \/ call = None
    \/ /\ call = [stage |-> "sent", kind |-> call.kind, cookie |-> call.cookie]
       /\ CookieHolds(call.cookie, row)
    \/ /\ call = [stage |-> "answered", kind |-> call.kind, cookie |-> call.cookie,
                  sets |-> call.sets, to |-> call.to]
       /\ CookieHolds(call.cookie, row)
       /\ call.to \in {"stay", "/login"}
       /\ \/ call.sets = <<>>
          \/ \E c \in Sessions \cup {NoCookie} : call.sets = <<c>> /\ CookieHolds(c, row)
       /\ call.kind = "logout" /\ call.cookie \in Sessions => row[call.cookie].state = "gone"

CookieInv ==
    /\ FlowsAreSpent
    /\ CookieHolds(cookie, rows)

PagesInv ==
    /\ loading = [t \in Tabs |-> loading[t]]
    /\ \A t \in Tabs : PageHolds(loading[t], rows)

CallsInv ==
    /\ fetching = [t \in Tabs |-> fetching[t]]
    /\ \A t \in Tabs : CallHolds(fetching[t], rows)

BrowserInv == SignInTypeOK /\ CookieInv /\ PagesInv /\ CallsInv

\* A session that was started stays so, in its role, and what is gone is gone.
RowsGoOn(row, later) ==
    \A s \in Sessions :
        row[s] # NoRow =>
            /\ later[s] # NoRow
            /\ later[s].role = row[s].role
            /\ row[s].state = "gone" => later[s].state = "gone"

LEMMA RowsTyped ==
    ASSUME BrowserInv
    PROVE  rows \in [Sessions -> RowSet]
    BY DEF BrowserInv, SignInTypeOK, RowSet

LEMMA RowsStand == RowsGoOn(rows, rows)
    BY DEF RowsGoOn

LEMMA CookieGoesOn ==
    ASSUME NEW row, NEW later, RowsGoOn(row, later), NEW c, CookieHolds(c, row)
    PROVE  CookieHolds(c, later)
    BY DEF RowsGoOn, CookieHolds

LEMMA PageGoesOn ==
    ASSUME NEW row, NEW later, RowsGoOn(row, later), NEW p, PageHolds(p, row)
    PROVE  PageHolds(p, later)
    <1>1. CASE Welcomed(p, row)
      <2>1. PICK s \in Sessions, f \in Flows \cup {NoFlow} :
                 /\ row[s] # NoRow
                 /\ p = [stage |-> "welcomed", flow |-> f, sets |-> Welcome(s),
                         to |-> HomeFor[row[s].role]]
        BY <1>1 DEF Welcomed
      <2>2. later[s] # NoRow /\ later[s].role = row[s].role
        BY <2>1 DEF RowsGoOn
      <2>. QED  BY <2>1, <2>2 DEF PageHolds, Welcomed
    <1>. QED  BY <1>1 DEF PageHolds

LEMMA CallGoesOn ==
    ASSUME NEW row, NEW later, RowsGoOn(row, later), NEW call, CallHolds(call, row)
    PROVE  CallHolds(call, later)
    <1>1. CASE call = None
      BY <1>1 DEF CallHolds
    <1>2. CASE /\ call = [stage |-> "sent", kind |-> call.kind, cookie |-> call.cookie]
               /\ CookieHolds(call.cookie, row)
      <2>1. CookieHolds(call.cookie, later)
        BY <1>2, CookieGoesOn
      <2>. QED  BY <1>2, <2>1 DEF CallHolds
    <1>3. CASE /\ call = [stage |-> "answered", kind |-> call.kind, cookie |-> call.cookie,
                          sets |-> call.sets, to |-> call.to]
               /\ CookieHolds(call.cookie, row)
               /\ call.to \in {"stay", "/login"}
               /\ \/ call.sets = <<>>
                  \/ \E c \in Sessions \cup {NoCookie} :
                        call.sets = <<c>> /\ CookieHolds(c, row)
               /\ call.kind = "logout" /\ call.cookie \in Sessions
                     => row[call.cookie].state = "gone"
      <2>1. CookieHolds(call.cookie, later)
        BY <1>3, CookieGoesOn
      <2>2. \A c : CookieHolds(c, row) => CookieHolds(c, later)
        BY CookieGoesOn
      <2>3. call.kind = "logout" /\ call.cookie \in Sessions
                => later[call.cookie].state = "gone"
        BY <1>3 DEF CookieHolds, RowsGoOn
      <2>. QED  BY <1>3, <2>1, <2>2, <2>3 DEF CallHolds
    <1>. QED  BY <1>1, <1>2, <1>3 DEF CallHolds

\* Where no page or call but one tab's is touched.
LEMMA PagesKept ==
    ASSUME BrowserInv, RowsGoOn(rows, rows'), NEW t \in Tabs, NEW p, PageHolds(p, rows'),
           loading' = [loading EXCEPT ![t] = p]
    PROVE  PagesInv'
    <1>1. \A u \in Tabs : PageHolds(loading[u], rows')
      BY PageGoesOn DEF BrowserInv, PagesInv
    <1>2. \A u \in Tabs : loading'[u] = IF u = t THEN p ELSE loading[u]
      BY DEF BrowserInv, PagesInv
    <1>3. loading' = [u \in Tabs |-> loading'[u]]
      BY <1>2 DEF BrowserInv, PagesInv
    <1>4. \A u \in Tabs : PageHolds(loading'[u], rows')
      BY <1>1, <1>2
    <1>. QED  BY <1>3, <1>4 DEF PagesInv

LEMMA PagesStand ==
    ASSUME BrowserInv, RowsGoOn(rows, rows'), UNCHANGED loading
    PROVE  PagesInv'
    <1>1. \A u \in Tabs : PageHolds(loading[u], rows')
      BY PageGoesOn DEF BrowserInv, PagesInv
    <1>. QED  BY <1>1 DEF BrowserInv, PagesInv

LEMMA CallsKept ==
    ASSUME BrowserInv, RowsGoOn(rows, rows'), NEW t \in Tabs, NEW call, CallHolds(call, rows'),
           fetching' = [fetching EXCEPT ![t] = call]
    PROVE  CallsInv'
    <1>1. \A u \in Tabs : CallHolds(fetching[u], rows')
      BY CallGoesOn DEF BrowserInv, CallsInv
    <1>2. \A u \in Tabs : fetching'[u] = IF u = t THEN call ELSE fetching[u]
      BY DEF BrowserInv, CallsInv
    <1>3. fetching' = [u \in Tabs |-> fetching'[u]]
      BY <1>2 DEF BrowserInv, CallsInv
    <1>4. \A u \in Tabs : CallHolds(fetching'[u], rows')
      BY <1>1, <1>2
    <1>. QED  BY <1>3, <1>4 DEF CallsInv

LEMMA CallsStand ==
    ASSUME BrowserInv, RowsGoOn(rows, rows'), UNCHANGED fetching
    PROVE  CallsInv'
    <1>1. \A u \in Tabs : CallHolds(fetching[u], rows')
      BY CallGoesOn DEF BrowserInv, CallsInv
    <1>. QED  BY <1>1 DEF BrowserInv, CallsInv

LEMMA CookieStands ==
    ASSUME BrowserInv, RowsGoOn(rows, rows'), UNCHANGED <<cookie, flows>>
    PROVE  CookieInv'
    <1>1. CookieHolds(cookie, rows')
      BY CookieGoesOn DEF BrowserInv, CookieInv
    <1>. QED  BY <1>1 DEF BrowserInv, CookieInv, FlowsAreSpent

TabSet == [page : Pages, flow : Flows \cup {NoFlow}]

FlowSet == [Flows -> {"new", "drawn", "spent"}]

\* A page is shown, or the next path opened, with the rows as they are.
LEMMA Followed ==
    ASSUME BrowserInv, RowsGoOn(rows, rows'), NEW t \in Tabs, NEW to \in Paths \cup Pages,
           Follow(t, to)
    PROVE  PagesInv' /\ tabs' \in [Tabs -> TabSet]
    <1>t. tabs \in [Tabs -> TabSet]
      BY DEF BrowserInv, SignInTypeOK, TabSet
    <1>1. CASE to \in Paths
      <2>1. PageHolds(Opening(to), rows')
        BY <1>1 DEF PageHolds
      <2>2. loading' = [loading EXCEPT ![t] = Opening(to)] /\ tabs' = tabs
        BY <1>1 DEF Follow
      <2>. QED  BY <2>1, <2>2, <1>t, PagesKept
    <1>2. CASE to \notin Paths
      <2>1. PageHolds(None, rows')
        BY DEF PageHolds
      <2>2. loading' = [loading EXCEPT ![t] = None] /\ tabs' = [tabs EXCEPT ![t].page = to]
        BY <1>2 DEF Follow
      <2>3. to \in Pages
        BY <1>2
      <2>4. tabs' \in [Tabs -> TabSet]
        BY <2>2, <2>3, <1>t DEF TabSet
      <2>. QED  BY <2>1, <2>2, <2>4, PagesKept
    <1>. QED  BY <1>1, <1>2

\* What holds of the rest where rows and access stay as they are.
LEMMA TypesKept ==
    ASSUME BrowserInv, UNCHANGED <<rows, access>>, CookieInv',
           tabs' \in [Tabs -> TabSet], flows' \in FlowSet
    PROVE  SignInTypeOK'
    BY DEF BrowserInv, SignInTypeOK, CookieInv, CookieHolds, TabSet, FlowSet

\* Every refusal takes the flow out of the cookie it spends.
LEMMA RefusalKeeps ==
    ASSUME BrowserInv, NEW t \in Tabs, RefuseCallback(t)
    PROVE  BrowserInv'
    <1>. USE SignInAssumption
    <1>1. "/login" \in Paths \cup Pages /\ Follow(t, "/login") /\ RowsGoOn(rows, rows')
      BY RowsStand DEF RefuseCallback, Paths
    <1>2. PagesInv' /\ tabs' \in [Tabs -> TabSet]
      BY <1>1, Followed
    <1>3. CallsInv'
      BY <1>1, CallsStand DEF RefuseCallback
    <1>4. flows' \in FlowSet
      BY DEF RefuseCallback, BrowserInv, SignInTypeOK, FlowSet
    <1>5. CookieInv'
      BY DEF RefuseCallback, CookieInv, FlowsAreSpent, CookieHolds
    <1>6. SignInTypeOK'
      BY <1>2, <1>4, <1>5, TypesKept DEF RefuseCallback
    <1>. QED  BY <1>2, <1>3, <1>5, <1>6 DEF BrowserInv

\* A step that only changes the page a tab loads.
LEMMA LoadingKeeps ==
    ASSUME BrowserInv, NEW t \in Tabs, NEW p, PageHolds(p, rows),
           loading' = [loading EXCEPT ![t] = p],
           UNCHANGED <<cookie, tabs, fetching, rows, access, flows>>
    PROVE  BrowserInv'
    <1>1. RowsGoOn(rows, rows') /\ PageHolds(p, rows')
      BY RowsStand
    <1>2. PagesInv'
      BY <1>1, PagesKept
    <1>3. CallsInv'
      BY <1>1, CallsStand
    <1>4. CookieInv'
      BY <1>1, CookieStands
    <1>5. SignInTypeOK'
      BY <1>4, TypesKept DEF BrowserInv, SignInTypeOK, TabSet, FlowSet
    <1>. QED  BY <1>2, <1>3, <1>4, <1>5 DEF BrowserInv

\* A step that only changes a tab's call.
LEMMA FetchingKeeps ==
    ASSUME BrowserInv, NEW t \in Tabs, NEW call, CallHolds(call, rows),
           fetching' = [fetching EXCEPT ![t] = call],
           UNCHANGED <<cookie, tabs, loading, rows, access, flows>>
    PROVE  BrowserInv'
    <1>1. RowsGoOn(rows, rows') /\ CallHolds(call, rows')
      BY RowsStand
    <1>2. PagesInv'
      BY <1>1, PagesStand
    <1>3. CallsInv'
      BY <1>1, CallsKept
    <1>4. CookieInv'
      BY <1>1, CookieStands
    <1>5. SignInTypeOK'
      BY <1>4, TypesKept DEF BrowserInv, SignInTypeOK, TabSet, FlowSet
    <1>. QED  BY <1>2, <1>3, <1>4, <1>5 DEF BrowserInv

LEMMA VisitKeeps ==
    ASSUME BrowserInv, NEW t \in Tabs, NEW path \in Paths, Visit(t, path)
    PROVE  BrowserInv'
    <1>1. PageHolds(Opening(path), rows)
      BY DEF PageHolds
    <1>. QED  BY <1>1, LoadingKeeps DEF Visit

LEMMA PressKeeps ==
    ASSUME BrowserInv, NEW t \in Tabs, PressSignIn(t)
    PROVE  BrowserInv'
    <1>1. PageHolds([stage |-> "start"], rows)
      BY DEF PageHolds
    <1>. QED  BY <1>1, LoadingKeeps DEF PressSignIn

LEMMA LeaveKeeps ==
    ASSUME BrowserInv, NEW t \in Tabs, NEW account, LeaveGoogle(t, account)
    PROVE  BrowserInv'
    <1>. DEFINE p == [stage |-> "callback", flow |-> tabs[t].flow,
                      account |-> account, cookie |-> cookie]
    <1>1. tabs[t].flow \in Flows \cup {NoFlow}
      BY DEF BrowserInv, SignInTypeOK
    <1>2. PageHolds(p, rows)
      BY <1>1 DEF PageHolds
    <1>3. loading' = [loading EXCEPT ![t] = p]
      BY DEF LeaveGoogle
    <1>. QED  BY <1>2, <1>3, LoadingKeeps DEF LeaveGoogle

LEMMA BackKeeps ==
    ASSUME BrowserInv, NEW t \in Tabs, BackToGoogle(t)
    PROVE  BrowserInv'
    <1>1. RowsGoOn(rows, rows')
      BY RowsStand DEF BackToGoogle
    <1>2. tabs' \in [Tabs -> TabSet]
      BY DEF BackToGoogle, BrowserInv, SignInTypeOK, TabSet, Pages
    <1>3. CookieInv' /\ PagesInv' /\ CallsInv'
      BY <1>1, CookieStands, PagesStand, CallsStand DEF BackToGoogle
    <1>4. SignInTypeOK'
      BY <1>2, <1>3, TypesKept DEF BackToGoogle, BrowserInv, SignInTypeOK, FlowSet
    <1>. QED  BY <1>3, <1>4 DEF BrowserInv

LEMMA FetchKeeps ==
    ASSUME BrowserInv, NEW t \in Tabs, NEW kind, Fetch(t, kind)
    PROVE  BrowserInv'
    <1>. DEFINE call == [stage |-> "sent", kind |-> kind, cookie |-> cookie]
    <1>1. CallHolds(call, rows)
      BY DEF CallHolds, BrowserInv, CookieInv
    <1>2. fetching' = [fetching EXCEPT ![t] = call]
      BY DEF Fetch
    <1>. QED  BY <1>1, <1>2, FetchingKeeps DEF Fetch

LEMMA RoutesLead ==
    ASSUME NEW path \in Paths, NEW role \in Roles \cup {"none"}
    PROVE  Route(path, role) \in Paths \cup Pages
    BY DEF Route, Paths, Pages, Roles, SignedOut, HomeFor

\* A step that only takes a tab on to where its page leads.
LEMMA FollowKeeps ==
    ASSUME BrowserInv, NEW t \in Tabs, NEW to \in Paths \cup Pages, Follow(t, to),
           UNCHANGED <<cookie, fetching, rows, access, flows>>
    PROVE  BrowserInv'
    <1>1. RowsGoOn(rows, rows')
      BY RowsStand
    <1>2. PagesInv' /\ tabs' \in [Tabs -> TabSet]
      BY <1>1, Followed
    <1>3. CookieInv' /\ CallsInv'
      BY <1>1, CookieStands, CallsStand
    <1>4. SignInTypeOK'
      BY <1>2, <1>3, TypesKept DEF BrowserInv, SignInTypeOK, FlowSet
    <1>. QED  BY <1>2, <1>3, <1>4 DEF BrowserInv

LEMMA PageOpen ==
    ASSUME NEW p, NEW row, PageHolds(p, row), p.stage = "open"
    PROVE  \E path \in Paths : p = Opening(path)
    BY DEF PageHolds, Welcomed, None, Opening

LEMMA PageUnderWay ==
    ASSUME NEW p, NEW row, PageHolds(p, row), p.stage \in {"callback", "exchanging", "identified"}
    PROVE  /\ p = [stage |-> p.stage, flow |-> p.flow, account |-> p.account, cookie |-> p.cookie]
           /\ p.flow \in Flows \cup {NoFlow}
           /\ p.stage # "callback" => p.account \in Accounts
    BY DEF PageHolds, Welcomed, None, Opening

LEMMA PageWelcomed ==
    ASSUME NEW p, NEW row, PageHolds(p, row), p.stage = "welcomed"
    PROVE  Welcomed(p, row)
    BY DEF PageHolds, None, Opening

LEMMA ServePageKeeps ==
    ASSUME BrowserInv, NEW t \in Tabs, ServePage(t)
    PROVE  BrowserInv'
    <1>1. PageHolds(loading[t], rows) /\ loading[t].stage = "open"
      BY DEF BrowserInv, PagesInv, ServePage
    <1>2. PICK path \in Paths : loading[t] = Opening(path)
      BY <1>1, PageOpen
    <1>3. loading[t].path = path
      BY <1>2 DEF Opening
    <1>4. CurrentRole(cookie) \in Roles \cup {"none"}
      BY DEF CurrentRole, Live, BrowserInv, SignInTypeOK, NoRow
    <1>5. Route(loading[t].path, CurrentRole(cookie)) \in Paths \cup Pages
      BY <1>3, <1>4, RoutesLead
    <1>. QED  BY <1>5, FollowKeeps DEF ServePage

LEMMA StartKeeps ==
    ASSUME BrowserInv, NEW t \in Tabs, NEW f \in Flows, ServeStart(t, f)
    PROVE  BrowserInv'
    <1>. USE SignInAssumption
    <1>1. RowsGoOn(rows, rows') /\ PageHolds(None, rows') /\ CallHolds(None, rows')
      BY RowsStand DEF ServeStart, PageHolds, CallHolds
    <1>2. PagesInv' /\ CallsInv'
      BY <1>1, PagesKept, CallsKept DEF ServeStart
    <1>3. tabs' \in [Tabs -> TabSet]
      BY DEF ServeStart, BrowserInv, SignInTypeOK, TabSet, Pages
    <1>4. flows' \in FlowSet /\ flows'[f] = "drawn"
      BY DEF ServeStart, newFlow, BrowserInv, SignInTypeOK, FlowSet
    <1>5. CookieInv'
      BY <1>4 DEF ServeStart, CookieInv, FlowsAreSpent, CookieHolds
    <1>6. SignInTypeOK'
      BY <1>3, <1>4, <1>5, TypesKept DEF ServeStart
    <1>. QED  BY <1>2, <1>5, <1>6 DEF BrowserInv

LEMMA CallbackKeeps ==
    ASSUME BrowserInv, NEW t \in Tabs, ServeCallback(t)
    PROVE  BrowserInv'
    <1>1. CASE CheckCallback(loading[t])
      <2>. DEFINE p == [stage |-> "exchanging", flow |-> loading[t].flow,
                        account |-> loading[t].account, cookie |-> loading[t].cookie]
      <2>1. PageHolds(loading[t], rows) /\ loading[t].stage = "callback"
        BY DEF BrowserInv, PagesInv, ServeCallback
      <2>2. /\ loading[t] = [stage |-> "callback", flow |-> loading[t].flow,
                             account |-> loading[t].account, cookie |-> loading[t].cookie]
            /\ loading[t].flow \in Flows \cup {NoFlow}
        BY <2>1, PageUnderWay
      <2>3. PageHolds(p, rows)
        BY <1>1, <2>2 DEF PageHolds, CheckCallback
      <2>4. [loading[t] EXCEPT !.stage = "exchanging"] = p
        BY <2>2
      <2>5. loading' = [loading EXCEPT ![t] = p]
        BY <1>1, <2>4 DEF ServeCallback
      <2>. QED  BY <1>1, <2>3, <2>5, LoadingKeeps DEF ServeCallback
    <1>2. CASE ~CheckCallback(loading[t])
      BY <1>2, RefusalKeeps DEF ServeCallback
    <1>. QED  BY <1>1, <1>2

LEMMA ExchangeKeeps ==
    ASSUME BrowserInv, NEW t \in Tabs, ExchangeCode(t)
    PROVE  BrowserInv'
    <1>1. CASE VerifyIdToken(t)
      <2>. DEFINE p == [stage |-> "identified", flow |-> loading[t].flow,
                        account |-> loading[t].account, cookie |-> loading[t].cookie]
      <2>1. PageHolds(loading[t], rows) /\ loading[t].stage = "exchanging"
        BY DEF BrowserInv, PagesInv, ExchangeCode
      <2>2. /\ loading[t] = [stage |-> "exchanging", flow |-> loading[t].flow,
                             account |-> loading[t].account, cookie |-> loading[t].cookie]
            /\ loading[t].flow \in Flows \cup {NoFlow}
            /\ loading[t].account \in Accounts
        BY <2>1, PageUnderWay
      <2>3. PageHolds(p, rows)
        BY <2>2 DEF PageHolds
      <2>4. [loading[t] EXCEPT !.stage = "identified"] = p
        BY <2>2
      <2>5. loading' = [loading EXCEPT ![t] = p]
        BY <1>1, <2>4 DEF VerifyIdToken
      <2>. QED  BY <1>1, <2>3, <2>5, LoadingKeeps DEF VerifyIdToken
    <1>2. CASE RefuseCallback(t)
      BY <1>2, RefusalKeeps
    <1>. QED  BY <1>1, <1>2 DEF ExchangeCode

\* The row a sign-in starts was nobody's.
LEMMA CompleteKeeps ==
    ASSUME BrowserInv, NEW t \in Tabs, CompleteSignIn(t)
    PROVE  BrowserInv'
    <1>1. CASE RefuseCallback(t)
      BY <1>1, RefusalKeeps
    <1>2. CASE ~RefuseCallback(t)
      <2>. DEFINE user == loading[t].account
      <2>1. PICK s \in Sessions :
              /\ access[user] # "none"
              /\ rows[s] = NoRow
              /\ rows' = [rows EXCEPT ![s] =
                            [state |-> "live", user |-> user, role |-> access[user]]]
              /\ loading' = [loading EXCEPT ![t] =
                   [stage |-> "welcomed", flow |-> @.flow,
                    sets |-> Welcome(s), to |-> HomeFor[access[user]]]]
              /\ UNCHANGED <<cookie, tabs, fetching, access, flows>>
        BY <1>2 DEF CompleteSignIn
      <2>2. PageHolds(loading[t], rows) /\ loading[t].stage = "identified"
        BY DEF BrowserInv, PagesInv, CompleteSignIn
      <2>3. loading[t].flow \in Flows \cup {NoFlow} /\ user \in Accounts
        BY <2>2, PageUnderWay
      <2>4. access[user] \in Roles
        BY <2>1, <2>3 DEF BrowserInv, SignInTypeOK
      <2>. DEFINE p == [stage |-> "welcomed", flow |-> loading[t].flow,
                        sets |-> Welcome(s), to |-> HomeFor[access[user]]]
      <2>5. rows \in [Sessions -> RowSet]
        BY RowsTyped
      <2>6. /\ rows'[s] = [state |-> "live", user |-> user, role |-> access[user]]
            /\ rows'[s].state = "live" /\ rows'[s].role = access[user]
            /\ \A o \in Sessions : o # s => rows'[o] = rows[o]
        BY <2>1, <2>5
      <2>7. rows'[s] # NoRow
        BY <2>6 DEF NoRow
      <2>8. RowsGoOn(rows, rows')
        BY <2>1, <2>6 DEF RowsGoOn
      <2>9. p = [stage |-> "welcomed", flow |-> loading[t].flow,
                 sets |-> Welcome(s), to |-> HomeFor[rows'[s].role]]
        BY <2>6
      <2>10. PageHolds(p, rows')
        BY <2>3, <2>7, <2>9 DEF PageHolds, Welcomed
      <2>11. PagesInv'
        BY <2>1, <2>8, <2>10, PagesKept
      <2>12. CookieInv' /\ CallsInv'
        BY <2>1, <2>8, CookieStands, CallsStand
      <2>13. rows' \in [Sessions -> {NoRow} \cup
                     [state : {"live", "gone"}, user : Accounts, role : Roles]]
        BY <2>1, <2>3, <2>4 DEF BrowserInv, SignInTypeOK
      <2>14. SignInTypeOK'
        BY <2>1, <2>13 DEF BrowserInv, SignInTypeOK
      <2>. QED  BY <2>11, <2>12, <2>14 DEF BrowserInv
    <1>. QED  BY <1>1, <1>2

\* What the browser is welcomed with: a session that was started, at its home.
LEMMA WelcomeLands ==
    ASSUME BrowserInv, NEW t \in Tabs, ReceiveWelcome(t)
    PROVE  /\ cookie' \in Sessions
           /\ rows[cookie'] # NoRow
           /\ loading[t].to = HomeFor[rows[cookie'].role]
           /\ loading[t].to \in Paths
    <1>1. PageHolds(loading[t], rows) /\ loading[t].stage = "welcomed"
      BY DEF BrowserInv, PagesInv, ReceiveWelcome
    <1>w. Welcomed(loading[t], rows)
      BY <1>1, PageWelcomed
    <1>2. PICK s \in Sessions, f \in Flows \cup {NoFlow} :
             /\ rows[s] # NoRow
             /\ loading[t] = [stage |-> "welcomed", flow |-> f, sets |-> Welcome(s),
                              to |-> HomeFor[rows[s].role]]
      BY <1>w DEF Welcomed
    <1>3. loading[t].sets = <<NoCookie, s>> /\ loading[t].to = HomeFor[rows[s].role]
      BY <1>2 DEF Welcome
    <1>4. Len(<<NoCookie, s>>) = 2 /\ <<NoCookie, s>>[2] = s
      OBVIOUS
    <1>5. cookie' = s
      BY <1>3, <1>4 DEF ReceiveWelcome
    <1>6. rows[s].role \in Roles
      BY <1>2 DEF BrowserInv, SignInTypeOK
    <1>7. HomeFor[rows[s].role] \in Paths
      BY <1>6 DEF HomeFor, Roles, Paths
    <1>. QED  BY <1>2, <1>3, <1>5, <1>7

LEMMA WelcomeKeeps ==
    ASSUME BrowserInv, NEW t \in Tabs, ReceiveWelcome(t)
    PROVE  BrowserInv'
    <1>. USE SignInAssumption
    <1>1. /\ cookie' \in Sessions /\ rows[cookie'] # NoRow
          /\ loading[t].to \in Paths \cup Pages
      BY WelcomeLands
    <1>2. RowsGoOn(rows, rows') /\ Follow(t, loading[t].to)
      BY RowsStand DEF ReceiveWelcome
    <1>3. PagesInv' /\ tabs' \in [Tabs -> TabSet]
      BY <1>1, <1>2, Followed
    <1>4. CallsInv'
      BY <1>2, CallsStand DEF ReceiveWelcome
    <1>5. flows' \in FlowSet
      BY DEF ReceiveWelcome, BrowserInv, SignInTypeOK, FlowSet
    <1>6. rows' = rows
      BY DEF ReceiveWelcome
    <1>7. CookieInv'
      BY <1>1, <1>6 DEF CookieInv, FlowsAreSpent, CookieHolds
    <1>8. SignInTypeOK'
      BY <1>3, <1>5, <1>7, TypesKept DEF ReceiveWelcome
    <1>. QED  BY <1>3, <1>4, <1>7, <1>8 DEF BrowserInv

LEMMA PageFailsKeeps ==
    ASSUME BrowserInv, NEW t \in Tabs, PageFails(t)
    PROVE  BrowserInv'
    <1>. DEFINE to == IF loading[t] = Opening("/login") THEN "login" ELSE "error"
    <1>1. to \in Paths \cup Pages
      BY DEF Pages
    <1>2. Follow(t, to)
      BY DEF PageFails
    <1>. QED  BY <1>1, <1>2, FollowKeeps DEF PageFails

LEMMA CallSent ==
    ASSUME NEW call, NEW row, CallHolds(call, row), call.stage = "sent"
    PROVE  CookieHolds(call.cookie, row)
    BY DEF CallHolds, None

LEMMA CallAnswered ==
    ASSUME NEW call, NEW row, CallHolds(call, row), call.stage = "answered"
    PROVE  /\ call.to \in {"stay", "/login"}
           /\ \/ call.sets = <<>>
              \/ \E c \in Sessions \cup {NoCookie} : call.sets = <<c>> /\ CookieHolds(c, row)
           /\ call.kind = "logout" /\ call.cookie \in Sessions => row[call.cookie].state = "gone"
    BY DEF CallHolds, None

LEMMA RenewedHolds ==
    ASSUME NEW c, CookieHolds(c, rows)
    PROVE  \/ Renewed(c) = <<>>
           \/ \E d \in Sessions \cup {NoCookie} : Renewed(c) = <<d>> /\ CookieHolds(d, rows)
    BY DEF Renewed, Live

LEMMA ActivityKeeps ==
    ASSUME BrowserInv, NEW t \in Tabs, ServeActivity(t)
    PROVE  BrowserInv'
    <1>. DEFINE c == fetching[t].cookie
                call == [stage |-> "answered", kind |-> fetching[t].kind, cookie |-> c,
                         sets |-> Renewed(c), to |-> "stay"]
    <1>1. /\ CallHolds(fetching[t], rows) /\ fetching[t].stage = "sent"
          /\ fetching[t].kind = "activity"
      BY DEF BrowserInv, CallsInv, ServeActivity, Arrived
    <1>2. CookieHolds(c, rows)
      BY <1>1, CallSent
    <1>3. \/ Renewed(c) = <<>>
          \/ \E d \in Sessions \cup {NoCookie} : Renewed(c) = <<d>> /\ CookieHolds(d, rows)
      BY <1>2, RenewedHolds
    <1>4. CallHolds(call, rows)
      BY <1>1, <1>2, <1>3 DEF CallHolds
    <1>5. fetching' = [fetching EXCEPT ![t] = call]
      BY DEF ServeActivity, Answer
    <1>. QED  BY <1>4, <1>5, FetchingKeeps DEF ServeActivity

LEMMA ApiKeeps ==
    ASSUME BrowserInv, NEW t \in Tabs, ServeApi(t)
    PROVE  BrowserInv'
    <1>. DEFINE c == fetching[t].cookie
                to == IF CurrentRole(c) = "none" THEN "/login" ELSE "stay"
                call == [stage |-> "answered", kind |-> fetching[t].kind, cookie |-> c,
                         sets |-> Renewed(c), to |-> to]
    <1>1. /\ CallHolds(fetching[t], rows) /\ fetching[t].stage = "sent"
          /\ fetching[t].kind = "api"
      BY DEF BrowserInv, CallsInv, ServeApi, Arrived
    <1>2. CookieHolds(c, rows)
      BY <1>1, CallSent
    <1>3. \/ Renewed(c) = <<>>
          \/ \E d \in Sessions \cup {NoCookie} : Renewed(c) = <<d>> /\ CookieHolds(d, rows)
      BY <1>2, RenewedHolds
    <1>4. CallHolds(call, rows)
      BY <1>1, <1>2, <1>3 DEF CallHolds
    <1>5. fetching' = [fetching EXCEPT ![t] = call]
      BY DEF ServeApi, Answer
    <1>. QED  BY <1>4, <1>5, FetchingKeeps DEF ServeApi

\* The row is gone before its sign-out is answered.
LEMMA LogOutKeeps ==
    ASSUME BrowserInv, NEW t \in Tabs, LogOut(t)
    PROVE  BrowserInv'
    <1>. DEFINE c == fetching[t].cookie
                call == [stage |-> "answered", kind |-> fetching[t].kind, cookie |-> c,
                         sets |-> <<NoCookie>>, to |-> "/login"]
    <1>. USE SignInAssumption
    <1>1. CallHolds(fetching[t], rows) /\ fetching[t].stage = "sent"
      BY DEF BrowserInv, CallsInv, LogOut, Arrived
    <1>2. CookieHolds(c, rows)
      BY <1>1, CallSent
    <1>3. rows \in [Sessions -> RowSet]
      BY RowsTyped
    <1>4. /\ RowsGoOn(rows, rows')
          /\ c \in Sessions => rows'[c].state = "gone"
          /\ rows' \in [Sessions -> {NoRow} \cup
                     [state : {"live", "gone"}, user : Accounts, role : Roles]]
      <2>1. CASE Live(c)
        <3>1. rows' = [rows EXCEPT ![c].state = "gone"] /\ c \in Sessions
          BY <2>1 DEF LogOut, Live
        <3>2. rows[c] \in [state : {"live", "gone"}, user : Accounts, role : Roles]
          BY <3>1, <1>2, <1>3 DEF RowSet, CookieHolds
        <3>3. /\ rows'[c] = [rows[c] EXCEPT !.state = "gone"]
              /\ \A o \in Sessions : o # c => rows'[o] = rows[o]
          BY <3>1, <1>3
        <3>4. /\ rows'[c] \in [state : {"live", "gone"}, user : Accounts, role : Roles]
              /\ rows'[c].state = "gone" /\ rows'[c].role = rows[c].role
          BY <3>2, <3>3
        <3>5. rows'[c] # NoRow
          BY <3>4 DEF NoRow
        <3>6. RowsGoOn(rows, rows')
          BY <3>3, <3>4, <3>5 DEF RowsGoOn
        <3>7. rows' \in [Sessions -> {NoRow} \cup
                       [state : {"live", "gone"}, user : Accounts, role : Roles]]
          BY <3>1, <3>3, <3>4, <1>3 DEF RowSet
        <3>. QED  BY <3>4, <3>6, <3>7
      <2>2. CASE ~Live(c)
        <3>1. rows' = rows
          BY <2>2 DEF LogOut
        <3>2. RowsGoOn(rows, rows')
          BY <3>1, RowsStand
        <3>3. c \in Sessions => rows'[c].state = "gone"
          BY <3>1, <1>2, <1>3, <2>2 DEF Live, CookieHolds, RowSet
        <3>4. rows' \in [Sessions -> {NoRow} \cup
                       [state : {"live", "gone"}, user : Accounts, role : Roles]]
          BY <3>1 DEF BrowserInv, SignInTypeOK
        <3>. QED  BY <3>2, <3>3, <3>4
      <2>. QED  BY <2>1, <2>2
    <1>5. CookieHolds(c, rows') /\ CookieHolds(NoCookie, rows')
      BY <1>2, <1>4, CookieGoesOn DEF CookieHolds
    <1>6. CallHolds(call, rows')
      BY <1>4, <1>5 DEF CallHolds
    <1>7. fetching' = [fetching EXCEPT ![t] = call]
      BY DEF LogOut, Answer
    <1>8. PagesInv' /\ CallsInv' /\ CookieInv'
      BY <1>4, <1>6, <1>7, PagesStand, CallsKept, CookieStands DEF LogOut
    <1>9. SignInTypeOK'
      BY <1>4 DEF LogOut, BrowserInv, SignInTypeOK
    <1>. QED  BY <1>8, <1>9 DEF BrowserInv

\* The cookie an answer sets is a session somebody started, or none: no flow.
LEMMA ReceiveKeeps ==
    ASSUME BrowserInv, NEW t \in Tabs, ReceiveFetch(t)
    PROVE  BrowserInv'
    <1>. DEFINE answer == fetching[t]
    <1>. USE SignInAssumption
    <1>1. CallHolds(answer, rows) /\ answer.stage = "answered"
      BY DEF BrowserInv, CallsInv, ReceiveFetch
    <1>2. /\ answer.to \in {"stay", "/login"}
          /\ \/ answer.sets = <<>>
             \/ \E c \in Sessions \cup {NoCookie} : answer.sets = <<c>> /\ CookieHolds(c, rows)
      BY <1>1, CallAnswered
    <1>3. RowsGoOn(rows, rows') /\ rows' = rows /\ flows' = flows
      BY RowsStand DEF ReceiveFetch
    <1>4. CookieInv'
      <2>1. CASE answer.sets = <<>>
        BY <2>1, <1>3, CookieStands DEF ReceiveFetch
      <2>2. CASE answer.sets # <<>>
        <3>1. PICK c \in Sessions \cup {NoCookie} : answer.sets = <<c>> /\ CookieHolds(c, rows)
          BY <2>2, <1>2
        <3>2. cookie' = c
          BY <2>2, <3>1 DEF ReceiveFetch
        <3>. QED  BY <1>3, <3>1, <3>2 DEF CookieInv, FlowsAreSpent
      <2>. QED  BY <2>1, <2>2
    <1>5. PagesInv'
      <2>1. CASE answer.to \in Paths
        <3>1. PageHolds(Opening(answer.to), rows')
          BY <2>1 DEF PageHolds
        <3>. QED  BY <2>1, <3>1, <1>3, PagesKept DEF ReceiveFetch
      <2>2. CASE answer.to \notin Paths
        BY <2>2, <1>3, PagesStand DEF ReceiveFetch
      <2>. QED  BY <2>1, <2>2
    <1>6. CallsInv'
      <2>1. CallHolds(None, rows')
        BY DEF CallHolds
      <2>. QED  BY <2>1, <1>3, CallsKept DEF ReceiveFetch
    <1>7. SignInTypeOK'
      BY <1>4, TypesKept DEF ReceiveFetch, BrowserInv, SignInTypeOK, TabSet, FlowSet
    <1>. QED  BY <1>4, <1>5, <1>6, <1>7 DEF BrowserInv

LEMMA FetchFailsKeeps ==
    ASSUME BrowserInv, NEW t \in Tabs, FetchFails(t)
    PROVE  BrowserInv'
    <1>1. CallHolds(None, rows)
      BY DEF CallHolds
    <1>. QED  BY <1>1, FetchingKeeps DEF FetchFails

LEMMA RowExpiresKeeps ==
    ASSUME BrowserInv, NEW s \in Sessions, RowExpires(s)
    PROVE  BrowserInv'
    <1>1. rows \in [Sessions -> RowSet] /\ rows[s].state = "live"
      BY RowsTyped DEF RowExpires, Live
    <1>2. rows[s] \in [state : {"live", "gone"}, user : Accounts, role : Roles]
      BY <1>1 DEF RowSet, NoRow
    <1>3. rows' = [rows EXCEPT ![s].state = "gone"]
      BY DEF RowExpires
    <1>4. /\ rows'[s] = [rows[s] EXCEPT !.state = "gone"]
          /\ \A o \in Sessions : o # s => rows'[o] = rows[o]
      BY <1>1, <1>3
    <1>5. /\ rows'[s] \in [state : {"live", "gone"}, user : Accounts, role : Roles]
          /\ rows'[s].state = "gone" /\ rows'[s].role = rows[s].role
      BY <1>2, <1>4
    <1>6. rows'[s] # NoRow
      BY <1>5 DEF NoRow
    <1>7. RowsGoOn(rows, rows')
      BY <1>4, <1>5, <1>6 DEF RowsGoOn
    <1>8. rows' \in [Sessions -> {NoRow} \cup
                   [state : {"live", "gone"}, user : Accounts, role : Roles]]
      BY <1>1, <1>3, <1>4, <1>5 DEF RowSet
    <1>9. PagesInv' /\ CallsInv' /\ CookieInv'
      BY <1>7, PagesStand, CallsStand, CookieStands DEF RowExpires
    <1>10. SignInTypeOK'
      BY <1>8 DEF RowExpires, BrowserInv, SignInTypeOK
    <1>. QED  BY <1>9, <1>10 DEF BrowserInv

LEMMA CookieExpiresKeeps ==
    ASSUME BrowserInv, CookieExpires
    PROVE  BrowserInv'
    <1>1. RowsGoOn(rows, rows')
      BY RowsStand DEF CookieExpires
    <1>2. PagesInv' /\ CallsInv'
      BY <1>1, PagesStand, CallsStand DEF CookieExpires
    <1>3. CookieInv'
      BY SignInAssumption DEF CookieExpires, CookieInv, FlowsAreSpent, CookieHolds
    <1>4. SignInTypeOK'
      BY DEF CookieExpires, BrowserInv, SignInTypeOK
    <1>. QED  BY <1>2, <1>3, <1>4 DEF BrowserInv

LEMMA AccessKeeps ==
    ASSUME BrowserInv, NEW u \in Accounts, NEW role \in Roles \cup {"none"}, ChangeAccess(u, role)
    PROVE  BrowserInv'
    <1>1. RowsGoOn(rows, rows')
      BY RowsStand DEF ChangeAccess
    <1>2. PagesInv' /\ CallsInv' /\ CookieInv'
      BY <1>1, PagesStand, CallsStand, CookieStands DEF ChangeAccess
    <1>3. SignInTypeOK'
      BY DEF ChangeAccess, BrowserInv, SignInTypeOK
    <1>. QED  BY <1>2, <1>3 DEF BrowserInv

LEMMA BrowserStarts ==
    ASSUME SignInInit
    PROVE  BrowserInv
    <1>. USE SignInAssumption
    <1>1. SignInTypeOK
      BY DEF SignInInit, SignInTypeOK, Pages
    <1>2. CookieInv
      BY DEF SignInInit, CookieInv, FlowsAreSpent, CookieHolds
    <1>3. PagesInv
      BY DEF SignInInit, PagesInv, PageHolds
    <1>4. CallsInv
      BY DEF SignInInit, CallsInv, CallHolds
    <1>. QED  BY <1>1, <1>2, <1>3, <1>4 DEF BrowserInv

LEMMA BrowserGoesOn ==
    ASSUME BrowserInv, [SignInNext]_signInVars
    PROVE  BrowserInv'
    <1>1. ASSUME NEW t \in Tabs, Person(t)
          PROVE  BrowserInv'
      <2>1. ASSUME NEW path \in Entrances, Visit(t, path)
            PROVE  BrowserInv'
        BY <2>1, SignInAssumption, VisitKeeps DEF Paths
      <2>. QED  BY <1>1, <2>1, PressKeeps, LeaveKeeps, BackKeeps, FetchKeeps DEF Person
    <1>2. ASSUME NEW t \in Tabs, Page(t)
          PROVE  BrowserInv'
      BY <1>2, ServePageKeeps, StartKeeps, CallbackKeeps, ExchangeKeeps, CompleteKeeps,
         WelcomeKeeps, PageFailsKeeps DEF Page
    <1>3. ASSUME NEW t \in Tabs, Call(t)
          PROVE  BrowserInv'
      BY <1>3, ActivityKeeps, ApiKeeps, LogOutKeeps, FetchFailsKeeps DEF Call
    <1>4. CASE UNCHANGED signInVars
      BY <1>4 DEF signInVars, BrowserInv, SignInTypeOK, CookieInv, FlowsAreSpent, PagesInv, CallsInv
    <1>5. CASE World
      BY <1>5, RowExpiresKeeps, CookieExpiresKeeps, AccessKeeps DEF World
    <1>. QED  BY <1>1, <1>2, <1>3, <1>4, <1>5, ReceiveKeeps DEF SignInNext

\* In every state of the browser and the backend behind it, what is under way
\* in the tabs fits the rows there are (google-sign-in.service.ts,
\* google-auth.controller.ts, session.server.ts).
THEOREM BrowserConsistent == SignInSpec => []BrowserInv
    <1>1. SignInInit => BrowserInv
      BY BrowserStarts
    <1>2. BrowserInv /\ [SignInNext]_signInVars => BrowserInv'
      BY BrowserGoesOn
    <1>. QED  BY <1>1, <1>2, PTL DEF SignInSpec

\* What a tab was told is gone is gone.
ToldInv == \A s \in told : s \in Sessions /\ rows[s].state = "gone"

\* No row comes back: a session id is used once.
LEMMA GoneStaysGone ==
    ASSUME BrowserInv, [SignInNext]_signInVars, NEW s \in Sessions, rows[s].state = "gone"
    PROVE  rows'[s].state = "gone"
    <1>1. rows \in [Sessions -> RowSet]
      BY RowsTyped
    <1>2. ASSUME NEW t \in Tabs, Person(t) \/ (Page(t) /\ ~CompleteSignIn(t)) \/ ReceiveFetch(t)
          PROVE  rows' = rows
      BY <1>2 DEF Person, Page, Visit, PressSignIn, LeaveGoogle, BackToGoogle, Fetch, ServePage,
         ServeStart, ServeCallback, ExchangeCode, RefuseCallback, VerifyIdToken, ReceiveWelcome,
         PageFails, ReceiveFetch
    <1>3. ASSUME NEW t \in Tabs, CompleteSignIn(t)
          PROVE  rows'[s].state = "gone"
      <2>1. \/ rows' = rows
            \/ \E o \in Sessions : \E row : rows[o] = NoRow /\ rows' = [rows EXCEPT ![o] = row]
        BY <1>3 DEF CompleteSignIn, RefuseCallback
      <2>2. rows[s] # NoRow
        BY DEF NoRow
      <2>. QED  BY <1>1, <2>1, <2>2
    <1>4. ASSUME NEW o \in Sessions, rows' = [rows EXCEPT ![o].state = "gone"]
          PROVE  rows'[s].state = "gone"
      <2>1. CASE o = s
        <3>1. rows'[s] = [rows[s] EXCEPT !.state = "gone"]
          BY <1>1, <1>4, <2>1
        <3>2. rows[s] \in [state : {"live", "gone"}, user : Accounts, role : Roles]
          BY <1>1 DEF RowSet, NoRow
        <3>. QED  BY <3>1, <3>2
      <2>2. CASE o # s
        BY <1>1, <1>4, <2>2
      <2>. QED  BY <2>1, <2>2
    <1>5. ASSUME NEW t \in Tabs, Call(t)
          PROVE  rows'[s].state = "gone"
      <2>1. CASE LogOut(t)
        BY <1>4, <2>1 DEF LogOut, Live
      <2>2. CASE ~LogOut(t)
        <3>1. rows' = rows
          BY <1>5, <2>2 DEF Call, ServeActivity, ServeApi, FetchFails
        <3>. QED  BY <3>1
      <2>. QED  BY <2>1, <2>2
    <1>6. CASE World
      <2>1. ASSUME NEW o \in Sessions, RowExpires(o)
            PROVE  rows'[s].state = "gone"
        BY <1>4, <2>1 DEF RowExpires
      <2>2. CASE CookieExpires \/ \E u \in Accounts, role \in Roles \cup {"none"} : ChangeAccess(u, role)
        <3>1. rows' = rows
          BY <2>2 DEF CookieExpires, ChangeAccess
        <3>. QED  BY <3>1
      <2>. QED  BY <1>6, <2>1, <2>2 DEF World
    <1>7. CASE UNCHANGED signInVars
      BY <1>7 DEF signInVars
    <1>. QED  BY <1>2, <1>3, <1>5, <1>6, <1>7 DEF SignInNext

\* A tab is told only of a session that is gone.
LEMMA ToldGoesOn ==
    ASSUME BrowserInv, ToldInv, [SignInNext]_signInVars
    PROVE  ToldInv'
    <1>1. ASSUME NEW s \in told'
          PROVE  s \in Sessions /\ rows[s].state = "gone"
      <2>1. CASE s \in told
        BY <2>1 DEF ToldInv
      <2>2. CASE s \notin told
        <3>1. PICK t \in Tabs : ReceiveFetch(t)
          BY <1>1, <2>2 DEF SignInNext, signInVars
        <3>2. /\ fetching[t].kind = "logout" /\ fetching[t].stage = "answered"
              /\ s = fetching[t].cookie /\ s \in Sessions
          BY <1>1, <2>2, <3>1 DEF ReceiveFetch
        <3>3. CallHolds(fetching[t], rows)
          BY DEF BrowserInv, CallsInv
        <3>. QED  BY <3>2, <3>3, CallAnswered
      <2>. QED  BY <2>1, <2>2
    <1>. QED  BY <1>1, GoneStaysGone DEF ToldInv

LEMMA SignOutsStay ==
    ASSUME BrowserInv, ToldInv
    PROVE  SignOutsAreKept
    <1>1. ASSUME NEW t \in Tabs, Fetching(t), fetching[t].kind = "logout",
                 fetching[t].stage = "answered", Live(fetching[t].cookie)
          PROVE  FALSE
      <2>1. CallHolds(fetching[t], rows)
        BY DEF BrowserInv, CallsInv
      <2>2. fetching[t].cookie \in Sessions => rows[fetching[t].cookie].state = "gone"
        BY <1>1, <2>1, CallAnswered
      <2>. QED  BY <1>1, <2>2 DEF Live
    <1>2. \A s \in told : ~Live(s)
      BY DEF ToldInv, Live
    <1>. QED  BY <1>1, <1>2 DEF SignOutsAreKept

\* However many tabs sign in and out at once, for every number of tabs,
\* accounts, flows and sessions: the browser's one cookie never holds a flow
\* that was already answered, and whoever was told to be signed out is, and
\* stays so (google-auth.controller.ts, callback; session.service.ts, logout).
THEOREM CookieTrue == SignInSpec => []CookieTellsTheTruth
    <1>1. SignInInit => ToldInv
      BY DEF SignInInit, ToldInv
    <1>2. BrowserInv /\ ToldInv /\ [SignInNext]_signInVars => ToldInv'
      BY ToldGoesOn
    <1>3. BrowserInv /\ ToldInv => CookieTellsTheTruth
      BY SignOutsStay DEF BrowserInv, CookieInv, CookieTellsTheTruth
    <1>. QED  BY <1>1, <1>2, <1>3, BrowserConsistent, PTL DEF SignInSpec

\* A sign-in that succeeds leaves the browser with the session it started and
\* takes the tab to that session's home, whatever other tabs did meanwhile
\* (flow-cookie.ts, google-sign-in.service.ts).
THEOREM SignInLands == SignInSpec => LandsWhereSignedIn
    <1>. DEFINE Lands == \A t \in Tabs :
                  ReceiveWelcome(t) =>
                      cookie' \in Sessions /\ loading'[t] = Opening(HomeFor[rows[cookie'].role])
    <1>1. ASSUME BrowserInv, NEW t \in Tabs, ReceiveWelcome(t)
          PROVE  /\ cookie' \in Sessions
                 /\ loading'[t] = Opening(HomeFor[rows[cookie'].role])
      <2>1. /\ cookie' \in Sessions /\ loading[t].to \in Paths
            /\ loading[t].to = HomeFor[rows[cookie'].role]
        BY <1>1, WelcomeLands
      <2>2. loading' = [loading EXCEPT ![t] = Opening(loading[t].to)]
        BY <1>1, <2>1 DEF ReceiveWelcome, Follow
      <2>. QED  BY <1>1, <2>1, <2>2 DEF BrowserInv, PagesInv
    <1>2. BrowserInv => [Lands]_signInVars
      BY <1>1
    <1>. QED  BY <1>2, BrowserConsistent, PTL DEF LandsWhereSignedIn
=============================================================================
