---------------------------- MODULE CreatorAccess ----------------------------
(***************************************************************************)
(* Who may use the system, as the whitelist answers it: the user's row is  *)
(* read, then the clock, then, for a creator whose revocation day has      *)
(* come, the invoices of the contracts that have begun.  A creator who is  *)
(* let in may move an invoice of theirs one step; others change the rows   *)
(* between any two of these statements, and midnight in Jakarta comes when *)
(* it does.                                                                *)
(*                                                                         *)
(* Moments are ticks of a clock that counts DayLength ticks to a day and   *)
(* runs Ahead ticks behind Jakarta's.                                      *)
(***************************************************************************)
EXTENDS InvoiceLifecycle, Integers

CONSTANTS
    Users,          \* ids a request may name
    Kind,           \* what the users table holds for each id
    Contracts,
    Owner,          \* the user whose creator profile has each contract
    StartDay,       \* the first day of each contract
    EndDay,         \* the last day each contract was signed for
    Requests,       \* slots for requests in flight
    Never,          \* no revocation day
    RevokeDays,     \* the days the operators may write
    DayLength, Ahead,
    LastMoment      \* bound: the last moment the clock shows

Kinds == {"absent", "admin", "creator", "bare"}     \* bare: no creator profile

ASSUME AccessAssumption ==
    /\ Kind \in [Users -> Kinds]
    /\ Owner \in [Contracts -> Users]
    /\ StartDay \in [Contracts -> Int]
    /\ EndDay \in [Contracts -> Int]
    /\ RevokeDays \subseteq Int
    /\ Never \notin Int
    /\ DayLength \in Nat \ {0}
    /\ Ahead \in Nat
    /\ LastMoment \in Nat

VARIABLES
    now,        \* the moment
    revokeDay,  \* the day each creator's access is revoked from
    invoices,   \* the invoice of each contract
    requests    \* the requests in flight

vars == <<now, revokeDay, invoices, requests>>

-----------------------------------------------------------------------------
(* Days.                                                                   *)

JakartaDay(moment) == (moment + Ahead) \div DayLength

Today == JakartaDay(now)

Moments == 0 .. LastMoment

-----------------------------------------------------------------------------
(* The rule.                                                               *)

InvoiceRows ==
    [status : RowStatuses \ {"paid"}, paidAt : {-1}]
        \cup [status : {"paid"}, paidAt : Moments]

\* A contract without a row counts as settled.
Unsettled_RowsOnly(invoice, today) ==
    \/ invoice.status \notin {"paid", "absent"}
    \/ invoice.status = "paid" /\ JakartaDay(invoice.paidAt) >= today

Unsettled(invoice, today) ==
    \/ invoice.status # "paid"
    \/ JakartaDay(invoice.paidAt) >= today

Revoked(day, today) == day # Never /\ day <= today

CreatorMaySignIn(day, today, begun) ==
    ~Revoked(day, today) \/ \E c \in begun : Unsettled(invoices[c], today)

BegunInvoices(u, today) ==
    {c \in Contracts : Owner[c] = u /\ StartDay[c] <= today}

\* A revocation ends a contract early.
ContractLastDay(c) ==
    LET revoked == revokeDay[Owner[c]] IN
    IF revoked # Never /\ revoked < EndDay[c] THEN revoked ELSE EndDay[c]

-----------------------------------------------------------------------------
(* What the rule is for: the day from which on a user has no access.       *)

PaymentDays(u) ==
    {JakartaDay(invoices[c].paidAt) : c \in BegunInvoices(u, Today)}

\* Past the revocation day, and past the day of every payment.
HasAccessBy(u, revoked) ==
    \/ Kind[u] = "admin"
    \/ /\ Kind[u] = "creator"
       /\ \/ revoked = Never
          \/ \E c \in BegunInvoices(u, Today) : invoices[c].status # "paid"
          \/ \E day \in PaymentDays(u) \cup {revoked - 1} : Today <= day

HasAccess(u) == HasAccessBy(u, revokeDay[u])

-----------------------------------------------------------------------------
(* Requests.                                                               *)

\* since: the day the request came.  held: the revocation days its user's row
\* held while the request was asking; truths: what access they gave at the
\* moments since.  Both are there for the property.
Idle == [phase |-> "idle"]

Asking == {"asked", "found", "revoked"}

Open(r) == requests[r].phase # "idle"

\* A request is done with the whitelist; of what was true meanwhile only what it
\* was answered is kept.
Answered(r, ok) ==
    [requests[r] EXCEPT !.phase = IF ok THEN "admitted" ELSE "refused",
                        !.day = Never, !.today = requests[r].since, !.held = {},
                        !.truths = @ \cap {ok}]

Ask(r, u) ==
    /\ ~Open(r)
    /\ requests' = [requests EXCEPT ![r] =
                      [phase |-> "asked", user |-> u, since |-> Today,
                       day |-> Never, today |-> Today, at |-> 0,
                       held |-> {revokeDay[u]}, truths |-> {HasAccess(u)}]]
    /\ UNCHANGED <<now, revokeDay, invoices>>

ReadUser(r) ==
    LET q == requests[r] IN
    /\ q.phase = "asked"
    /\ requests' = [requests EXCEPT ![r] =
         IF Kind[q.user] = "creator"
         THEN [q EXCEPT !.phase = "found", !.day = revokeDay[q.user]]
         ELSE Answered(r, Kind[q.user] = "admin")]
    /\ UNCHANGED <<now, revokeDay, invoices>>

ReadClock(r) ==
    LET q == requests[r] IN
    /\ q.phase = "found"
    /\ requests' = [requests EXCEPT ![r] =
         IF Revoked(q.day, Today)
         THEN [q EXCEPT !.phase = "revoked", !.today = Today]
         ELSE Answered(r, TRUE)]
    /\ UNCHANGED <<now, revokeDay, invoices>>

ReadInvoices(r) ==
    LET q == requests[r] IN
    /\ q.phase = "revoked"
    /\ requests' = [requests EXCEPT ![r] =
         Answered(r, CreatorMaySignIn(q.day, q.today,
                                      BegunInvoices(q.user, q.today)))]
    /\ UNCHANGED <<now, revokeDay, invoices>>

\* The handler takes the time before it reads anything.
StartMove(r) ==
    LET q == requests[r] IN
    /\ q.phase = "admitted"
    /\ Kind[q.user] = "creator"
    /\ requests' = [requests EXCEPT ![r] = [q EXCEPT !.phase = "moving", !.at = now]]
    /\ UNCHANGED <<now, revokeDay, invoices>>

\* The request is over, answered or failed.
Done(r) ==
    /\ Open(r)
    /\ requests' = [requests EXCEPT ![r] = Idle]
    /\ UNCHANGED <<now, revokeDay, invoices>>

-----------------------------------------------------------------------------
(* What changes under the requests.                                        *)

\* The revocation day the row holds now is seen, and what access that day and
\* the earlier ones give: a pair of a user and a day is `welcome` if that day
\* lets that user in.
Seen(q, welcome) ==
    LET held == q.held \cup {revokeDay'[q.user]} IN
    [q EXCEPT !.held   = held,
              !.truths = @ \cup {ok \in BOOLEAN :
                                   \E day \in held : ok <=> <<q.user, day>> \in welcome}]

\* Every request still asking sees that; a request in `done` is over.
Witness(done) ==
    LET welcome == {p \in Users \X (RevokeDays \cup {Never}) : HasAccessBy(p[1], p[2])'} IN
    requests' = [r \in Requests |->
        CASE r \in done                                       -> Idle
          [] r \notin done /\ requests[r].phase \in Asking     -> Seen(requests[r], welcome)
          [] r \notin done /\ requests[r].phase \notin Asking  -> requests[r]]

\* What a move leaves in the row; only the last one dates the payment.
Moved(c, m, at) ==
    [invoices EXCEPT ![c] =
        [status |-> To[m], paidAt |-> IF To[m] = "paid" THEN at ELSE invoices[c].paidAt]]

\* The admin's moves.  A contract is over before its invoice is finalized, but
\* a revocation ends also one that has not begun.
AdminMove(c, m) ==
    /\ m \notin CreatorMoves
    /\ AssertCan(m, invoices[c].status)
    /\ m = "finalize" => ContractLastDay(c) < Today
    /\ invoices' = Moved(c, m, now)
    /\ UNCHANGED <<now, revokeDay>>
    /\ Witness({})

\* Checked on the status that was read, then written without it.
CreatorMove_Unguarded(r, c, m) ==
    /\ requests[r].phase = "moving"
    /\ Owner[c] = requests[r].user
    /\ m \in CreatorMoves
    /\ invoices[c].status \in {From[m], To[m]}
    /\ invoices' = Moved(c, m, requests[r].at)
    /\ UNCHANGED <<now, revokeDay>>
    /\ Witness({r})

\* The read before the guarded UPDATE only chooses the refusal, so the UPDATE
\* is the whole move.
CreatorMove(r, c, m) ==
    /\ requests[r].phase = "moving"
    /\ Owner[c] = requests[r].user
    /\ m \in CreatorMoves
    /\ AssertCan(m, invoices[c].status)
    /\ invoices' = Moved(c, m, requests[r].at)
    /\ UNCHANGED <<now, revokeDay>>
    /\ Witness({r})

\* Operators write the day by hand.
Revoke(u, day) ==
    /\ Kind[u] = "creator"
    /\ revokeDay' = [revokeDay EXCEPT ![u] = day]
    /\ UNCHANGED <<now, invoices>>
    /\ Witness({})

\* No request is under way for more than a day: one midnight at most.
Tick ==
    /\ now < LastMoment
    /\ \A r \in Requests : Open(r) => JakartaDay(now + 1) <= requests[r].since + 1
    /\ now' = now + 1
    /\ UNCHANGED <<revokeDay, invoices>>
    /\ Witness({})

-----------------------------------------------------------------------------

Init ==
    /\ now = 0
    /\ revokeDay \in [Users -> RevokeDays \cup {Never}]
    /\ \A u \in Users : Kind[u] # "creator" => revokeDay[u] = Never
    /\ invoices = [c \in Contracts |-> [status |-> "absent", paidAt |-> -1]]
    /\ requests = [r \in Requests |-> Idle]

Next ==
    \/ \E r \in Requests :
         \/ \E u \in Users : Ask(r, u)
         \/ ReadUser(r) \/ ReadClock(r) \/ ReadInvoices(r) \/ StartMove(r) \/ Done(r)
         \/ \E c \in Contracts, m \in Moves : CreatorMove(r, c, m)
    \/ \E c \in Contracts, m \in Moves : AdminMove(c, m)
    \/ \E u \in Users, day \in RevokeDays \cup {Never} : Revoke(u, day)
    \/ Tick

Spec == Init /\ [][Next]_vars

-----------------------------------------------------------------------------
(* Properties.                                                             *)

\* Rows and requests keep their shape; a payment has a moment exactly when the
\* invoice is paid (the check on invoices.paid_at, creator-access.ts).
TypeOK ==
    /\ now \in Moments
    /\ revokeDay \in [Users -> RevokeDays \cup {Never}]
    /\ invoices \in [Contracts -> InvoiceRows]
    /\ \A r \in Requests :
         Open(r) => /\ requests[r].phase \in Asking \cup {"admitted", "moving", "refused"}
                    /\ requests[r].user \in Users
                    /\ requests[r].truths \in SUBSET BOOLEAN

\* The whitelist's answer, put together from a row, a clock and invoices that
\* are read one after the other, was right at some moment of the request, for a
\* revocation day the row had held by then.  While no operator writes the day,
\* nobody is refused who had access all along, such as a revoked creator with
\* an invoice to settle (prisma-whitelist-resolver.ts).
AnswersWereTrue ==
    \A r \in Requests :
        /\ requests[r].phase \in {"admitted", "moving"} => TRUE \in requests[r].truths
        /\ requests[r].phase = "refused" => FALSE \in requests[r].truths

\* Once a revoked creator's access has ended it stays so: only a new day on
\* which a contract begins, or an operator, brings it back ("akses login
\* dicabut H+1 setelah Paid", creator-access.ts).
AccessEndsForGood ==
    [][\A u \in Users :
         /\ ~HasAccess(u) /\ HasAccess(u)'
         => \/ revokeDay'[u] # revokeDay[u]
            \/ \E c \in Contracts : Owner[c] = u /\ StartDay[c] \in (Today + 1) .. Today']_vars

\* Nobody is locked out in the middle of a day: access ends at midnight, by an
\* operator, or with a payment whose request came to its handler on an earlier
\* day, for the row is stamped with that moment (invoice-confirmation.service.ts).
AccessEndsAtMidnight ==
    [][\A u \in Users :
         HasAccess(u) /\ ~HasAccess(u)'
         => \/ Today' # Today
            \/ revokeDay'[u] # revokeDay[u]
            \/ \E r \in Requests, c \in Contracts, m \in CreatorMoves :
                  /\ CreatorMove(r, c, m) /\ Owner[c] = u
                  /\ JakartaDay(requests[r].at) < Today]_vars

\* A creator's move on a contract that has begun is only ever made by a creator
\* who has access at that very moment, though the guard asked earlier and the
\* revocation day may be written in between (invoice-confirmation.service.ts).
MovesAreMadeWithAccess ==
    [][\A r \in Requests, c \in Contracts, m \in CreatorMoves :
         CreatorMove(r, c, m) /\ StartDay[c] <= Today => HasAccess(requests[r].user)]_vars

\* Access lasts as long as a begun contract has a move to make, ends at
\* midnight, and ends once.
AccessLastsAndEnds ==
    /\ MovesAreMadeWithAccess
    /\ AccessEndsAtMidnight
    /\ AccessEndsForGood
=============================================================================
