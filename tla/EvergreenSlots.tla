--------------------------- MODULE EvergreenSlots ---------------------------
(***************************************************************************)
(* The server's two ways to put contents on a schedule: onboarding, which  *)
(* writes a login, its contract and all of its Evergreen contents in one   *)
(* nested statement, and adding one content under the row lock of its      *)
(* contract, statement by statement.                                       *)
(*                                                                         *)
(* A request is checked when it arrives, works on the database, and keeps  *)
(* its answer until the browser has it.  Names are not kept, but for the   *)
(* number an Evergreen name carries.  Creators, logins and contracts are   *)
(* made together and are one row here.                                     *)
(***************************************************************************)
EXTENDS ContractSchedule, FiniteSets

CONSTANTS
    Contracts,      \* ids of contract rows
    ContentIds,     \* ids of content rows
    Requests,       \* slots for requests in flight
    Emails,         \* addresses, as users.email compares them
    NoEmail,
    Seeded,         \* the contracts older than this code, by id
    RawCreators,    \* bodies that reach the server without a form
    RawContents,
    LastDay         \* bound: the last day the clock reaches

Days == 0 .. LastDay

ContractRows ==
    [email : Emails, start : Int, end : Int, quota : 1 .. MaxQuota]

NoContract == [email |-> NoEmail, quota |-> 0]

\* number: the one an Evergreen name carries; 0 for a Specific content.
ContentRows ==
    [contract : Contracts, type : ContentTypes, deadline : Int,
     number : 0 .. MaxQuota]

NoContent == [type |-> "none"]

ASSUME BodiesAssumption ==
    /\ \A b \in RawCreators :
         /\ b.email \in Emails
         /\ b.start \in Int /\ b.end \in Int /\ b.quota \in Int
         /\ b.deadlines \in Seq(Int)
    /\ \A b \in RawContents :
         /\ b.contract \in Contracts /\ b.type \in ContentTypes
         /\ b.deadline \in Int

ASSUME SlotsAssumption ==
    /\ IsFiniteSet(ContentIds)
    /\ DOMAIN Seeded \subseteq Contracts
    /\ \A c \in DOMAIN Seeded : Seeded[c] \in ContractRows
    /\ \A c, d \in DOMAIN Seeded : Seeded[c].email = Seeded[d].email => c = d
    /\ NoEmail \notin Emails
    /\ LastDay \in Nat

VARIABLES
    contracts,      \* the contracts, with the login each was made for
    contents,       \* the contents on their schedules
    today,          \* the calendar day
    requests        \* the requests in flight

rowVars  == <<contracts, contents>>
slotVars == <<rowVars, today, requests>>

-----------------------------------------------------------------------------
(* Requests.                                                               *)

Idle == [kind |-> "none"]

Answer(ok, errors) == [ok |-> ok, errors |-> errors]
Saved  == Answer(TRUE, {})
Failed == Answer(FALSE, {})
Refused(errors) == Answer(FALSE, errors)

InPhase(r, kind, phase) ==
    /\ requests[r].kind = kind
    /\ requests[r].phase = phase

Reply(r, answer) ==
    requests' = [requests EXCEPT ![r] =
                   [kind |-> requests[r].kind, phase |-> "answered",
                    body |-> requests[r].body, answer |-> answer]]

\* A body arrives and is judged on the day it does.
Receive(r, kind, b, errors) ==
    /\ requests[r] = Idle
    /\ requests' = [requests EXCEPT ![r] =
                      IF errors = {}
                      THEN [kind |-> kind, phase |-> "checked", body |-> b]
                      ELSE [kind |-> kind, phase |-> "answered", body |-> b,
                            answer |-> Refused(errors)]]
    /\ UNCHANGED <<rowVars, today>>

\* An error before the commit: a lost connection, an admin who is gone, an
\* instance that stops.  Nothing is stored.
Fail(r) ==
    /\ requests[r] # Idle
    /\ requests[r].phase # "answered"
    /\ Reply(r, Failed)
    /\ UNCHANGED <<rowVars, today>>

\* The answer has reached whoever waited for it, or was lost on the way.
Forget(r) ==
    /\ requests[r] # Idle
    /\ requests[r].phase = "answered"
    /\ requests' = [requests EXCEPT ![r] = Idle]

-----------------------------------------------------------------------------
(* Onboarding.                                                             *)

EmailIsTaken(email) ==
    \E c \in Contracts : contracts[c].email = email

FreeIds == {x \in ContentIds : contents[x] = NoContent}

\* Injections only: two rows never get one id.
NewIds(n) == {f \in [1 .. n -> FreeIds] : \A i, j \in 1 .. n : f[i] = f[j] => i = j}

ReceiveCreator(r, b) ==
    LET errors == CheckNewCreator(b, today)
    IN  Receive(r, "creator", b,
                IF errors = {} THEN CheckSchedule(b, today) ELSE errors)

\* The contents of the nested write, numbered in the order of `days`.
Batch(c, days, ids) ==
    [x \in ContentIds |->
        IF \E i \in DOMAIN ids : ids[i] = x
        THEN LET i == CHOOSE i \in DOMAIN ids : ids[i] = x
             IN  [contract |-> c, type |-> "evergreen",
                  deadline |-> days[i], number |-> i]
        ELSE contents[x]]

\* A lookup before the insert, and no unique index behind it: here, none.
Onboard_NoUniqueEmail(r, c) ==
    LET b == requests[r].body IN
    /\ InPhase(r, "creator", "checked")
    /\ contracts[c] = NoContract
    /\ contracts' = [contracts EXCEPT ![c] =
                       [email |-> b.email, start |-> b.start,
                        end |-> b.end, quota |-> b.quota]]
    /\ \E ids \in NewIds(Len(b.deadlines)) :
         contents' = Batch(c, InOrder(b.deadlines), ids)
    /\ Reply(r, Saved)
    /\ UNCHANGED today

Onboard(r, c) ==
    LET b == requests[r].body IN
    /\ InPhase(r, "creator", "checked")
    /\ contracts[c] = NoContract
    /\ ~EmailIsTaken(b.email)
    /\ contracts' = [contracts EXCEPT ![c] =
                       [email |-> b.email, start |-> b.start,
                        end |-> b.end, quota |-> b.quota]]
    /\ \E ids \in NewIds(Len(b.deadlines)) :
         contents' = Batch(c, InOrder(b.deadlines), ids)
    /\ Reply(r, Saved)
    /\ UNCHANGED today

\* The unique index is the check.
RefuseTakenEmail(r) ==
    /\ InPhase(r, "creator", "checked")
    /\ EmailIsTaken(requests[r].body.email)
    /\ Reply(r, Refused({"email"}))
    /\ UNCHANGED <<rowVars, today>>

-----------------------------------------------------------------------------
(* One more content.                                                       *)

Evergreen(c) ==
    {x \in ContentIds : /\ contents[x].type = "evergreen"
                        /\ contents[x].contract = c}

ReceiveContent(r, b) == Receive(r, "content", b, CheckNewContent(b))

HoldsLock(r, c) ==
    /\ InPhase(r, "content", "locked")
    /\ requests[r].body.contract = c

\* A SELECT that does not lock.
LockContract_NoWait(r) ==
    LET b == requests[r].body
        c == b.contract
    IN
    /\ InPhase(r, "content", "checked")
    /\ contracts[c] # NoContract
    /\ requests' = [requests EXCEPT ![r] =
                      [kind |-> "content", phase |-> "locked", body |-> b,
                       scheduled |-> Cardinality(Evergreen(c))]]
    /\ UNCHANGED <<rowVars, today>>

\* SELECT ... FOR UPDATE, then the contract with the contents it has.
LockContract(r) ==
    LET b == requests[r].body
        c == b.contract
    IN
    /\ InPhase(r, "content", "checked")
    /\ contracts[c] # NoContract
    /\ \A q \in Requests : ~HoldsLock(q, c)
    /\ requests' = [requests EXCEPT ![r] =
                      [kind |-> "content", phase |-> "locked", body |-> b,
                       scheduled |-> Cardinality(Evergreen(c))]]
    /\ UNCHANGED <<rowVars, today>>

SlotErrors(r) ==
    LET b == requests[r].body
    IN  CheckEvergreenSlot(b.type, b.deadline, contracts[b.contract],
                           requests[r].scheduled, today)

RefuseContent(r) ==
    /\ InPhase(r, "content", "locked")
    /\ SlotErrors(r) # {}
    /\ Reply(r, Refused(SlotErrors(r)))
    /\ UNCHANGED <<rowVars, today>>

CreateContent(r, x) ==
    LET b == requests[r].body IN
    /\ InPhase(r, "content", "locked")
    /\ SlotErrors(r) = {}
    /\ x \in FreeIds
    /\ contents' = [contents EXCEPT ![x] =
                      [contract |-> b.contract, type |-> b.type,
                       deadline |-> b.deadline,
                       number |-> IF b.type = "evergreen"
                                  THEN requests[r].scheduled + 1 ELSE 0]]
    /\ Reply(r, Saved)
    /\ UNCHANGED <<contracts, today>>

-----------------------------------------------------------------------------

DayPasses ==
    /\ today < LastDay
    /\ today' = today + 1
    /\ UNCHANGED <<rowVars, requests>>

SlotInit ==
    /\ contracts = [c \in Contracts |->
                      IF c \in DOMAIN Seeded THEN Seeded[c] ELSE NoContract]
    /\ contents = [x \in ContentIds |-> NoContent]
    /\ today = 0
    /\ requests = [r \in Requests |-> Idle]

\* What the server does of itself with a request it has received.
Work(r) ==
    \/ \E c \in Contracts : Onboard(r, c)
    \/ RefuseTakenEmail(r)
    \/ LockContract(r)
    \/ RefuseContent(r)
    \/ \E x \in ContentIds : CreateContent(r, x)
    \/ Fail(r)

\* The server, whoever sends what.
SlotNext ==
    \/ \E r \in Requests :
         \/ \E b \in RawCreators : ReceiveCreator(r, b)
         \/ \E b \in RawContents : ReceiveContent(r, b)
         \/ Work(r)
         \/ Forget(r) /\ UNCHANGED <<rowVars, today>>
    \/ DayPasses

SlotSpec == SlotInit /\ [][SlotNext]_slotVars

-----------------------------------------------------------------------------
(* Properties.                                                             *)

\* Rows and requests keep their shape: a quota within its cap, a number no
\* larger than a quota can be (contents.service.ts, creator-onboarding).
TypeOK ==
    /\ contracts \in [Contracts -> ContractRows \cup {NoContract}]
    /\ contents \in [ContentIds -> ContentRows \cup {NoContent}]
    /\ today \in Days
    /\ \A r \in Requests :
         \/ requests[r] = Idle
         \/ /\ requests[r].kind = "creator"
            /\ requests[r].phase \in {"checked", "answered"}
         \/ /\ requests[r].kind = "content"
            /\ requests[r].phase \in {"checked", "locked", "answered"}

\* However many admins add contents at once, a contract never has more
\* Evergreen contents than its quota (the row lock of contents.service.ts).
QuotaHolds ==
    \A c \in Contracts : Cardinality(Evergreen(c)) <= contracts[c].quota

\* The numbers Evergreen names carry are 1, 2, ... without a gap and without a
\* number given twice, whoever adds them (the name a content keeps for good).
NumbersCountUp ==
    \A c \in Contracts :
        {contents[x].number : x \in Evergreen(c)} = 1 .. Cardinality(Evergreen(c))

\* What onboarding schedules is numbered in deadline order, in whatever order
\* the body lists the days (creators/evergreen.ts: "counts from 1 in deadline
\* order"); contents added to an older contract one by one are not.
OnboardedInDeadlineOrder ==
    \A x, y \in ContentIds :
        /\ contents[x] # NoContent /\ contents[y] # NoContent
        /\ contents[x].contract = contents[y].contract
        /\ contents[x].contract \notin DOMAIN Seeded
        /\ contents[x].number \in 1 .. contents[y].number
        /\ contents[y].type = "evergreen"
        => contents[x].deadline <= contents[y].deadline

Allocator ==
    INSTANCE SlotAllocator WITH
        Logins <- Emails, NoLogin <- NoEmail,
        quota <- [c \in Contracts |-> contracts[c].quota],
        given <- [c \in Contracts |-> Cardinality(Evergreen(c))],
        owner <- [c \in Contracts |-> contracts[c].email]

\* Statement by statement and request by request, the server does what an
\* allocator of numbered slots does, and no login gets two contracts this way.
ImplementsAllocator == Allocator!Spec

\* The slots of every contract: no more than its quota, numbered without gap or
\* repetition, and in deadline order where onboarding wrote them.
SlotsHold ==
    /\ TypeOK
    /\ QuotaHolds
    /\ NumbersCountUp
    /\ OnboardedInDeadlineOrder
=============================================================================
