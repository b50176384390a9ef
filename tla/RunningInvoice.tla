--------------------------- MODULE RunningInvoice ---------------------------
(***************************************************************************)
(* What the invoice of one contract comes to while its contents are handed *)
(* in, measured and overdue: the four components of the calculator, the    *)
(* total they add up to and the total finalize freezes.  The calculation   *)
(* has no state; the variables are the rows and the day it reads.          *)
(***************************************************************************)
EXTENDS Integers, FiniteSets, Functions

CONSTANTS
    Evergreen, Specific,    \* the contents of the contract, by type
    Deadline,               \* the day each is due
    Platforms,
    Bodies,                 \* formulas an admin may send
    NoFormula, NoVideo, NoViews, NoDay,
    StartDate, EndDate, FixedRate,
    Counts,                 \* numbers of views
    LastDay                 \* bound: the last day that passes

Contents == Evergreen \cup Specific

Days == 0 .. LastDay

Videos == [day : Nat, platform : Platforms, views : Counts \cup {NoViews}]

ASSUME RunningInvoiceAssumption ==
    /\ Evergreen \cap Specific = {}
    /\ IsFiniteSet(Contents)
    /\ Deadline \in [Contents -> Nat]
    /\ {StartDate, EndDate, FixedRate, LastDay} \subseteq Nat
    /\ Counts \subseteq Nat
    /\ NoViews \notin Counts
    /\ NoVideo \notin Videos
    /\ NoFormula \notin Bodies
    /\ NoDay \notin Nat

\* Any other body is refused (rate-formula.ts, checkAmount and isWholeTier):
\* amounts are whole and not negative, and tiers hold whole numbers.
ASSUME BodiesAssumption ==
    \A f \in Bodies :
        /\ {f.specificBonus, f.latePenaltyPerDay, f.maxPenaltyDays} \subseteq Nat
        /\ \A p \in DOMAIN f.performanceBonus :
             f.performanceBonus[p].tiers \subseteq [threshold : Int, bonus : Int]

VARIABLES
    today,
    committed,      \* contents that are no pending proposal
    video,          \* the link of each content: its day, platform and views
    formula,        \* the saved rate formula
    revokedOn       \* the day the creator's access was revoked

vars == <<today, committed, video, formula, revokedOn>>

-----------------------------------------------------------------------------
(* Days.                                                                   *)

AtLeastZero(n) == IF n < 0 THEN 0 ELSE n

Earlier(a, b) == IF a <= b THEN a ELSE b

\* An early hand-in makes up for a late one.
DaysLate_Signed(deadline, day) == day - deadline

\* The deadline day counts once the item is late.
DaysLate_FromDeadlineDay(deadline, day) ==
    IF day <= deadline THEN 0 ELSE day - deadline + 1

DaysLate(deadline, day) == AtLeastZero(day - deadline)

ContractLastDay ==
    IF revokedOn = NoDay THEN EndDate ELSE Earlier(revokedOn, EndDate)

\* Whatever is overdue goes on costing.
CountUntil_Today == today

CountUntil == Earlier(today, ContractLastDay)

-----------------------------------------------------------------------------
(* Components.  A component that waits adds nothing, and keeps what its    *)
(* lines add up to.                                                        *)

Calculated(lines) == [waiting |-> FALSE, sum |-> SumFunction(lines)]

WaitingForData(lines) == [waiting |-> TRUE, sum |-> SumFunction(lines)]

NothingYet == [waiting |-> TRUE, sum |-> 0]

Amount(component) == IF component.waiting THEN 0 ELSE component.sum

Delivered == {c \in Contents : video[c] # NoVideo}

OnTime(c) == DaysLate(Deadline[c], video[c].day) = 0

Fixed == [waiting |-> FALSE, sum |-> IF today >= StartDate THEN FixedRate ELSE 0]

AdditionalContent ==
    IF formula = NoFormula THEN NothingYet
    ELSE Calculated([c \in Delivered \cap Specific |->
                       IF OnTime(c) THEN formula.specificBonus ELSE 0])

DaysCharged(c) ==
    Earlier(IF video[c] # NoVideo
            THEN DaysLate(Deadline[c], video[c].day)
            ELSE AtLeastZero(CountUntil - Deadline[c]),
            formula.maxPenaltyDays)

Penalty ==
    IF formula = NoFormula THEN NothingYet
    ELSE Calculated([c \in committed \cap Evergreen |->
                       DaysCharged(c) * formula.latePenaltyPerDay])

\* Contents whose platform has tiers; a late Specific item earns nothing.
Ruled ==
    {c \in Delivered :
        /\ c \in Evergreen \/ OnTime(c)
        /\ video[c].platform \in DOMAIN formula.performanceBonus}

Rule(c) == formula.performanceBonus[video[c].platform]

\* Only views (and likes, which are alike) have a column to read.
IsMeasured(c) == Rule(c).metric = "views" /\ video[c].views # NoViews

Reached(tiers, value) == {t \in tiers : t.threshold <= value}

\* The bonus of the highest tier a value reaches.
TierBonus(tiers, value) ==
    IF Reached(tiers, value) = {} THEN 0
    ELSE (CHOOSE t \in Reached(tiers, value) :
            \A u \in Reached(tiers, value) : u.threshold <= t.threshold).bonus

PerformanceBonus ==
    IF formula = NoFormula THEN NothingYet
    ELSE LET measured == {c \in Ruled : IsMeasured(c)}
             lines == [c \in measured |-> TierBonus(Rule(c).tiers, video[c].views)]
         IN  IF Ruled = {} \/ measured # Ruled
             THEN WaitingForData(lines)
             ELSE Calculated(lines)

Components == {Fixed, AdditionalContent, PerformanceBonus, Penalty}

-----------------------------------------------------------------------------
(* Totals.                                                                 *)

RawTotal ==
    Amount(Fixed) + Amount(AdditionalContent) + Amount(PerformanceBonus)
        - Amount(Penalty)

Total == AtLeastZero(RawTotal)

\* The total finalize freezes once the admin accepted a bonus that still waits:
\* what the measured contents earned is added on top.
SettledRawTotal ==
    IF PerformanceBonus.waiting THEN RawTotal + PerformanceBonus.sum ELSE RawTotal

-----------------------------------------------------------------------------
(* What changes the rows it reads.                                         *)

Commit(c) ==
    /\ c \notin committed
    /\ committed' = committed \cup {c}
    /\ UNCHANGED <<today, video, formula, revokedOn>>

HandIn(c, p) ==
    /\ c \in committed
    /\ video[c] = NoVideo
    /\ video' = [video EXCEPT ![c] = [day |-> today, platform |-> p, views |-> NoViews]]
    /\ UNCHANGED <<today, committed, formula, revokedOn>>

\* Performance data come from outside; views are never taken back.
Measure(c, n) ==
    /\ video[c] # NoVideo
    /\ video[c].views # NoViews => video[c].views < n
    /\ video' = [video EXCEPT ![c].views = n]
    /\ UNCHANGED <<today, committed, formula, revokedOn>>

TiersAreValid(tiers) ==
    /\ tiers # {}
    /\ \A t \in tiers : t.threshold > 0 /\ t.bonus > 0
    /\ \A t, u \in tiers :
         t # u => /\ t.threshold # u.threshold
                  /\ t.threshold < u.threshold => t.bonus < u.bonus

\* The tiers are stored as they come.
SaveFormula_AnyTiers(f) ==
    /\ formula' = f
    /\ UNCHANGED <<today, committed, video, revokedOn>>

SaveFormula(f) ==
    /\ DOMAIN f.performanceBonus = Platforms
    /\ \A p \in Platforms : TiersAreValid(f.performanceBonus[p].tiers)
    /\ formula' = f
    /\ UNCHANGED <<today, committed, video, revokedOn>>

Revoke(day) ==
    /\ revokedOn = NoDay
    /\ revokedOn' = day
    /\ UNCHANGED <<today, committed, video, formula>>

DayPasses ==
    /\ today < LastDay
    /\ today' = today + 1
    /\ UNCHANGED <<committed, video, formula, revokedOn>>

Init ==
    /\ today = 0
    /\ committed = Evergreen
    /\ video = [c \in Contents |-> NoVideo]
    /\ formula = NoFormula
    /\ revokedOn = NoDay

Next ==
    \/ \E c \in Contents : Commit(c)
    \/ \E c \in Contents, p \in Platforms : HandIn(c, p)
    \/ \E c \in Contents, n \in Counts : Measure(c, n)
    \/ \E f \in Bodies : SaveFormula(f)
    \/ \E day \in Days : Revoke(day)
    \/ DayPasses

Spec == Init /\ [][Next]_vars

-----------------------------------------------------------------------------
(* Properties.                                                             *)

\* The rows hold what the program stores, and a component's amount is "always
\* zero or more; sign says whether it adds or subtracts" (invoice-component.ts).
TypeOK ==
    /\ today \in Days
    /\ committed \in SUBSET Contents
    /\ video \in [Contents -> Videos \cup {NoVideo}]
    /\ formula \in Bodies \cup {NoFormula}
    /\ revokedOn \in Days \cup {NoDay}
    /\ \A component \in Components : component.sum \in Nat

\* Once the contract began and is over, the days until an admin finalizes it
\* change nothing: neither the total that is shown nor the one that is frozen
\* (penalty.component.ts: "never past the contract's last day").
AmountIsFinal ==
    [][DayPasses /\ StartDate <= today /\ ContractLastDay < today =>
         /\ Total' = Total
         /\ SettledRawTotal' = SettledRawTotal]_vars

\* Handing an item in by the contract's last day, however late, never lowers
\* what finalize would freeze: the days charged up to the hand-in are those
\* already charged up to today, and fees and bonuses only add.
HandInNeverCosts ==
    [][\A c \in Contents, p \in Platforms :
         HandIn(c, p) /\ today <= ContractLastDay =>
            SettledRawTotal' >= SettledRawTotal]_vars

\* Performance data never lower what finalize would freeze: with tiers that
\* rise, more views pay no less, and the first views of an item only add.  So a
\* bonus frozen while it waits is never more than the one that was waited for.
MeasuringNeverCosts ==
    [][\A c \in Contents, n \in Counts :
         Measure(c, n) => SettledRawTotal' >= SettledRawTotal]_vars
=============================================================================
