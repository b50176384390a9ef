-------------------------- MODULE ContractSchedule --------------------------
(***************************************************************************)
(* The rules a contract's deadlines obey, twice: as the forms in the       *)
(* browser apply them while an admin fills them in, and as the server      *)
(* applies them to the body it is sent.  Both judge by a calendar day they *)
(* read themselves, so they may judge the same body on different days.     *)
(*                                                                         *)
(* Days are natural numbers, a date nobody picked is NoDate.  A body keeps *)
(* what the rules tell apart: the email address, the dates, the numbers,   *)
(* the deadlines, and whether every field that only has to be filled in    *)
(* (the name, the account, the contract's type, its rate) is.              *)
(***************************************************************************)
EXTENDS Integers, SequencesExt

CONSTANTS
    BufferDays,     \* how far ahead a new deadline has to be
    MaxQuota,       \* the most contents one contract may have
    MaxInteger      \* the largest number a column of the contract holds

ASSUME ScheduleAssumption ==
    /\ BufferDays \in Nat
    /\ MaxQuota \in Nat
    /\ MaxInteger \in Nat

NoDate == -1

ContentTypes == {"evergreen", "specific"}

\* The names errors are answered under.
Fields == {"details", "email", "contractStart", "contractEnd", "interval",
           "quota", "deadlines", "type", "deadline", "contractId"}

\* The days in date order; a day that occurs twice keeps both of its places.
InOrder(days) ==
    LET n     == Len(days)
        order == CHOOSE p \in [1 .. n -> 1 .. n] :
                   \A i, j \in 1 .. n :
                      i < j => p[i] # p[j] /\ days[p[i]] <= days[p[j]]
    IN  [i \in 1 .. n |-> days[order[i]]]

\* The days of a list that are in a set, in the order of the list.  (SelectSeq
\* and SortSeq, which take operators, are nothing one can prove about.)
Within(days, allowed) ==
    LET kept[n \in 0 .. Len(days)] ==
            IF n = 0 THEN <<>>
            ELSE IF days[n] \in allowed THEN Append(kept[n - 1], days[n])
            ELSE kept[n - 1]
    IN  kept[Len(days)]

-----------------------------------------------------------------------------
(* Shared by everything that judges a deadline.                            *)

EarliestDeadline(start, today) ==
    (IF start > today THEN start ELSE today) + BufferDays

-----------------------------------------------------------------------------
(* The server: a new creator.                                              *)

\* A start or an end: missing, or before today.
DateIsBad(day, today) == day = NoDate \/ day < today

ContractErrors(b, today) ==
    LET badStart == DateIsBad(b.start, today)
        badEnd   == DateIsBad(b.end, today)
        crossed  == ~badStart /\ b.end # NoDate /\ b.start > b.end
        tooShort == /\ ~badStart /\ ~badEnd /\ ~crossed
                    /\ b.end < EarliestDeadline(b.start, today)
    IN  (IF badStart \/ crossed THEN {"contractStart"} ELSE {})
        \cup (IF badEnd \/ tooShort THEN {"contractEnd"} ELSE {})

QuotaErrors(b) ==
    IF b.quota <= 0 \/ b.quota > MaxQuota THEN {"quota"} ELSE {}

NumberErrors(b) ==
    (IF b.interval <= 0 \/ b.interval > MaxInteger THEN {"interval"} ELSE {})
    \cup QuotaErrors(b)

\* Judged only once the contract and the quota are in order themselves.
DeadlineErrors(b, today, earlier) ==
    LET days == InOrder(b.deadlines)
        bad  == \/ Len(days) # b.quota
                \/ days[1] < EarliestDeadline(b.start, today)
                \/ days[Len(days)] > b.end
    IN  IF earlier \cap {"contractStart", "contractEnd", "quota"} = {} /\ bad
        THEN {"deadlines"} ELSE {}

CheckNewCreator(b, today) ==
    LET earlier == (IF b.complete THEN {} ELSE {"details"})
                   \cup ContractErrors(b, today) \cup NumberErrors(b)
    IN  earlier \cup DeadlineErrors(b, today, earlier)

\* Onboarding judges the contract's period and the quota once more, and where
\* the deadlines fall, the buffer apart.
CheckSchedule(b, today) ==
    LET earlier == (IF b.start < today \/ b.start > b.end
                    THEN {"contractStart"} ELSE {})
                   \cup (IF b.quota < 1 THEN {"quota"} ELSE {})
        bad     == \/ \E i \in DOMAIN b.deadlines :
                        b.deadlines[i] \notin b.start .. b.end
                   \/ Len(b.deadlines) # b.quota
    IN  IF earlier # {} THEN earlier
        ELSE IF bad THEN {"deadlines"} ELSE {}

-----------------------------------------------------------------------------
(* The server: one more content.                                           *)

\* What is wrong with the body whatever the contract says.
CheckNewContent(b) ==
    (IF b.type = "specific" /\ ~b.complete THEN {"details"} ELSE {})
    \cup (IF b.deadline = NoDate THEN {"deadline"} ELSE {})

CheckEvergreenSlot(type, deadline, contract, scheduled, today) ==
    (IF type = "evergreen" /\ scheduled >= contract.quota THEN {"type"} ELSE {})
    \cup (IF \/ deadline < EarliestDeadline(contract.start, today)
             \/ deadline > contract.end
          THEN {"deadline"} ELSE {})

-----------------------------------------------------------------------------
(* The browser: the schedule the form proposes, and the picks on top.      *)

\* From the first allowed day on, one every `interval` days, while there are
\* contents left and the contract lasts.
GenerateDeadlineSchedule(c, today) ==
    LET first == EarliestDeadline(c.start, today)
    IN  Within([i \in 1 .. c.quota |-> first + (i - 1) * c.interval], first .. c.end)

\* There is nothing to propose while the contract is incomplete.
HasSchedule(c) ==
    /\ c.start # NoDate /\ c.end # NoDate
    /\ c.start <= c.end
    /\ c.interval > 0 /\ c.quota > 0

NoPicks == [removed |-> {}, manual |-> <<>>]

NoAllocation == [auto |-> <<>>, manual |-> <<>>, deadlines |-> <<>>, remaining |-> 0]

Prefix(s, n) == SubSeq(s, 1, IF n < Len(s) THEN n ELSE Len(s))

\* Picks are counted without asking whether they still fit.
AllocateDeadlines_KeepsAll(c, picks, today) ==
    LET first == EarliestDeadline(c.start, today)
        auto  == Within(GenerateDeadlineSchedule(c, today),
                        (first .. c.end) \ picks.removed)
        open  == IF c.quota > Len(auto) THEN c.quota - Len(auto) ELSE 0
        manual == Prefix(picks.manual, open)
    IN  [auto |-> auto, manual |-> manual,
         deadlines |-> InOrder(auto \o manual), remaining |-> open - Len(manual)]

\* The picks are kept as the admin made them and applied to whatever the
\* contract allows now: a pick that no longer fits is passed over.
AllocateDeadlines(c, picks, today) ==
    LET first == EarliestDeadline(c.start, today)
        auto  == Within(GenerateDeadlineSchedule(c, today),
                        (first .. c.end) \ picks.removed)
        open  == IF c.quota > Len(auto) THEN c.quota - Len(auto) ELSE 0
        manual == Prefix(Within(picks.manual, first .. c.end), open)
    IN  [auto |-> auto, manual |-> manual,
         deadlines |-> InOrder(auto \o manual), remaining |-> open - Len(manual)]

Allocation(c, picks, today) ==
    IF HasSchedule(c) THEN AllocateDeadlines(c, picks, today) ELSE NoAllocation

ToggleAutoDeadline(picks, day) ==
    [picks EXCEPT !.removed = IF day \in picks.removed THEN picks.removed \ {day}
                              ELSE picks.removed \cup {day}]

AddManualDeadline(picks, day, remaining) ==
    IF remaining > 0 THEN [picks EXCEPT !.manual = Append(picks.manual, day)]
    ELSE picks

\* Takes the last pick of that day off.
RemoveManualDeadline(picks, day) ==
    LET at == {i \in DOMAIN picks.manual : picks.manual[i] = day}
    IN  IF at = {} THEN picks
        ELSE [picks EXCEPT !.manual = RemoveAt(picks.manual, Max(at))]

\* The days of the calendar an admin can put a content on by hand.
IsPickable(c, day, allocation, today) ==
    /\ \A i \in DOMAIN allocation.auto : allocation.auto[i] # day
    /\ allocation.remaining > 0
    /\ day \in EarliestDeadline(c.start, today) .. c.end

\* What the form itself refuses.  The two dates are compared only once each is
\* in order by itself.
CheckContractDates(f, today) ==
    LET bad == (IF DateIsBad(f.start, today) THEN {"contractStart"} ELSE {})
               \cup (IF DateIsBad(f.end, today) THEN {"contractEnd"} ELSE {})
    IN  IF bad # {} THEN bad
        ELSE IF f.start > f.end THEN {"contractStart"}
        ELSE IF f.end < EarliestDeadline(f.start, today) THEN {"contractEnd"}
        ELSE {}

ValidateCreatorForm(f, today, knownEmails) ==
    (IF f.complete THEN {} ELSE {"details"})
    \cup (IF f.email \in knownEmails THEN {"email"} ELSE {})
    \cup CheckContractDates(f, today)
    \cup (IF f.interval <= 0 THEN {"interval"} ELSE {})
    \cup QuotaErrors(f)

=============================================================================
