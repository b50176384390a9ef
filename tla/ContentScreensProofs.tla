-------------------------- MODULE ContentScreensProofs ------------------------
(***************************************************************************)
(* The task board and the content panels, for any contents, any admins and *)
(* any number of request slots: a refusal always has a cause the screen can*)
(* show, a revision's note reaches the draft its author read, a panel never*)
(* goes back, and whoever the work waits for is offered a move.            *)
(*                                                                         *)
(* The argument.  What a screen shows of a row was once the row: it is no  *)
(* newer than it, and it is the row for as long as no request moves it     *)
(* (Tells, Begun).  A form is open only over what its panel shows, and no  *)
(* re-read begins under an open form, so that the draft a note names is    *)
(* the latest one of the status the form was opened at.  A screen has at   *)
(* most one request of its own form under way, and a request that was sent *)
(* waits for a row that was in the state its sender saw, so a refusal      *)
(* means that the row has moved since.  Each part of ScreensInv is one     *)
(* half of this: the rows, the panels, the requests, the answers awaited   *)
(* and the creator's form.                                                 *)
(*                                                                         *)
(* The second part is about the address these screens stand on             *)
(* (ListAddress), for any searches and any number of presses: what is held *)
(* ahead of the address is the last of the navigations under way and the   *)
(* newest of the changes on their way, so that nothing older, landing late,*)
(* is taken for somebody else's move; the box and the panel are in step    *)
(* with the query that is latest by then (AddressInv).                     *)
(***************************************************************************)
EXTENDS ContentScreens, ListAddress, FiniteSetTheorems, SequenceTheorems, TLAPS

-----------------------------------------------------------------------------
(* What a screen knows of a row.                                           *)

HandIns == {"submit_draft", "resubmit_draft", "submit_video"}

\* The command suits a row of this status on this day, the draft aside.
Takes(kind, status, day) ==
    CASE kind \in {"approve", "revise"}                   -> status \in REVIEWABLE_STATUSES
      [] kind \in {"approve_proposal", "reject_proposal"} -> status = "pending"
      [] kind = "submit_video" -> status # "removed" /\ CanSubmitVideo(status, Deadline, day)
      [] OTHER                 -> status \in COMMITTED_STATUSES /\ CanSubmitDraft(status)

\* A command begun at this number of moves is refused only once the row moved on.
Begun(kind, seen, row, day) ==
    /\ seen <= row.moves
    /\ seen = row.moves => Takes(kind, row.status, day)

\* An answer given of a row is no newer than the row, and is the row till it moves.
Tells(detail, row, day) ==
    /\ detail \in Details /\ detail.status \in CONTENT_STATUSES
    /\ detail.moves <= row.moves
    /\ detail.moves = row.moves => detail.status = row.status /\ detail.drafts = row.drafts
    /\ \A action \in detail.actions : Begun(action, detail.moves, row, day)

RowTyped(row) ==
    row \in [status : CONTENT_STATUSES \cup {"removed"}, drafts : Nat, moves : Nat, was : SUBSET Details]

RowHolds(row, day) ==
    /\ RowTyped(row)
    /\ row.status \in REVIEWABLE_STATUSES => row.drafts > 0
    /\ \A detail \in row.was : Tells(detail, row, day)

RowsHold ==
    /\ today \in 0..LastDay
    /\ rows = [c \in Contents |-> rows[c]]
    /\ \A c \in Contents : RowHolds(rows[c], today)

\* A row as it was and as it came to be.
GoesOn(row, later) ==
    /\ row.moves <= later.moves
    /\ row.moves = later.moves => later.status = row.status /\ later.drafts = row.drafts

-----------------------------------------------------------------------------
(* The invariant.                                                          *)

\* A read that is listened to brings nothing older than what is shown or owed.
ReadingHolds(p, r, row, day) ==
    \/ r = Asked
    \/ r.phase = "gone" /\ r.detail = NoDetail
    \/ /\ r.phase = "answered"
       /\ Tells(r.detail, row, day)
       /\ p.kind = "loaded" => p.shown.moves <= r.detail.moves
       /\ p.owed <= r.detail.moves

ShownHolds(p, row, day) ==
    /\ Tells(p.shown, row, day)
    /\ p.owed <= row.moves
    /\ p.reading = {} => p.owed <= p.shown.moves

FormHolds(p, row, day) ==
    /\ p.since <= p.shown.moves
    /\ Begun(p.form, p.since, row, day)
    /\ p.about # 0 => p.reading = {} /\ p.about = p.shown.drafts

PanelHolds(p, row, day) ==
    /\ p.kind = "loading" => p.reading # {}
    /\ \A r \in p.reading : ReadingHolds(p, r, row, day)
    /\ \A r, q \in p.reading : r = q
    /\ IF p.kind = "loaded" THEN ShownHolds(p, row, day)
                            ELSE p.form = "none" /\ p.busy = "none" /\ p.owed = 0
    /\ p.form # "none" => FormHolds(p, row, day)

PanelsHold ==
    /\ panel \in [Screens -> Panels]
    /\ \A s \in Screens : IF panel[s].kind = "closed" THEN panel[s] = Closed
                          ELSE /\ panel[s].content \in Contents
                               /\ PanelHolds(panel[s], rows[panel[s].content], today)
    /\ panel[Creator].form = "none" /\ panel[Creator].busy = "none"

\* A request under way was begun on what a screen showed.
SlotHolds(q, row, day) ==
    /\ q.kind # "none" /\ q.content # Nowhere
    /\ q.phase \in {"asked", "deaf"} =>
          /\ Begun(q.kind, q.seen, row, day)
          /\ q.kind \in {"approve", "revise"} /\ q.seen = row.moves => q.draft = row.drafts
    /\ q.phase = "deaf" => ~q.mine
    /\ q.phase \in {"conflict", "missing"} => q.seen < q.at /\ q.at <= row.moves
    /\ q.kind = "revise" /\ q.about # 0 => q.draft = q.about

RequestsHold ==
    /\ sent \in [Screens -> [Slots -> Requests]]
    /\ \A s \in Screens, k \in Slots :
          IF sent[s][k].phase = "idle" THEN sent[s][k] = IdleSlot
          ELSE SlotHolds(sent[s][k], rows[sent[s][k].content], today)

\* The request a screen waits for is its own, and the only one.
WaitsHold ==
    /\ \A s \in Screens : \A k, l \in Slots : sent[s][k].mine /\ sent[s][l].mine => k = l
    /\ \A a \in Admins : panel[a].busy # "none" => \E k \in Slots : sent[a][k].mine
    /\ \A a \in Admins, k \in Slots : sent[a][k].mine =>
          panel[a].kind = "loaded" /\ panel[a].busy # "none" /\ sent[a][k].content = panel[a].content
    /\ \A k \in Slots : sent[Creator][k].phase \notin {"idle", "deaf"} => sent[Creator][k].mine /\ modal # NoModal

ModalHolds ==
    modal = NoModal
    \/ /\ modal \in [content : Contents, action : HandIns, seen : Nat, note : Nat, asked : Nat]
       /\ Begun(modal.action, modal.seen, rows[modal.content], today)
       /\ panel[Creator] = Closed

ScreensInv == RowsHold /\ PanelsHold /\ RequestsHold /\ WaitsHold /\ ModalHolds

-----------------------------------------------------------------------------
(* Rows.                                                                   *)

LEMMA TakesIs ==
    ASSUME NEW q, NEW row
    PROVE  Accepts(q, row) <=>
              /\ Takes(q.kind, row.status, today)
              /\ q.kind \in {"approve", "revise"} => q.draft = row.drafts
    BY DEF Accepts, Takes

LEMMA TakesLasts ==
    ASSUME NEW kind, NEW status, NEW day \in Int, NEW later \in Int, day <= later,
           Takes(kind, status, day)
    PROVE  Takes(kind, status, later)
    <1>1. CanSubmitVideo(status, Deadline, day) => CanSubmitVideo(status, Deadline, later)
      BY ContentScreensAssumption DEF CanSubmitVideo, InGraceWindow, GRACE_DAYS
    <1>. QED  BY <1>1 DEF Takes

LEMMA BegunLasts ==
    ASSUME NEW kind, NEW seen \in Nat, NEW row, NEW later, RowTyped(row), RowTyped(later),
           GoesOn(row, later), NEW day \in Int, NEW next \in Int, day <= next,
           Begun(kind, seen, row, day)
    PROVE  Begun(kind, seen, later, next)
    <1>1. row.moves \in Nat /\ later.moves \in Nat
      BY DEF RowTyped
    <1>2. seen <= later.moves
      BY <1>1 DEF Begun, GoesOn
    <1>3. ASSUME seen = later.moves
          PROVE  Takes(kind, later.status, next)
      <2>1. seen = row.moves /\ later.status = row.status
        BY <1>1, <1>3 DEF Begun, GoesOn
      <2>2. Takes(kind, row.status, day)
        BY <2>1 DEF Begun
      <2>. QED  BY <2>1, <2>2, TakesLasts
    <1>. QED  BY <1>2, <1>3 DEF Begun

LEMMA TellsLasts ==
    ASSUME NEW detail, NEW row, NEW later, RowTyped(row), RowTyped(later), GoesOn(row, later),
           NEW day \in Int, NEW next \in Int, day <= next, Tells(detail, row, day)
    PROVE  Tells(detail, later, next)
    <1>1. row.moves \in Nat /\ later.moves \in Nat /\ detail.moves \in Nat
      BY DEF RowTyped, Tells, Details
    <1>2. /\ detail.moves <= later.moves
          /\ detail.moves = later.moves => detail.status = later.status /\ detail.drafts = later.drafts
      BY <1>1 DEF Tells, GoesOn
    <1>3. \A action \in detail.actions : Begun(action, detail.moves, later, next)
      BY <1>1, BegunLasts DEF Tells
    <1>. QED  BY <1>2, <1>3 DEF Tells

LEMMA AnswerTells ==
    ASSUME NEW row, RowTyped(row), row.status \in CONTENT_STATUSES, NEW day \in Int
    PROVE  Tells(ToContentDetail(row, day), row, day)
    <1>. DEFINE detail == ToContentDetail(row, day)
    <1>1. /\ detail.status = row.status /\ detail.drafts = row.drafts /\ detail.moves = row.moves
          /\ detail.actions = TaskActions(row.status, day)
          /\ row.drafts \in Nat /\ row.moves \in Nat
      BY DEF ToContentDetail, RowTyped
    <1>2. detail \in Details
      BY DEF ToContentDetail, RowTyped, Details, TaskActions
    <1>3. ASSUME NEW action \in TaskActions(row.status, day)
          PROVE  Takes(action, row.status, day)
      <2>1. action = "submit_video" => Takes(action, row.status, day)
        BY <1>3 DEF TaskActions, Takes, CONTENT_STATUSES
      <2>2. action # "submit_video" => Takes(action, row.status, day)
        BY <1>3 DEF TaskActions, Takes, CanSubmitDraft, CanTransition, NEXT_STATUSES, CONTENT_STATUSES,
           COMMITTED_STATUSES
      <2>. QED  BY <2>1, <2>2
    <1>4. \A action \in detail.actions : Begun(action, detail.moves, row, day)
      BY <1>1, <1>3 DEF Begun
    <1>. HIDE DEF detail
    <1>5. Tells(detail, row, day)
      BY <1>1, <1>2, <1>4 DEF Tells
    <1>. QED  BY <1>5 DEF detail

\* A row shown on some day is good for that day's answer too.
LEMMA ShownStands ==
    ASSUME NEW row, RowTyped(row), NEW day \in Int,
           row.status \in REVIEWABLE_STATUSES => row.drafts > 0,
           \A detail \in row.was : Tells(detail, row, day)
    PROVE  /\ RowHolds(Shown(row, day), day)
           /\ Shown(row, day).status = row.status /\ Shown(row, day).moves = row.moves
           /\ Shown(row, day).drafts = row.drafts
    <1>1. ASSUME NEW was, was \subseteq Details, \A detail \in was : Tells(detail, row, day)
          PROVE  LET r == [row EXCEPT !.was = was] IN
                 /\ RowHolds(r, day)
                 /\ r.status = row.status /\ r.moves = row.moves /\ r.drafts = row.drafts
      <2>. DEFINE r == [row EXCEPT !.was = was]
      <2>1. /\ RowTyped(r) /\ r.was = was
            /\ r.status = row.status /\ r.moves = row.moves /\ r.drafts = row.drafts
        BY <1>1 DEF RowTyped
      <2>2. \A detail \in was : Tells(detail, r, day)
        BY <1>1, <2>1 DEF Tells, Begun
      <2>. QED  BY <2>1, <2>2 DEF RowHolds
    <1>2. CASE row.status = "removed"
      BY <1>2, <1>1 DEF Shown
    <1>3. CASE row.status # "removed"
      <2>. DEFINE was == row.was \cup {ToContentDetail(row, day)}
      <2>1. row.status \in CONTENT_STATUSES
        BY <1>3 DEF RowTyped
      <2>2. Tells(ToContentDetail(row, day), row, day)
        BY <2>1, AnswerTells
      <2>3. was \subseteq Details /\ \A detail \in was : Tells(detail, row, day)
        BY <2>2 DEF RowTyped, Tells
      <2>. HIDE DEF was
      <2>4. Shown(row, day) = [row EXCEPT !.was = was]
        BY <1>3 DEF Shown, was
      <2>. QED  BY <2>3, <2>4, <1>1
    <1>. QED  BY <1>2, <1>3

LEMMA MovedStands ==
    ASSUME RowsHold, NEW row, RowHolds(row, today), NEW drafts \in Nat,
           NEW status \in CONTENT_STATUSES \cup {"removed"},
           status \in REVIEWABLE_STATUSES => drafts > 0,
           NEW base, base = [row EXCEPT !.drafts = drafts]
    PROVE  /\ RowHolds(Moved(base, status), today)
           /\ GoesOn(row, Moved(base, status))
           /\ Moved(base, status).moves = row.moves + 1
    <1>. DEFINE next == [base EXCEPT !.status = status, !.moves = base.moves + 1]
    <1>1. /\ RowTyped(next) /\ next.was = row.was /\ next.status = status
          /\ next.drafts = drafts /\ next.moves = row.moves + 1 /\ row.moves \in Nat
      <2>1. RowTyped(row)
        BY DEF RowHolds
      <2>2. row.moves \in Nat /\ row.moves + 1 \in Nat
        BY <2>1 DEF RowTyped
      <2>3. next = [row EXCEPT !.drafts = drafts, !.status = status, !.moves = row.moves + 1]
        BY <2>1 DEF RowTyped
      <2>. QED  BY <2>1, <2>2, <2>3 DEF RowTyped
    <1>2. today \in Int
      BY ContentScreensAssumption DEF RowsHold
    <1>3. ASSUME NEW detail \in next.was
          PROVE  Tells(detail, next, today)
      <2>1. Tells(detail, row, today)
        BY <1>1, <1>3 DEF RowHolds
      <2>2. detail.moves \in Nat /\ detail.moves <= row.moves
        BY <2>1 DEF Tells, Details
      <2>3. detail.moves < next.moves
        BY <1>1, <2>2
      <2>. HIDE DEF next
      <2>. QED  BY <1>1, <2>1, <2>2, <2>3 DEF Tells, Begun
    <1>. HIDE DEF next
    <1>4. /\ RowHolds(Shown(next, today), today)
          /\ Shown(next, today).moves = row.moves + 1
      BY <1>1, <1>2, <1>3, ShownStands
    <1>5. Moved(base, status) = Shown(next, today)
      BY DEF Moved, next
    <1>. QED  BY <1>1, <1>4, <1>5 DEF GoesOn

LEMMA SweptStands ==
    ASSUME RowsHold
    PROVE  /\ Swept = [c \in Contents |-> Swept[c]]
           /\ \A c \in Contents : RowHolds(Swept[c], today) /\ GoesOn(rows[c], Swept[c])
           /\ \A c \in Contents : Swept[c] = rows[c] \/ Swept[c].moves = rows[c].moves + 1
    <1>1. Swept = [c \in Contents |-> Swept[c]]
      BY DEF Swept
    <1>2. ASSUME NEW c \in Contents
          PROVE  /\ RowHolds(Swept[c], today) /\ GoesOn(rows[c], Swept[c])
                 /\ Swept[c] = rows[c] \/ Swept[c].moves = rows[c].moves + 1
      <2>1. RowHolds(rows[c], today)
        BY DEF RowsHold
      <2>2. CASE Swept[c] = rows[c]
        BY <2>1, <2>2 DEF GoesOn, RowHolds, RowTyped
      <2>3. CASE Swept[c] = Moved(rows[c], "scheduled")
        <3>1. rows[c].drafts \in Nat /\ rows[c] = [rows[c] EXCEPT !.drafts = rows[c].drafts]
          BY <2>1 DEF RowHolds, RowTyped
        <3>2. "scheduled" \in CONTENT_STATUSES \cup {"removed"} /\ "scheduled" \notin REVIEWABLE_STATUSES
          BY DEF CONTENT_STATUSES, REVIEWABLE_STATUSES
        <3>. QED  BY <2>1, <2>3, <3>1, <3>2, MovedStands
      <2>. QED  BY <2>2, <2>3 DEF Swept
    <1>. QED  BY <1>1, <1>2

LEMMA AppliedStands ==
    ASSUME RowsHold, NEW row, RowHolds(row, today), NEW q, q.kind \in DOMAIN Outcome
    PROVE  /\ RowHolds(Applied(q, row), today)
           /\ GoesOn(row, Applied(q, row))
           /\ Applied(q, row).moves = row.moves + 1
    <1>1. row.drafts \in Nat /\ row = [row EXCEPT !.drafts = row.drafts]
      BY DEF RowHolds, RowTyped
    <1>2. /\ Outcome[q.kind] \in CONTENT_STATUSES \cup {"removed"}
          /\ q.kind \notin {"submit_draft", "resubmit_draft"} => Outcome[q.kind] \notin REVIEWABLE_STATUSES
      BY DEF Outcome, CONTENT_STATUSES, REVIEWABLE_STATUSES
    <1>3. CASE q.kind \in {"submit_draft", "resubmit_draft"}
      <2>1. row.drafts + 1 \in Nat /\ row.drafts + 1 > 0
        BY <1>1
      <2>. QED  BY <1>2, <1>3, <2>1, MovedStands DEF Applied
    <1>4. CASE q.kind \notin {"submit_draft", "resubmit_draft"}
      BY <1>1, <1>2, <1>4, MovedStands DEF Applied
    <1>. QED  BY <1>3, <1>4

-----------------------------------------------------------------------------
(* What lasts while the rows go on.                                        *)

RowsGoOn ==
    /\ RowsHold /\ RowsHold'
    /\ today <= today'
    /\ \A c \in Contents : GoesOn(rows[c], rows'[c])

LEMMA RowFacts ==
    ASSUME RowsGoOn
    PROVE  /\ today \in Int /\ today' \in Int /\ today <= today'
           /\ \A c \in Contents : /\ RowTyped(rows[c]) /\ RowTyped(rows'[c])
                                  /\ GoesOn(rows[c], rows'[c])
                                  /\ rows[c].moves \in Nat /\ rows'[c].moves \in Nat
                                  /\ rows[c].moves <= rows'[c].moves
    <1>1. today \in Int /\ today' \in Int
      BY ContentScreensAssumption DEF RowsGoOn, RowsHold
    <1>2. \A c \in Contents : RowTyped(rows[c]) /\ RowTyped(rows'[c])
      BY DEF RowsGoOn, RowsHold, RowHolds
    <1>3. \A c \in Contents : rows[c].moves \in Nat /\ rows'[c].moves \in Nat
      BY <1>2 DEF RowTyped
    <1>. QED  BY <1>1, <1>2, <1>3 DEF RowsGoOn, GoesOn

LEMMA PanelLasts ==
    ASSUME NEW p \in Panels, NEW row, NEW later, RowTyped(row), RowTyped(later), GoesOn(row, later),
           NEW day \in Int, NEW next \in Int, day <= next, PanelHolds(p, row, day)
    PROVE  PanelHolds(p, later, next)
    <1>0. /\ row.moves \in Nat /\ later.moves \in Nat /\ row.moves <= later.moves
          /\ p.owed \in Nat /\ p.since \in Nat
      BY DEF RowTyped, GoesOn, Panels
    <1>1. \A r \in p.reading : ReadingHolds(p, r, later, next)
      BY TellsLasts DEF PanelHolds, ReadingHolds
    <1>2. p.kind = "loaded" => ShownHolds(p, later, next)
      BY <1>0, TellsLasts DEF PanelHolds, ShownHolds
    <1>3. p.form # "none" => FormHolds(p, later, next)
      BY <1>0, BegunLasts DEF PanelHolds, FormHolds
    <1>. QED  BY <1>1, <1>2, <1>3 DEF PanelHolds

LEMMA SlotLasts ==
    ASSUME NEW q \in Requests, NEW row, NEW later, RowTyped(row), RowTyped(later), GoesOn(row, later),
           NEW day \in Int, NEW next \in Int, day <= next, SlotHolds(q, row, day)
    PROVE  SlotHolds(q, later, next)
    <1>0. /\ row.moves \in Nat /\ later.moves \in Nat /\ row.moves <= later.moves
          /\ q.seen \in Nat /\ q.at \in Nat
      BY DEF RowTyped, GoesOn, Requests
    <1>1. ASSUME q.phase \in {"asked", "deaf"}
          PROVE  /\ Begun(q.kind, q.seen, later, next)
                 /\ q.kind \in {"approve", "revise"} /\ q.seen = later.moves => q.draft = later.drafts
      <2>1. Begun(q.kind, q.seen, later, next)
        BY <1>0, <1>1, BegunLasts DEF SlotHolds
      <2>2. q.kind \in {"approve", "revise"} /\ q.seen = later.moves => q.draft = later.drafts
        BY <1>0, <1>1 DEF SlotHolds, Begun, GoesOn
      <2>. QED  BY <2>1, <2>2
    <1>2. q.phase \in {"conflict", "missing"} => q.seen < q.at /\ q.at <= later.moves
      BY <1>0 DEF SlotHolds
    <1>. QED  BY <1>1, <1>2 DEF SlotHolds

LEMMA PanelsStand ==
    ASSUME PanelsHold, RowsGoOn, UNCHANGED panel
    PROVE  PanelsHold'
    <1>1. ASSUME NEW s \in Screens, panel[s].kind # "closed"
          PROVE  PanelHolds(panel[s], rows'[panel[s].content], today')
      <2>1. panel[s] \in Panels /\ panel[s].content \in Contents
            /\ PanelHolds(panel[s], rows[panel[s].content], today)
        BY <1>1 DEF PanelsHold
      <2>. QED  BY <2>1, RowFacts, PanelLasts
    <1>. QED  BY <1>1 DEF PanelsHold

\* A step that sets one panel.
LEMMA PanelSet ==
    ASSUME PanelsHold, RowsGoOn, NEW s \in Screens, NEW p \in Panels,
           panel' = [panel EXCEPT ![s] = p],
           IF p.kind = "closed" THEN p = Closed
           ELSE p.content \in Contents /\ PanelHolds(p, rows'[p.content], today'),
           s = Creator => p.form = "none" /\ p.busy = "none"
    PROVE  PanelsHold'
    <1>1. panel' \in [Screens -> Panels] /\ panel'[s] = p
          /\ \A t \in Screens \ {s} : panel'[t] = panel[t]
      BY DEF PanelsHold
    <1>2. ASSUME NEW t \in Screens \ {s}, panel[t].kind # "closed"
          PROVE  PanelHolds(panel[t], rows'[panel[t].content], today')
      <2>1. panel[t] \in Panels /\ panel[t].content \in Contents
            /\ PanelHolds(panel[t], rows[panel[t].content], today)
        BY <1>2 DEF PanelsHold
      <2>. QED  BY <2>1, RowFacts, PanelLasts
    <1>3. ASSUME NEW t \in Screens
          PROVE  IF panel'[t].kind = "closed" THEN panel'[t] = Closed
                 ELSE /\ panel'[t].content \in Contents
                      /\ PanelHolds(panel'[t], rows'[panel'[t].content], today')
      <2>1. CASE t = s
        BY <2>1, <1>1
      <2>2. CASE t # s
        BY <2>2, <1>1, <1>2 DEF PanelsHold
      <2>. QED  BY <2>1, <2>2
    <1>4. Creator \in Screens
      BY DEF Screens
    <1>5. panel'[Creator].form = "none" /\ panel'[Creator].busy = "none"
      BY <1>1, <1>4 DEF PanelsHold
    <1>. QED  BY <1>1, <1>3, <1>5 DEF PanelsHold

\* A request as some step leaves it.
SlotStays(q, later) == later \in {q, [q EXCEPT !.mine = FALSE], IdleSlot}

SlotFits(q, all, day) ==
    IF q.phase = "idle" THEN q = IdleSlot ELSE SlotHolds(q, all[q.content], day)

LEMMA SlotsSet ==
    ASSUME RequestsHold, RowsGoOn, sent' \in [Screens -> [Slots -> Requests]],
           \A s \in Screens, k \in Slots :
              SlotStays(sent[s][k], sent'[s][k]) \/ SlotFits(sent'[s][k], rows', today')
    PROVE  RequestsHold'
    <1>1. ASSUME NEW s \in Screens, NEW k \in Slots
          PROVE  SlotFits(sent'[s][k], rows', today')
      <2>. DEFINE q == sent[s][k]
      <2>1. q \in Requests /\ (q.phase = "idle" => q = IdleSlot)
        BY DEF RequestsHold
      <2>2. q.phase # "idle" => q.content \in Contents /\ SlotHolds(q, rows[q.content], today)
        BY <2>1 DEF RequestsHold, SlotHolds, Requests
      <2>. HIDE DEF q
      <2>3. q.phase # "idle" => q.content \in Contents /\ SlotHolds(q, rows'[q.content], today')
        BY <2>1, <2>2, RowFacts, SlotLasts
      <2>4. CASE sent'[s][k] = q
        BY <2>1, <2>3, <2>4 DEF SlotFits
      <2>5. CASE sent'[s][k] = [q EXCEPT !.mine = FALSE]
        <3>1. q.phase = "idle" => [q EXCEPT !.mine = FALSE] = q
          BY <2>1 DEF IdleSlot
        <3>2. q.phase # "idle" => SlotFits([q EXCEPT !.mine = FALSE], rows', today')
          BY <2>1, <2>3 DEF Requests, SlotFits, SlotHolds
        <3>. QED  BY <2>1, <2>5, <3>1, <3>2 DEF SlotFits
      <2>6. CASE sent'[s][k] = IdleSlot
        BY <2>6 DEF SlotFits, IdleSlot
      <2>. QED  BY <1>1, <2>4, <2>5, <2>6 DEF SlotStays, q
    <1>. QED  BY <1>1 DEF RequestsHold, SlotFits

LEMMA SlotsStand ==
    ASSUME RequestsHold, RowsGoOn, UNCHANGED sent
    PROVE  RequestsHold'
    BY SlotsSet DEF RequestsHold, SlotStays

LEMMA ModalStands ==
    ASSUME ModalHolds, RowsGoOn, UNCHANGED modal, modal # NoModal => panel'[Creator] = Closed
    PROVE  ModalHolds'
    <1>1. CASE modal = NoModal
      BY <1>1 DEF ModalHolds
    <1>2. CASE modal # NoModal
      <2>1. modal.content \in Contents /\ modal.seen \in Nat
            /\ modal \in [content : Contents, action : HandIns, seen : Nat, note : Nat, asked : Nat]
            /\ Begun(modal.action, modal.seen, rows[modal.content], today)
        BY <1>2 DEF ModalHolds
      <2>2. Begun(modal.action, modal.seen, rows'[modal.content], today')
        BY <2>1, RowFacts, BegunLasts
      <2>. QED  BY <1>2, <2>1, <2>2 DEF ModalHolds
    <1>. QED  BY <1>1, <1>2

-----------------------------------------------------------------------------
(* How the rows go on.                                                     *)

LEMMA RowsStand ==
    ASSUME RowsHold, UNCHANGED <<rows, today>>
    PROVE  RowsGoOn
    <1>1. today \in Int /\ RowsHold'
      BY ContentScreensAssumption DEF RowsHold
    <1>2. \A c \in Contents : GoesOn(rows[c], rows[c])
      BY DEF RowsHold, RowHolds, RowTyped, GoesOn
    <1>. QED  BY <1>1, <1>2 DEF RowsGoOn

LEMMA RowsSwept ==
    ASSUME RowsHold, rows' = Swept, UNCHANGED today
    PROVE  RowsGoOn
    <1>1. today \in Int
      BY ContentScreensAssumption DEF RowsHold
    <1>2. RowsHold'
      BY SweptStands DEF RowsHold
    <1>. QED  BY <1>1, <1>2, SweptStands DEF RowsGoOn

LEMMA GoesOnFurther ==
    ASSUME NEW row, NEW later, NEW last, RowTyped(row), RowTyped(later), RowTyped(last),
           GoesOn(row, later), GoesOn(later, last)
    PROVE  GoesOn(row, last)
    <1>1. row.moves \in Nat /\ later.moves \in Nat /\ last.moves \in Nat
      BY DEF RowTyped
    <1>. QED  BY <1>1 DEF GoesOn

LEMMA RowsArrive ==
    ASSUME RowsHold, UNCHANGED today, NEW q, q.content \in Contents, q.kind \in DOMAIN Outcome,
           rows' = [Swept EXCEPT ![q.content] = Applied(q, Swept[q.content])]
    PROVE  RowsGoOn
    <1>. DEFINE c == q.content
    <1>1. today \in Int
      BY ContentScreensAssumption DEF RowsHold
    <1>2. RowHolds(Swept[c], today) /\ GoesOn(rows[c], Swept[c]) /\ RowHolds(rows[c], today)
      BY SweptStands DEF RowsHold
    <1>3. /\ RowHolds(Applied(q, Swept[c]), today)
          /\ GoesOn(Swept[c], Applied(q, Swept[c]))
      BY <1>2, AppliedStands
    <1>4. GoesOn(rows[c], Applied(q, Swept[c]))
      BY <1>2, <1>3, GoesOnFurther DEF RowHolds
    <1>5. rows' = [d \in Contents |-> rows'[d]] /\ rows'[c] = Applied(q, Swept[c])
          /\ \A d \in Contents \ {c} : rows'[d] = Swept[d]
      BY SweptStands
    <1>6. \A d \in Contents : RowHolds(rows'[d], today) /\ GoesOn(rows[d], rows'[d])
      BY <1>3, <1>4, <1>5, SweptStands
    <1>7. RowsHold'
      BY <1>5, <1>6 DEF RowsHold
    <1>. QED  BY <1>1, <1>6, <1>7 DEF RowsGoOn

LEMMA RowsAge ==
    ASSUME RowsHold, DayPasses
    PROVE  RowsGoOn
    <1>1. today \in Int /\ today + 1 \in Int /\ today' = today + 1 /\ today' \in 0..LastDay
      BY ContentScreensAssumption DEF RowsHold, DayPasses
    <1>2. rows' = [c \in Contents |-> rows'[c]] /\ \A c \in Contents : rows'[c] = Shown(rows[c], today + 1)
      BY DEF DayPasses
    <1>3. ASSUME NEW c \in Contents
          PROVE  RowHolds(rows'[c], today') /\ GoesOn(rows[c], rows'[c])
      <2>1. RowHolds(rows[c], today) /\ RowTyped(rows[c])
        BY DEF RowsHold, RowHolds
      <2>2. GoesOn(rows[c], rows[c])
        BY <2>1 DEF RowTyped, GoesOn
      <2>3. \A detail \in rows[c].was : Tells(detail, rows[c], today + 1)
        BY <1>1, <2>1, <2>2, TellsLasts DEF RowHolds
      <2>4. /\ RowHolds(rows'[c], today + 1)
            /\ rows'[c].status = rows[c].status /\ rows'[c].moves = rows[c].moves
            /\ rows'[c].drafts = rows[c].drafts
        BY <1>1, <1>2, <2>1, <2>3, ShownStands DEF RowHolds
      <2>. QED  BY <1>1, <2>2, <2>4 DEF GoesOn
    <1>4. RowsHold'
      BY <1>1, <1>2, <1>3 DEF RowsHold
    <1>. QED  BY <1>1, <1>3, <1>4 DEF RowsGoOn

-----------------------------------------------------------------------------
(* What is offered, and steps of one panel.                                *)

LEMMA AdminOffers ==
    ASSUME NEW detail, NEW row, NEW day, Tells(detail, row, day),
           NEW command \in ActionsFor("admin", detail)
    PROVE  /\ command \in {"approve", "revise", "approve_proposal", "reject_proposal"}
           /\ Begun(command, detail.moves, row, day)
           /\ command \in {"approve", "revise"} /\ detail.moves = row.moves => detail.drafts = row.drafts
    <1>1. \/ command \in {"approve_proposal", "reject_proposal"} /\ detail.status = "pending"
          \/ command \in {"approve", "revise"} /\ detail.status # "pending"
             /\ WAITING_ON[detail.status] = "admin"
      BY DEF ActionsFor
    <1>2. detail.status \in CONTENT_STATUSES
      BY DEF Tells
    <1>3. Takes(command, detail.status, day)
      BY <1>1, <1>2 DEF Takes, WAITING_ON, CONTENT_STATUSES, REVIEWABLE_STATUSES
    <1>. QED  BY <1>1, <1>3 DEF Begun, Tells

LEMMA CreatorOffers ==
    ASSUME NEW detail, NEW row, NEW day, Tells(detail, row, day),
           NEW command \in ActionsFor("creator", detail)
    PROVE  command \in HandIns /\ Begun(command, detail.moves, row, day)
    <1>1. command \in detail.actions
      BY DEF ActionsFor
    <1>. QED  BY <1>1 DEF Tells, Details, HandIns

LEMMA PanelIs ==
    ASSUME ScreensInv, NEW s \in Screens, panel[s].kind # "closed"
    PROVE  /\ panel[s] \in Panels /\ panel[s].content \in Contents
           /\ PanelHolds(panel[s], rows[panel[s].content], today)
           /\ s = Creator => modal = NoModal
           /\ s = Creator => panel[s].form = "none" /\ panel[s].busy = "none"
    BY DEF ScreensInv, PanelsHold, ModalHolds, Closed

LEMMA AdminIs ==
    ASSUME NEW a \in Admins
    PROVE  a \in Screens /\ a # Creator /\ Role(a) = "admin"
    BY ContentScreensAssumption DEF Screens, Role

\* A step that changes one panel and sends nothing.
LEMMA PanelStep ==
    ASSUME ScreensInv, RowsGoOn, NEW s \in Screens, NEW p \in Panels,
           panel' = [panel EXCEPT ![s] = p], UNCHANGED <<sent, modal>>,
           IF p.kind = "closed" THEN p = Closed
           ELSE p.content \in Contents /\ PanelHolds(p, rows'[p.content], today'),
           s = Creator => p.form = "none" /\ p.busy = "none" /\ (modal = NoModal \/ p = Closed),
           p.busy = panel[s].busy,
           panel[s].busy # "none" => p.kind = "loaded" /\ p.content = panel[s].content
    PROVE  ScreensInv'
    <1>1. PanelsHold'
      BY PanelSet DEF ScreensInv
    <1>2. RequestsHold'
      BY SlotsStand DEF ScreensInv
    <1>3. panel' \in [Screens -> Panels] /\ panel'[s] = p
          /\ \A t \in Screens \ {s} : panel'[t] = panel[t]
      BY DEF ScreensInv, PanelsHold
    <1>4. \A a \in Admins : a \in Screens
      BY DEF Screens
    <1>5. WaitsHold'
      BY <1>3, <1>4 DEF ScreensInv, WaitsHold
    <1>6. Creator \in Screens
      BY DEF Screens
    <1>7. modal # NoModal => panel'[Creator] = Closed
      BY <1>3, <1>6 DEF ScreensInv, ModalHolds
    <1>8. ModalHolds'
      BY <1>7, ModalStands DEF ScreensInv
    <1>. QED  BY <1>1, <1>2, <1>5, <1>8 DEF ScreensInv, RowsGoOn

LEMMA LoadingIs ==
    ASSUME NEW c \in Contents, NEW row, NEW day
    PROVE  /\ Loading(c) \in Panels /\ Loading(c).kind = "loading" /\ Loading(c).content = c
           /\ Loading(c).form = "none" /\ Loading(c).busy = "none"
           /\ PanelHolds(Loading(c), row, day)
    <1>1. /\ Closed \in Panels /\ Closed.form = "none" /\ Closed.busy = "none" /\ Closed.owed = 0
      BY DEF Closed, Panels, NoDetail, Details
    <1>2. Asked \in [phase : {"asked", "answered", "gone"}, detail : Details]
      BY DEF Asked, NoDetail, Details
    <1>3. /\ Loading(c) \in Panels /\ Loading(c).kind = "loading" /\ Loading(c).content = c
          /\ Loading(c).reading = {Asked}
          /\ Loading(c).form = "none" /\ Loading(c).busy = "none" /\ Loading(c).owed = 0
      <2>. HIDE DEF Closed
      <2>. QED  BY <1>1, <1>2 DEF Loading, Panels
    <1>4. PanelHolds(Loading(c), row, day)
      BY <1>3 DEF PanelHolds, ReadingHolds
    <1>. QED  BY <1>3, <1>4

LEMMA OpenKept ==
    ASSUME ScreensInv, NEW s \in Screens, NEW c \in Contents, Open(s, c)
    PROVE  ScreensInv'
    <1>1. RowsGoOn
      BY RowsStand DEF ScreensInv, Open
    <1>2. panel[s] = Closed
      BY DEF Open, ScreensInv, PanelsHold
    <1>3. panel[s].busy = "none"
      BY <1>2 DEF Closed
    <1>. QED  BY <1>1, <1>3, LoadingIs, PanelStep DEF Open

LEMMA RetryKept ==
    ASSUME ScreensInv, NEW s \in Screens, Retry(s)
    PROVE  ScreensInv'
    <1>1. RowsGoOn
      BY RowsStand DEF ScreensInv, Retry
    <1>2. panel[s].content \in Contents /\ panel[s].busy = "none" /\ (s = Creator => modal = NoModal)
      BY PanelIs DEF Retry, PanelHolds
    <1>. QED  BY <1>1, <1>2, LoadingIs, PanelStep DEF Retry

LEMMA GetDetailKept ==
    ASSUME ScreensInv, NEW s \in Screens, GetDetail(s)
    PROVE  ScreensInv'
    <1>1. RowsGoOn
      BY RowsSwept DEF ScreensInv, GetDetail
    <1>2. panel[s].kind # "closed"
      BY DEF GetDetail, ScreensInv, PanelsHold, Closed
    <1>. DEFINE p == panel[s]  c == p.content  row == Swept[c]
                answer == IF row.status = "removed"
                          THEN [phase |-> "gone", detail |-> NoDetail]
                          ELSE [phase |-> "answered", detail |-> ToContentDetail(row, today)]
                next == [p EXCEPT !.reading = {answer}]
    <1>3. /\ p \in Panels /\ c \in Contents /\ PanelHolds(p, rows[c], today)
          /\ s = Creator => modal = NoModal
          /\ s = Creator => p.form = "none" /\ p.busy = "none"
      BY <1>2, PanelIs
    <1>4. Asked \in p.reading /\ p.reading = {Asked}
      BY <1>3 DEF GetDetail, PanelHolds
    <1>5. panel' = [panel EXCEPT ![s] = next] /\ rows' = Swept /\ UNCHANGED <<today, sent, modal>>
      <2>1. panel' = [panel EXCEPT ![s].reading = (p.reading \ {Asked}) \cup {answer}]
        BY DEF GetDetail
      <2>2. (p.reading \ {Asked}) \cup {answer} = {answer}
        BY <1>4
      <2>. QED  BY <2>1, <2>2 DEF GetDetail
    <1>6. /\ RowHolds(row, today) /\ GoesOn(rows[c], row) /\ RowTyped(row) /\ RowTyped(rows[c])
          /\ today \in Int
      BY <1>1, <1>3, SweptStands, RowFacts DEF ScreensInv, RowsHold, RowHolds
    <1>7. CASE row.status = "removed"
      <2>1. answer = [phase |-> "gone", detail |-> NoDetail] /\ NoDetail \in Details
        BY <1>7 DEF NoDetail, Details
      <2>. HIDE DEF answer, row
      <2>2. next \in Panels /\ next.reading = {answer}
            /\ next.kind = p.kind /\ next.shown = p.shown /\ next.form = p.form /\ next.busy = p.busy
            /\ next.owed = p.owed /\ next.about = p.about /\ next.since = p.since /\ next.content = c
        BY <1>3, <2>1 DEF Panels
      <2>. HIDE DEF next, p, c
      <2>3. PanelHolds(p, row, today)
        BY <1>3, <1>6, PanelLasts
      <2>4. PanelHolds(next, row, today)
        <3>1. ReadingHolds(next, answer, row, today)
          BY <2>1 DEF ReadingHolds
        <3>2. next.kind = "loaded" => ShownHolds(next, row, today)
          BY <2>2, <2>3 DEF PanelHolds, ShownHolds
        <3>3. next.form # "none" => FormHolds(next, row, today)
          BY <2>2, <2>3, <1>4 DEF PanelHolds, FormHolds
        <3>. QED  BY <2>2, <2>3, <3>1, <3>2, <3>3 DEF PanelHolds
      <2>5. next.kind # "closed" /\ (p.busy # "none" => p.kind = "loaded")
        BY <1>2, <1>3, <2>2 DEF p, PanelHolds
      <2>6. next.content \in Contents /\ PanelHolds(next, rows'[next.content], today')
        BY <1>3, <1>5, <2>2, <2>4 DEF row
      <2>. QED  BY <1>1, <1>3, <1>5, <2>2, <2>5, <2>6, PanelStep DEF p, c
    <1>8. CASE row.status # "removed"
      <2>1. answer = [phase |-> "answered", detail |-> ToContentDetail(row, today)]
        BY <1>8
      <2>2. Tells(ToContentDetail(row, today), row, today) /\ ToContentDetail(row, today).moves = row.moves
        BY <1>6, <1>8, AnswerTells DEF RowTyped, ToContentDetail
      <2>3. answer.phase = "answered" /\ Tells(answer.detail, row, today) /\ answer.detail.moves = row.moves
            /\ answer.detail \in Details
        BY <2>1, <2>2 DEF Tells
      <2>. HIDE DEF answer, row
      <2>4. next \in Panels /\ next.reading = {answer}
            /\ next.kind = p.kind /\ next.shown = p.shown /\ next.form = p.form /\ next.busy = p.busy
            /\ next.owed = p.owed /\ next.about = p.about /\ next.since = p.since /\ next.content = c
        BY <1>3, <2>1, <2>3 DEF Panels
      <2>. HIDE DEF next, p, c
      <2>5. PanelHolds(p, row, today)
        BY <1>3, <1>6, PanelLasts
      <2>6. PanelHolds(next, row, today)
        <3>1. ReadingHolds(next, answer, row, today)
          <4>1. row.moves \in Nat
            BY <1>6 DEF RowTyped
          <4>2. next.owed <= row.moves
            BY <4>1, <2>4, <2>5 DEF PanelHolds, ShownHolds
          <4>3. next.kind = "loaded" => next.shown.moves <= row.moves
            BY <2>4, <2>5 DEF PanelHolds, ShownHolds, Tells
          <4>. QED  BY <2>3, <4>2, <4>3 DEF ReadingHolds
        <3>2. next.kind = "loaded" => ShownHolds(next, row, today)
          BY <2>4, <2>5 DEF PanelHolds, ShownHolds
        <3>3. next.form # "none" => FormHolds(next, row, today)
          BY <2>4, <2>5, <1>4 DEF PanelHolds, FormHolds
        <3>. QED  BY <2>4, <2>5, <3>1, <3>2, <3>3 DEF PanelHolds
      <2>7. next.kind # "closed" /\ (p.busy # "none" => p.kind = "loaded")
        BY <1>2, <1>3, <2>4 DEF p, PanelHolds
      <2>8. next.content \in Contents /\ PanelHolds(next, rows'[next.content], today')
        BY <1>3, <1>5, <2>4, <2>6 DEF row
      <2>. QED  BY <1>1, <1>3, <1>5, <2>4, <2>7, <2>8, PanelStep DEF p, c
    <1>. QED  BY <1>7, <1>8

LEMMA DetailLandsKept ==
    ASSUME ScreensInv, NEW s \in Screens, DetailLands(s)
    PROVE  ScreensInv'
    <1>1. RowsGoOn
      BY RowsStand DEF ScreensInv, DetailLands
    <1>. DEFINE p == panel[s]
    <1>2. PICK r \in p.reading :
            /\ r.phase = "answered"
            /\ panel' = [panel EXCEPT ![s].kind = "loaded", ![s].shown = r.detail, ![s].reading = @ \ {r}]
            /\ UNCHANGED <<rows, today, sent, modal>>
      BY DEF DetailLands
    <1>3. p.kind # "closed"
      BY <1>2 DEF ScreensInv, PanelsHold, Closed
    <1>4. /\ p \in Panels /\ p.content \in Contents /\ PanelHolds(p, rows[p.content], today)
          /\ s = Creator => modal = NoModal
          /\ s = Creator => p.form = "none" /\ p.busy = "none"
      BY <1>3, PanelIs
    <1>. DEFINE next == [p EXCEPT !.kind = "loaded", !.shown = r.detail, !.reading = {}]
    <1>5. p.reading \ {r} = {}
      BY <1>2, <1>4 DEF PanelHolds
    <1>6. panel' = [panel EXCEPT ![s] = next]
      <2>1. panel \in [Screens -> Panels]
        BY DEF ScreensInv, PanelsHold
      <2>. QED  BY <1>2, <1>5, <2>1 DEF Panels
    <1>7. /\ Tells(r.detail, rows[p.content], today) /\ r.detail \in Details
          /\ p.kind = "loaded" => p.shown.moves <= r.detail.moves
          /\ p.owed <= r.detail.moves
      BY <1>2, <1>4 DEF PanelHolds, ReadingHolds, Tells, Asked
    <1>8. /\ next \in Panels /\ next.kind = "loaded" /\ next.shown = r.detail /\ next.reading = {}
          /\ next.content = p.content /\ next.form = p.form /\ next.busy = p.busy /\ next.owed = p.owed
          /\ next.since = p.since /\ next.about = p.about
      BY <1>4, <1>7 DEF Panels
    <1>. HIDE DEF next
    <1>9. PanelHolds(next, rows[p.content], today)
      <2>. DEFINE row == rows[p.content]
      <2>1. row.moves \in Nat /\ p.owed \in Nat /\ p.since \in Nat /\ r.detail.moves \in Nat
        BY <1>1, <1>4, <1>7, RowFacts DEF Panels, Details
      <2>. HIDE DEF row, p
      <2>2. ShownHolds(next, row, today)
        BY <1>7, <1>8, <2>1 DEF ShownHolds, Tells, row
      <2>3. p.form # "none" => p.kind = "loaded" /\ p.shown.moves \in Nat
        BY <1>4 DEF PanelHolds, Panels, Details
      <2>4. next.form # "none" => FormHolds(next, row, today)
        BY <1>2, <1>4, <1>7, <1>8, <2>1, <2>3 DEF PanelHolds, FormHolds, row
      <2>. QED  BY <1>8, <2>2, <2>4 DEF PanelHolds, row
    <1>10. next.content \in Contents /\ PanelHolds(next, rows'[next.content], today')
      BY <1>2, <1>4, <1>8, <1>9
    <1>11. UNCHANGED <<sent, modal>>
      BY <1>2
    <1>. HIDE DEF p
    <1>12. s = Creator => next.form = "none" /\ next.busy = "none" /\ modal = NoModal
      BY <1>4, <1>8
    <1>. QED  BY <1>1, <1>6, <1>8, <1>10, <1>11, <1>12, PanelStep DEF p

LEMMA DetailFailsKept ==
    ASSUME ScreensInv, NEW s \in Screens, DetailFails(s)
    PROVE  ScreensInv'
    <1>1. RowsGoOn
      BY RowsStand DEF ScreensInv, DetailFails
    <1>. DEFINE p == panel[s]
    <1>2. PICK r \in p.reading :
            /\ panel' = [panel EXCEPT
                  ![s].reading = @ \ {r},
                  ![s].owed = 0,
                  ![s].kind = IF @ = "loaded" THEN @
                              ELSE IF r.phase = "gone" THEN "not_found" ELSE "failed"]
            /\ UNCHANGED <<rows, today, sent, modal>>
      BY DEF DetailFails
    <1>3. p.kind # "closed"
      BY <1>2 DEF ScreensInv, PanelsHold, Closed
    <1>4. /\ p \in Panels /\ p.content \in Contents /\ PanelHolds(p, rows[p.content], today)
          /\ s = Creator => modal = NoModal
          /\ s = Creator => p.form = "none" /\ p.busy = "none"
      BY <1>3, PanelIs
    <1>. DEFINE kind == IF p.kind = "loaded" THEN p.kind
                        ELSE IF r.phase = "gone" THEN "not_found" ELSE "failed"
                next == [p EXCEPT !.reading = {}, !.owed = 0, !.kind = kind]
    <1>5. p.reading \ {r} = {}
      BY <1>2, <1>4 DEF PanelHolds
    <1>6. panel' = [panel EXCEPT ![s] = next]
      <2>1. panel \in [Screens -> Panels]
        BY DEF ScreensInv, PanelsHold
      <2>. QED  BY <1>2, <1>5, <2>1 DEF Panels
    <1>7. kind \in {"loaded", "not_found", "failed"} /\ (kind = "loaded" <=> p.kind = "loaded")
      OBVIOUS
    <1>. HIDE DEF kind
    <1>8. /\ next \in Panels /\ next.kind = kind /\ next.shown = p.shown /\ next.reading = {}
          /\ next.content = p.content /\ next.form = p.form /\ next.busy = p.busy /\ next.owed = 0
          /\ next.since = p.since /\ next.about = p.about
      BY <1>4, <1>7 DEF Panels
    <1>. HIDE DEF next
    <1>9. PanelHolds(next, rows[p.content], today)
      <2>. DEFINE row == rows[p.content]
      <2>1. row.moves \in Nat
        BY <1>1, <1>4, RowFacts
      <2>. HIDE DEF row, p
      <2>2. p.kind = "loaded" => ShownHolds(next, row, today)
        BY <1>4, <1>8, <2>1 DEF PanelHolds, ShownHolds, Tells, Details, row
      <2>3. next.form # "none" => FormHolds(next, row, today)
        BY <1>2, <1>4, <1>8 DEF PanelHolds, FormHolds, row
      <2>. QED  BY <1>4, <1>7, <1>8, <2>2, <2>3 DEF PanelHolds, row
    <1>10. next.content \in Contents /\ PanelHolds(next, rows'[next.content], today')
      BY <1>2, <1>4, <1>8, <1>9
    <1>11. p.busy # "none" => next.kind = "loaded"
      BY <1>4, <1>7, <1>8 DEF PanelHolds
    <1>12. next.kind # "closed" /\ UNCHANGED <<sent, modal>>
      BY <1>2, <1>7, <1>8
    <1>. HIDE DEF p
    <1>13. s = Creator => next.form = "none" /\ next.busy = "none" /\ modal = NoModal
      BY <1>4, <1>8
    <1>. QED  BY <1>1, <1>6, <1>8, <1>10, <1>11, <1>12, <1>13, PanelStep DEF p

LEMMA OpenFormKept ==
    ASSUME ScreensInv, NEW a \in Admins, NEW command \in OPENS_FORM, OpenForm(a, command)
    PROVE  ScreensInv'
    <1>1. RowsGoOn
      BY RowsStand DEF ScreensInv, OpenForm
    <1>. DEFINE p == panel[a]
                about == IF p.reading = {} THEN p.shown.drafts ELSE 0
                next == [p EXCEPT !.form = command, !.since = p.shown.moves, !.about = about]
    <1>2. /\ p.kind = "loaded" /\ p.form = "none" /\ p.busy = "none"
          /\ command \in ActionsFor("admin", p.shown)
      BY AdminIs DEF OpenForm, Commands
    <1>3. /\ p \in Panels /\ p.content \in Contents /\ PanelHolds(p, rows[p.content], today)
      BY <1>2, AdminIs, PanelIs
    <1>4. /\ panel' = [panel EXCEPT ![a] = next]
          /\ UNCHANGED <<rows, today, sent, modal>>
      <2>1. panel \in [Screens -> Panels]
        BY DEF ScreensInv, PanelsHold
      <2>2. panel' = [panel EXCEPT ![a].form = command, ![a].since = panel[a].shown.moves, ![a].about = about]
        BY DEF OpenForm
      <2>. HIDE DEF about
      <2>. QED  BY <2>1, <2>2, AdminIs DEF Panels, OpenForm
    <1>5. about \in Nat /\ p.shown.moves \in Nat /\ (about # 0 => p.reading = {} /\ about = p.shown.drafts)
      BY <1>3 DEF Panels, Details
    <1>. HIDE DEF about
    <1>6. /\ next \in Panels /\ next.kind = "loaded" /\ next.shown = p.shown /\ next.reading = p.reading
          /\ next.content = p.content /\ next.form = command /\ next.busy = "none" /\ next.owed = p.owed
          /\ next.since = p.shown.moves /\ next.about = about
      BY <1>2, <1>3, <1>5 DEF Panels
    <1>. HIDE DEF next
    <1>7. PanelHolds(next, rows[p.content], today)
      <2>. DEFINE row == rows[p.content]
      <2>. HIDE DEF row, p
      <2>1. ShownHolds(next, row, today)
        BY <1>2, <1>3, <1>6 DEF PanelHolds, ShownHolds, row
      <2>2. Begun(command, p.shown.moves, row, today)
        BY <1>2, <1>3, AdminOffers DEF PanelHolds, ShownHolds, row
      <2>3. FormHolds(next, row, today)
        BY <1>5, <1>6, <2>2 DEF FormHolds
      <2>4. \A r \in next.reading : ReadingHolds(next, r, row, today)
        BY <1>2, <1>3, <1>6 DEF PanelHolds, ReadingHolds, row
      <2>5. \A r, q \in next.reading : r = q
        BY <1>3, <1>6 DEF PanelHolds
      <2>. QED  BY <1>6, <2>1, <2>3, <2>4, <2>5 DEF PanelHolds, row
    <1>8. rows' = rows /\ today' = today
      BY <1>4
    <1>. QED  BY <1>1, <1>2, <1>3, <1>4, <1>6, <1>7, <1>8, AdminIs, PanelStep

LEMMA ClosedFormHolds ==
    ASSUME NEW p \in Panels, NEW row, NEW day, PanelHolds(p, row, day)
    PROVE  LET next == FormClosed(p) IN
           /\ next \in Panels /\ PanelHolds(next, row, day)
           /\ next.kind = p.kind /\ next.content = p.content /\ next.busy = p.busy /\ next.shown = p.shown
           /\ next.form = "none" /\ next.reading = p.reading
    <1>. DEFINE next == FormClosed(p)
    <1>1. /\ next \in Panels /\ next.kind = p.kind /\ next.content = p.content /\ next.busy = p.busy
          /\ next.shown = p.shown /\ next.form = "none" /\ next.reading = p.reading /\ next.owed = p.owed
      BY DEF FormClosed, Panels
    <1>. HIDE DEF next
    <1>2. \A r \in next.reading : ReadingHolds(next, r, row, day)
      BY <1>1 DEF PanelHolds, ReadingHolds
    <1>3. next.kind = "loaded" => ShownHolds(next, row, day)
      BY <1>1 DEF PanelHolds, ShownHolds
    <1>4. PanelHolds(next, row, day)
      BY <1>1, <1>2, <1>3 DEF PanelHolds
    <1>. QED  BY <1>1, <1>4 DEF next

LEMMA CancelFormKept ==
    ASSUME ScreensInv, NEW a \in Admins, CancelForm(a)
    PROVE  ScreensInv'
    <1>1. RowsGoOn
      BY RowsStand DEF ScreensInv, CancelForm
    <1>2. panel[a].kind = "loaded" /\ panel[a].kind # "closed"
      BY AdminIs, PanelIs DEF CancelForm, PanelHolds, ScreensInv, PanelsHold, Closed
    <1>3. /\ panel[a] \in Panels /\ panel[a].content \in Contents
          /\ PanelHolds(panel[a], rows[panel[a].content], today)
      BY <1>2, AdminIs, PanelIs
    <1>. DEFINE next == FormClosed(panel[a])
    <1>4. /\ next \in Panels /\ PanelHolds(next, rows[panel[a].content], today)
          /\ next.kind = "loaded" /\ next.content = panel[a].content /\ next.busy = panel[a].busy
      BY <1>2, <1>3, ClosedFormHolds
    <1>5. panel' = [panel EXCEPT ![a] = next] /\ UNCHANGED <<rows, today, sent, modal>>
      BY DEF CancelForm
    <1>. HIDE DEF next
    <1>6. rows' = rows /\ today' = today
      BY <1>5
    <1>. QED  BY <1>1, <1>3, <1>4, <1>5, <1>6, AdminIs, PanelStep

-----------------------------------------------------------------------------
(* Requests.                                                               *)

LEMMA SentIs ==
    ASSUME ScreensInv, NEW s \in Screens, NEW k \in Slots
    PROVE  /\ sent[s][k] \in Requests
           /\ sent[s][k].mine => sent[s][k].phase \notin {"idle", "deaf"}
           /\ sent[s][k].phase = "idle" => sent[s][k] = IdleSlot
           /\ sent[s][k].phase # "idle" =>
                 /\ sent[s][k].content \in Contents /\ sent[s][k].kind \in DOMAIN Outcome
                 /\ SlotHolds(sent[s][k], rows[sent[s][k].content], today)
    <1>1. sent[s][k] \in Requests
      BY DEF ScreensInv, RequestsHold
    <1>2. sent[s][k].phase = "idle" => sent[s][k] = IdleSlot
      BY DEF ScreensInv, RequestsHold
    <1>3. sent[s][k].phase # "idle" => SlotHolds(sent[s][k], rows[sent[s][k].content], today)
      BY DEF ScreensInv, RequestsHold
    <1>. QED  BY <1>1, <1>2, <1>3 DEF Requests, SlotHolds, IdleSlot

LEMMA IdleIs == IdleSlot \in Requests /\ IdleSlot.phase = "idle" /\ ~IdleSlot.mine
    BY DEF IdleSlot, Requests

LEMMA OrphanIs ==
    ASSUME NEW q \in Requests
    PROVE  LET next == [q EXCEPT !.mine = FALSE] IN
           next \in Requests /\ ~next.mine /\ next.phase = q.phase
    BY DEF Requests

LEMMA CloseKept ==
    ASSUME ScreensInv, NEW s \in Screens, Close(s)
    PROVE  ScreensInv'
    <1>1. RowsGoOn
      BY RowsStand DEF ScreensInv, Close
    <1>2. /\ panel' = [panel EXCEPT ![s] = Closed] /\ UNCHANGED <<rows, today, modal>>
          /\ sent' = [sent EXCEPT ![s] = Orphaned(sent[s])] /\ panel[s].kind # "closed"
      BY DEF Close
    <1>3. /\ Closed \in Panels /\ Closed.kind = "closed" /\ Closed.form = "none" /\ Closed.busy = "none"
      BY DEF Closed, Panels, NoDetail, Details
    <1>4. PanelsHold'
      BY <1>1, <1>2, <1>3, PanelSet DEF ScreensInv
    <1>5. /\ sent \in [Screens -> [Slots -> Requests]]
          /\ \A k \in Slots : sent'[s][k] = [sent[s][k] EXCEPT !.mine = FALSE]
          /\ \A t \in Screens \ {s} : sent'[t] = sent[t]
      BY <1>2 DEF ScreensInv, RequestsHold, Orphaned
    <1>6. \A k \in Slots : sent'[s][k] \in Requests /\ ~sent'[s][k].mine /\ sent'[s][k].phase = sent[s][k].phase
      <2>1. \A k \in Slots : sent[s][k] \in Requests
        BY <1>5
      <2>2. \A q \in Requests : LET next == [q EXCEPT !.mine = FALSE] IN
                                next \in Requests /\ ~next.mine /\ next.phase = q.phase
        BY OrphanIs
      <2>3. \A k \in Slots : LET next == [sent[s][k] EXCEPT !.mine = FALSE] IN
                              next \in Requests /\ ~next.mine /\ next.phase = sent[s][k].phase
        BY <2>1, <2>2, Zenon
      <2>. QED  BY <1>5, <2>3, Zenon
    <1>7. sent' \in [Screens -> [Slots -> Requests]]
      <2>1. Orphaned(sent[s]) \in [Slots -> Requests]
        BY <1>2, <1>5, <1>6 DEF Orphaned
      <2>. QED  BY <1>2, <1>5, <2>1
    <1>8. RequestsHold'
      <2>1. \A t \in Screens, k \in Slots : SlotStays(sent[t][k], sent'[t][k])
        BY <1>5 DEF SlotStays
      <2>. QED  BY <1>1, <1>7, <2>1, SlotsSet DEF ScreensInv
    <1>9. panel'[s] = Closed /\ \A t \in Screens \ {s} : panel'[t] = panel[t]
      BY <1>2 DEF ScreensInv, PanelsHold
    <1>10. WaitsHold'
      <2>1. \A t \in Screens : \A k, l \in Slots : sent'[t][k].mine /\ sent'[t][l].mine => k = l
        BY <1>5, <1>6 DEF ScreensInv, WaitsHold
      <2>2. \A a \in Admins : panel'[a].busy # "none" => \E k \in Slots : sent'[a][k].mine
        BY <1>3, <1>5, <1>9, AdminIs DEF ScreensInv, WaitsHold
      <2>3. \A a \in Admins, k \in Slots : sent'[a][k].mine =>
              panel'[a].kind = "loaded" /\ panel'[a].busy # "none" /\ sent'[a][k].content = panel'[a].content
        BY <1>5, <1>6, <1>9, AdminIs DEF ScreensInv, WaitsHold
      <2>4. \A k \in Slots : sent'[Creator][k].phase \notin {"idle", "deaf"} => sent'[Creator][k].mine /\ modal' # NoModal
        <3>1. CASE s = Creator
          <4>1. modal = NoModal
            BY <1>2, <3>1, PanelIs
          <4>. QED  BY <1>6, <3>1, <4>1 DEF ScreensInv, WaitsHold
        <3>2. CASE s # Creator
          BY <1>2, <1>5, <3>2 DEF ScreensInv, WaitsHold, Screens
        <3>. QED  BY <3>1, <3>2
      <2>. QED  BY <2>1, <2>2, <2>3, <2>4 DEF WaitsHold
    <1>11. ModalHolds'
      <2>1. modal # NoModal => panel'[Creator] = Closed
        BY <1>9 DEF ScreensInv, ModalHolds, Screens
      <2>. QED  BY <1>1, <1>2, <2>1, ModalStands DEF ScreensInv
    <1>. QED  BY <1>1, <1>4, <1>8, <1>10, <1>11 DEF ScreensInv, RowsGoOn

\* A free slot of the screen takes a request, its only one, and the modal stands.
LEMMA SendKept ==
    ASSUME ScreensInv, UNCHANGED <<rows, today, modal>>, PanelsHold', NEW s \in Screens,
           NEW kind \in DOMAIN Outcome, NEW content \in Contents,
           NEW draft \in Nat, NEW about \in Nat, NEW seen \in Nat,
           Send(s, kind, content, draft, about, seen),
           Begun(kind, seen, rows[content], today),
           kind \in {"approve", "revise"} /\ seen = rows[content].moves => draft = rows[content].drafts,
           kind = "revise" /\ about # 0 => draft = about,
           ~Sending(s),
           \A t \in Screens \ {s} : panel'[t] = panel[t],
           s # Creator => panel'[s].kind = "loaded" /\ panel'[s].busy # "none" /\ panel'[s].content = content,
           s = Creator => modal # NoModal /\ panel' = panel
    PROVE  ScreensInv'
    <1>1. RowsGoOn
      BY RowsStand DEF ScreensInv
    <1>. DEFINE q == [kind |-> kind, content |-> content, draft |-> draft, about |-> about,
                      seen |-> seen, mine |-> TRUE, phase |-> "asked", at |-> 0]
    <1>2. PICK k \in Slots : sent[s][k] = IdleSlot /\ sent' = [sent EXCEPT ![s][k] = q]
      BY DEF Send
    <1>3. /\ q \in Requests /\ q.kind = kind /\ q.content = content /\ q.draft = draft /\ q.about = about
          /\ q.seen = seen /\ q.mine /\ q.phase = "asked"
      BY DEF Requests
    <1>. HIDE DEF q
    <1>4. kind # "none" /\ content # Nowhere
      BY ContentScreensAssumption DEF Outcome
    <1>5. SlotHolds(q, rows[content], today)
      BY <1>3, <1>4 DEF SlotHolds
    <1>6. /\ sent' \in [Screens -> [Slots -> Requests]] /\ sent'[s][k] = q
          /\ \A l \in Slots \ {k} : sent'[s][l] = sent[s][l]
          /\ \A t \in Screens \ {s} : sent'[t] = sent[t]
      BY <1>2, <1>3 DEF ScreensInv, RequestsHold
    <1>7. RequestsHold'
      <2>1. \A t \in Screens, l \in Slots : t # s \/ l # k => SlotStays(sent[t][l], sent'[t][l])
        BY <1>6 DEF SlotStays
      <2>2. SlotFits(sent'[s][k], rows', today')
        BY <1>3, <1>5, <1>6 DEF SlotFits
      <2>. QED  BY <1>1, <1>6, <2>1, <2>2, SlotsSet DEF ScreensInv
    <1>8. WaitsHold'
      <2>1. \A t \in Screens : \A l, m \in Slots : sent'[t][l].mine /\ sent'[t][m].mine => l = m
        BY <1>6 DEF ScreensInv, WaitsHold, Sending
      <2>2. \A a \in Admins : panel'[a].busy # "none" => \E l \in Slots : sent'[a][l].mine
        BY <1>3, <1>6, AdminIs DEF ScreensInv, WaitsHold
      <2>3. \A a \in Admins, l \in Slots : sent'[a][l].mine =>
              panel'[a].kind = "loaded" /\ panel'[a].busy # "none" /\ sent'[a][l].content = panel'[a].content
        BY <1>3, <1>6, AdminIs DEF ScreensInv, WaitsHold, Sending
      <2>4. \A l \in Slots : sent'[Creator][l].phase \notin {"idle", "deaf"} => sent'[Creator][l].mine /\ modal' # NoModal
        BY <1>3, <1>6 DEF ScreensInv, WaitsHold, Screens
      <2>. QED  BY <2>1, <2>2, <2>3, <2>4 DEF WaitsHold
    <1>9. ModalHolds'
      <2>1. modal # NoModal => panel'[Creator] = Closed
        BY DEF ScreensInv, ModalHolds, Screens
      <2>. QED  BY <1>1, <2>1, ModalStands DEF ScreensInv
    <1>. QED  BY <1>1, <1>7, <1>8, <1>9 DEF ScreensInv, RowsGoOn

LEMMA DecideKept ==
    ASSUME ScreensInv, NEW a \in Admins, panel[a].kind = "loaded", panel[a].busy = "none",
           NEW kind \in DOMAIN Outcome, NEW about \in Nat, NEW seen \in Nat, Decide(a, kind, about, seen),
           LET row == rows[panel[a].content] IN
           /\ Begun(kind, seen, row, today)
           /\ kind \in {"approve", "revise"} /\ seen = row.moves => panel[a].shown.drafts = row.drafts,
           kind = "revise" /\ about # 0 => panel[a].shown.drafts = about
    PROVE  ScreensInv'
    <1>1. /\ panel[a] \in Panels /\ panel[a].content \in Contents
          /\ PanelHolds(panel[a], rows[panel[a].content], today)
      BY AdminIs, PanelIs
    <1>. DEFINE next == [panel[a] EXCEPT !.busy = kind]
    <1>2. /\ next \in Panels /\ next.kind = "loaded" /\ next.content = panel[a].content /\ next.busy = kind
          /\ next.shown = panel[a].shown /\ next.reading = panel[a].reading /\ next.form = panel[a].form
          /\ next.since = panel[a].since /\ next.about = panel[a].about /\ next.owed = panel[a].owed
      BY <1>1 DEF Panels
    <1>3. /\ panel' = [panel EXCEPT ![a] = next] /\ UNCHANGED <<rows, today, modal>>
          /\ Send(a, kind, panel[a].content, panel[a].shown.drafts, about, seen)
      BY DEF Decide
    <1>. HIDE DEF next
    <1>4. PanelHolds(next, rows[panel[a].content], today)
      BY <1>1, <1>2 DEF PanelHolds, ReadingHolds, ShownHolds, FormHolds
    <1>5. RowsGoOn
      BY <1>3, RowsStand DEF ScreensInv
    <1>6. next.content \in Contents /\ PanelHolds(next, rows'[next.content], today')
      BY <1>1, <1>2, <1>3, <1>4
    <1>7. PanelsHold'
      BY <1>2, <1>3, <1>5, <1>6, AdminIs, PanelSet DEF ScreensInv
    <1>8. panel'[a] = next /\ \A t \in Screens \ {a} : panel'[t] = panel[t]
      BY <1>3, AdminIs DEF ScreensInv, PanelsHold
    <1>9. ~Sending(a)
      BY DEF ScreensInv, WaitsHold, Sending
    <1>10. panel[a].shown.drafts \in Nat /\ kind # "none"
      BY <1>1 DEF Panels, Details, Outcome
    <1>. QED  BY <1>1, <1>2, <1>3, <1>7, <1>8, <1>9, <1>10, AdminIs, SendKept

LEMMA PressDecisionKept ==
    ASSUME ScreensInv, NEW a \in Admins, NEW command \in {"approve", "approve_proposal"},
           PressDecision(a, command)
    PROVE  ScreensInv'
    <1>1. /\ panel[a].kind = "loaded" /\ panel[a].busy = "none"
          /\ command \in ActionsFor("admin", panel[a].shown)
          /\ Decide(a, command, 0, panel[a].shown.moves)
      BY AdminIs DEF PressDecision, Commands
    <1>2. /\ panel[a] \in Panels /\ PanelHolds(panel[a], rows[panel[a].content], today)
      BY <1>1, AdminIs, PanelIs
    <1>3. Tells(panel[a].shown, rows[panel[a].content], today)
      BY <1>1, <1>2 DEF PanelHolds, ShownHolds
    <1>4. panel[a].shown.moves \in Nat /\ command \in DOMAIN Outcome /\ command # "revise"
      BY <1>2 DEF Panels, Details, Outcome
    <1>. QED  BY <1>1, <1>3, <1>4, AdminOffers, DecideKept

LEMMA SubmitKept ==
    ASSUME ScreensInv, NEW a \in Admins, SubmitRevision(a) \/ SubmitRejection(a)
    PROVE  ScreensInv'
    <1>. DEFINE p == panel[a]  row == rows[p.content]
    <1>1. p.form \in OPENS_FORM /\ p.busy = "none" /\ p.form # "none"
      BY DEF SubmitRevision, SubmitRejection, OPENS_FORM
    <1>2. p.kind = "loaded"
      BY <1>1, AdminIs, PanelIs DEF PanelHolds, ScreensInv, PanelsHold, Closed
    <1>3. /\ p \in Panels /\ p.content \in Contents /\ PanelHolds(p, row, today)
      BY <1>2, AdminIs, PanelIs
    <1>4. /\ Tells(p.shown, row, today) /\ FormHolds(p, row, today)
      BY <1>1, <1>2, <1>3 DEF PanelHolds, ShownHolds
    <1>5. /\ p.since \in Nat /\ p.about \in Nat /\ p.shown.moves \in Nat /\ row.moves \in Nat
      <2>1. RowsGoOn
        BY RowsStand DEF ScreensInv, SubmitRevision, SubmitRejection, Decide
      <2>. QED  BY <1>3, <2>1, RowFacts DEF Panels, Details
    <1>6. /\ Begun(p.form, p.since, row, today)
          /\ p.since = row.moves => p.shown.drafts = row.drafts
          /\ p.about # 0 => p.shown.drafts = p.about
      BY <1>4, <1>5 DEF FormHolds, Tells
    <1>7. "revise" \in DOMAIN Outcome /\ "reject_proposal" \in DOMAIN Outcome
      BY DEF Outcome
    <1>8. CASE SubmitRevision(a)
      <2>1. p.form = "revise" /\ Decide(a, "revise", p.about, p.since)
        BY <1>8 DEF SubmitRevision
      <2>. QED  BY <1>1, <1>2, <1>5, <1>6, <1>7, <2>1, DecideKept
    <1>9. CASE SubmitRejection(a)
      <2>1. p.form = "reject_proposal" /\ Decide(a, "reject_proposal", 0, p.since)
        BY <1>9 DEF SubmitRejection
      <2>. QED  BY <1>1, <1>2, <1>5, <1>6, <1>7, <2>1, DecideKept
    <1>. QED  BY <1>8, <1>9

-----------------------------------------------------------------------------
(* The creator's submit form.                                              *)

LEMMA OpenModalKept ==
    ASSUME ScreensInv, UNCHANGED <<rows, today, sent>>, modal = NoModal, panel'[Creator] = Closed, PanelsHold',
           \A a \in Admins : panel'[a] = panel[a],
           NEW c \in Contents, NEW action \in HandIns, NEW row \in Details, NEW screen \in Details,
           Begun(action, screen.moves, rows[c], today), OpenModal(c, action, row, screen)
    PROVE  ScreensInv'
    <1>1. RowsGoOn
      BY RowsStand DEF ScreensInv
    <1>2. /\ screen.moves \in Nat /\ row.drafts \in Nat /\ screen.drafts \in Nat
          /\ RevisionNotes(row) \in Nat /\ RevisionNotes(screen) \in Nat
      BY DEF Details, RevisionNotes
    <1>3. /\ modal' \in [content : Contents, action : HandIns, seen : Nat, note : Nat, asked : Nat]
          /\ modal'.content = c /\ modal'.action = action /\ modal'.seen = screen.moves
      BY <1>2 DEF OpenModal
    <1>4. ModalHolds'
      BY <1>3 DEF ModalHolds
    <1>5. RequestsHold'
      BY <1>1, SlotsStand DEF ScreensInv
    <1>6. modal' # NoModal
      BY <1>3, ContentScreensAssumption DEF NoModal
    <1>7. WaitsHold'
      BY <1>6 DEF ScreensInv, WaitsHold
    <1>. QED  BY <1>1, <1>4, <1>5, <1>7 DEF ScreensInv, RowsGoOn

LEMMA PressRowKept ==
    ASSUME ScreensInv, NEW c \in Contents, NEW action \in HandIns, PressRow(c, action)
    PROVE  ScreensInv'
    <1>1. PICK row \in rows[c].was : action \in row.actions /\ OpenModal(c, action, row, row)
      BY DEF PressRow
    <1>2. /\ UNCHANGED <<rows, today, panel, sent>> /\ modal = NoModal /\ panel[Creator] = Closed
      BY DEF PressRow
    <1>3. Tells(row, rows[c], today)
      BY DEF ScreensInv, RowsHold, RowHolds
    <1>4. row \in Details /\ Begun(action, row.moves, rows[c], today)
      BY <1>1, <1>3 DEF Tells
    <1>5. PanelsHold'
      BY <1>2, RowsStand, PanelsStand DEF ScreensInv
    <1>. QED  BY <1>1, <1>2, <1>4, <1>5, OpenModalKept

LEMMA OpenSubmitKept ==
    ASSUME ScreensInv, NEW action \in HandIns, OpenSubmitFromPanel(action)
    PROVE  ScreensInv'
    <1>. DEFINE p == panel[Creator]
    <1>0. Creator \in Screens /\ Role(Creator) = "creator"
      BY DEF Screens, Role
    <1>1. /\ p.kind = "loaded" /\ action \in ActionsFor("creator", p.shown)
          /\ UNCHANGED <<rows, today, sent>> /\ panel' = [panel EXCEPT ![Creator] = Closed]
      BY <1>0 DEF OpenSubmitFromPanel, Commands
    <1>2. PICK row \in rows[p.content].was : OpenModal(p.content, action, row, p.shown)
      BY DEF OpenSubmitFromPanel
    <1>3. /\ p \in Panels /\ p.content \in Contents /\ PanelHolds(p, rows[p.content], today)
          /\ modal = NoModal
      BY <1>0, <1>1, PanelIs
    <1>4. Tells(row, rows[p.content], today)
      BY <1>3 DEF ScreensInv, RowsHold, RowHolds
    <1>5. Tells(p.shown, rows[p.content], today)
      BY <1>1, <1>3 DEF PanelHolds, ShownHolds
    <1>6. row \in Details /\ p.shown \in Details /\ Begun(action, p.shown.moves, rows[p.content], today)
      BY <1>1, <1>4, <1>5, CreatorOffers DEF Tells
    <1>7. /\ Closed \in Panels /\ Closed.kind = "closed" /\ Closed.form = "none" /\ Closed.busy = "none"
      BY DEF Closed, Panels, NoDetail, Details
    <1>8. RowsGoOn
      BY <1>1, RowsStand DEF ScreensInv
    <1>9. PanelsHold'
      BY <1>0, <1>1, <1>7, <1>8, PanelSet DEF ScreensInv
    <1>10. panel'[Creator] = Closed /\ \A a \in Admins : panel'[a] = panel[a]
      BY <1>0, <1>1, AdminIs DEF ScreensInv, PanelsHold
    <1>. QED  BY <1>1, <1>2, <1>3, <1>6, <1>9, <1>10, OpenModalKept

LEMMA CloseModalKept ==
    ASSUME ScreensInv, CloseModal
    PROVE  ScreensInv'
    <1>1. UNCHANGED <<rows, today, panel, sent>> /\ modal' = NoModal /\ ~Sending(Creator)
      BY DEF CloseModal
    <1>2. RowsGoOn
      BY <1>1, RowsStand DEF ScreensInv
    <1>3. PanelsHold' /\ RequestsHold'
      BY <1>1, <1>2, PanelsStand, SlotsStand DEF ScreensInv
    <1>4. WaitsHold'
      BY <1>1 DEF ScreensInv, WaitsHold, Sending
    <1>5. ModalHolds'
      BY <1>1 DEF ModalHolds
    <1>. QED  BY <1>2, <1>3, <1>4, <1>5 DEF ScreensInv, RowsGoOn

LEMMA HandSubmitKept ==
    ASSUME ScreensInv, HandleSubmit
    PROVE  ScreensInv'
    <1>1. /\ UNCHANGED <<rows, today, panel, modal>> /\ modal # NoModal /\ ~Sending(Creator)
          /\ Send(Creator, modal.action, modal.content, 0, 0, modal.seen)
      BY DEF HandleSubmit
    <1>2. /\ modal.content \in Contents /\ modal.action \in HandIns /\ modal.seen \in Nat
          /\ Begun(modal.action, modal.seen, rows[modal.content], today)
      BY <1>1 DEF ScreensInv, ModalHolds
    <1>3. modal.action \in DOMAIN Outcome /\ modal.action \notin {"approve", "revise"}
      BY <1>2 DEF HandIns, Outcome
    <1>4. Creator \in Screens /\ panel' = panel
      BY <1>1 DEF Screens
    <1>5. PanelsHold'
      BY <1>1, RowsStand, PanelsStand DEF ScreensInv
    <1>. QED  BY <1>1, <1>2, <1>3, <1>4, <1>5, SendKept

-----------------------------------------------------------------------------
(* Requests that arrive and answers that come.                             *)

\* A step that changes one request, and of who waits for it at most that nobody does.
LEMMA SlotStep ==
    ASSUME ScreensInv, RowsGoOn, PanelsHold', NEW s \in Screens, NEW k \in Slots, NEW q \in Requests,
           sent' = [sent EXCEPT ![s][k] = q],
           q = IdleSlot \/ SlotFits(q, rows', today'),
           q.mine => sent[s][k].mine /\ q.content = sent[s][k].content,
           \A t \in Screens \ {s} : panel'[t] = panel[t],
           IF q.mine \/ ~sent[s][k].mine THEN panel' = panel
           ELSE s # Creator => panel'[s].busy = "none",
           s = Creator => panel' = panel /\ (q.phase \notin {"idle", "deaf"} => q.mine),
           \/ UNCHANGED modal
           \/ modal' = NoModal /\ s = Creator /\ sent[s][k].mine /\ ~q.mine
    PROVE  ScreensInv'
    <1>1. /\ sent' \in [Screens -> [Slots -> Requests]] /\ sent'[s][k] = q
          /\ \A l \in Slots \ {k} : sent'[s][l] = sent[s][l]
          /\ \A t \in Screens \ {s} : sent'[t] = sent[t]
      BY DEF ScreensInv, RequestsHold
    <1>2. RequestsHold'
      <2>1. \A t \in Screens, l \in Slots : t # s \/ l # k => SlotStays(sent[t][l], sent'[t][l])
        BY <1>1 DEF SlotStays
      <2>2. SlotStays(sent[s][k], sent'[s][k]) \/ SlotFits(sent'[s][k], rows', today')
        BY <1>1 DEF SlotStays
      <2>. QED  BY <1>1, <2>1, <2>2, SlotsSet DEF ScreensInv
    <1>3. WaitsHold'
      <2>1. \A t \in Screens : \A l, m \in Slots : sent'[t][l].mine /\ sent'[t][m].mine => l = m
        BY <1>1 DEF ScreensInv, WaitsHold
      <2>2. ASSUME NEW a \in Admins, panel'[a].busy # "none"
            PROVE  \E l \in Slots : sent'[a][l].mine
        <3>1. CASE a # s
          BY <1>1, <2>2, <3>1, AdminIs DEF ScreensInv, WaitsHold
        <3>2. CASE a = s
          <4>1. panel' = panel /\ (q.mine \/ ~sent[s][k].mine)
            BY <2>2, <3>2, AdminIs
          <4>2. PICK l \in Slots : sent[a][l].mine
            BY <2>2, <4>1 DEF ScreensInv, WaitsHold
          <4>. QED  BY <1>1, <3>2, <4>1, <4>2
        <3>. QED  BY <3>1, <3>2
      <2>3. ASSUME NEW a \in Admins, NEW l \in Slots, sent'[a][l].mine
            PROVE  panel'[a].kind = "loaded" /\ panel'[a].busy # "none" /\ sent'[a][l].content = panel'[a].content
        <3>1. sent[a][l].mine /\ sent'[a][l].content = sent[a][l].content
          BY <1>1, <2>3, AdminIs
        <3>2. panel'[a] = panel[a]
          <4>1. CASE a = s /\ ~q.mine /\ sent[s][k].mine
            <5>1. l = k
              BY <3>1, <4>1 DEF ScreensInv, WaitsHold
            <5>. QED  BY <1>1, <2>3, <4>1, <5>1
          <4>2. CASE ~(a = s /\ ~q.mine /\ sent[s][k].mine)
            BY <4>2, AdminIs
          <4>. QED  BY <4>1, <4>2
        <3>. QED  BY <3>1, <3>2 DEF ScreensInv, WaitsHold
      <2>4. ASSUME NEW l \in Slots, sent'[Creator][l].phase \notin {"idle", "deaf"}
            PROVE  sent'[Creator][l].mine /\ modal' # NoModal
        <3>0. Creator \in Screens
          BY DEF Screens
        <3>1. sent'[Creator][l].mine
          BY <1>1, <2>4, <3>0 DEF ScreensInv, WaitsHold
        <3>2. sent[Creator][l].mine
          BY <1>1, <3>0, <3>1
        <3>3. modal # NoModal
          BY <3>0, <3>2, SentIs DEF ScreensInv, WaitsHold
        <3>4. CASE UNCHANGED modal
          BY <3>1, <3>3, <3>4
        <3>5. CASE s = Creator /\ sent[s][k].mine /\ ~q.mine
          <4>1. l = k
            BY <3>2, <3>5 DEF ScreensInv, WaitsHold
          <4>. QED  BY <1>1, <3>1, <3>5, <4>1
        <3>. QED  BY <3>4, <3>5
      <2>. QED  BY <2>1, <2>2, <2>3, <2>4 DEF WaitsHold
    <1>4. ModalHolds'
      <2>1. CASE modal' = NoModal
        BY <2>1 DEF ModalHolds
      <2>2. CASE modal' # NoModal
        <3>1. UNCHANGED modal /\ panel'[Creator] = panel[Creator]
          BY <2>2 DEF Screens
        <3>2. modal # NoModal => panel'[Creator] = Closed
          BY <3>1 DEF ScreensInv, ModalHolds
        <3>. QED  BY <3>1, <3>2, ModalStands DEF ScreensInv
      <2>. QED  BY <2>1, <2>2
    <1>. QED  BY <1>2, <1>3, <1>4 DEF ScreensInv, RowsGoOn

LEMMA ArrivesKept ==
    ASSUME ScreensInv, NEW s \in Screens, NEW k \in Slots, RequestArrives(s, k)
    PROVE  ScreensInv'
    <1>. DEFINE q   == sent[s][k]
                row == Swept[q.content]
                ok  == Accepts(q, row)
                answered == [q EXCEPT !.at = row.moves,
                               !.phase = IF ok THEN "ok"
                                         ELSE IF row.status = "removed" THEN "missing"
                                         ELSE "conflict"]
                next == IF q.phase = "deaf" THEN IdleSlot ELSE answered
    <1>1. /\ q.phase \in {"asked", "deaf"} /\ UNCHANGED <<today, panel, modal>>
          /\ rows' = IF ok THEN [Swept EXCEPT ![q.content] = Applied(q, row)] ELSE Swept
          /\ sent' = [sent EXCEPT ![s][k] = next]
      BY DEF RequestArrives
    <1>2. /\ q \in Requests /\ q.content \in Contents /\ q.kind \in DOMAIN Outcome
          /\ SlotHolds(q, rows[q.content], today)
          /\ q.phase = "deaf" => ~q.mine
      BY <1>1, SentIs
    <1>3. RowsGoOn
      <2>1. CASE ok
        BY <1>1, <1>2, <2>1, RowsArrive DEF ScreensInv
      <2>2. CASE ~ok
        BY <1>1, <2>2, RowsSwept DEF ScreensInv
      <2>. QED  BY <2>1, <2>2
    <1>4. /\ RowHolds(row, today) /\ GoesOn(rows[q.content], row) /\ RowTyped(row) /\ RowTyped(rows[q.content])
          /\ today \in Int /\ row.moves \in Nat
      BY <1>2, <1>3, SweptStands, RowFacts DEF RowsGoOn, RowsHold, RowHolds, RowTyped
    <1>5. row.moves <= rows'[q.content].moves
      <2>1. CASE ok
        <3>1. rows'[q.content] = Applied(q, row)
          BY <1>1, <1>2, <2>1, SweptStands DEF ScreensInv
        <3>2. Applied(q, row).moves = row.moves + 1
          BY <1>2, <1>4, AppliedStands DEF ScreensInv
        <3>. QED  BY <1>4, <3>1, <3>2
      <2>2. CASE ~ok
        BY <1>1, <1>4, <2>2
      <2>. QED  BY <2>1, <2>2
    <1>6. SlotHolds(q, row, today)
      BY <1>2, <1>4, SlotLasts
    <1>7. ~ok => q.seen < row.moves
      <2>1. q.seen \in Nat
        BY <1>2 DEF Requests
      <2>2. /\ q.seen <= row.moves
            /\ q.seen = row.moves => Takes(q.kind, row.status, today)
            /\ q.kind \in {"approve", "revise"} /\ q.seen = row.moves => q.draft = row.drafts
        BY <1>1, <1>6 DEF SlotHolds, Begun
      <2>3. q.seen = row.moves => ok
        BY <2>2, TakesIs
      <2>. QED  BY <1>4, <2>1, <2>2, <2>3
    <1>8. /\ next \in Requests /\ (next = IdleSlot \/ SlotFits(next, rows', today'))
          /\ next.mine => q.mine /\ next.content = q.content
          /\ q.phase # "deaf" => next.mine = q.mine /\ next.phase \notin {"idle", "deaf"}
      <2>1. CASE q.phase = "deaf"
        BY <2>1, IdleIs
      <2>2. CASE q.phase # "deaf"
        <3>. DEFINE phase == IF ok THEN "ok" ELSE IF row.status = "removed" THEN "missing" ELSE "conflict"
        <3>1. phase \in {"ok", "missing", "conflict"} /\ (phase # "ok" => ~ok)
          OBVIOUS
        <3>2. next = [q EXCEPT !.at = row.moves, !.phase = phase]
          BY <2>2
        <3>. HIDE DEF phase, next, answered, ok
        <3>3. /\ next \in Requests /\ next.phase = phase /\ next.at = row.moves /\ next.mine = q.mine
              /\ next.content = q.content /\ next.kind = q.kind /\ next.seen = q.seen
              /\ next.about = q.about /\ next.draft = q.draft
          <4>1. row.moves \in Nat /\ phase \in {"idle", "asked", "deaf", "ok", "conflict", "missing"}
            BY <1>4, <3>1
          <4>. HIDE DEF row, q
          <4>. QED  BY <1>2, <3>2, <4>1 DEF Requests
        <3>4. SlotHolds(next, rows'[q.content], today')
          <4>. HIDE DEF row, q
          <4>. QED  BY <1>5, <1>6, <1>7, <3>1, <3>3 DEF SlotHolds
        <3>. QED  BY <3>1, <3>3, <3>4 DEF SlotFits
      <2>. QED  BY <2>1, <2>2
    <1>9. PanelsHold'
      BY <1>1, <1>3, PanelsStand DEF ScreensInv
    <1>10. s = Creator /\ q.phase = "asked" => q.mine
      BY DEF ScreensInv, WaitsHold
    <1>11. s = Creator => (next.phase \notin {"idle", "deaf"} => next.mine)
      BY <1>1, <1>8, <1>10, IdleIs
    <1>12. panel' = panel /\ UNCHANGED modal
      BY <1>1
    <1>13. sent' = [sent EXCEPT ![s][k] = next]
      BY <1>1
    <1>14. next.mine => sent[s][k].mine /\ next.content = sent[s][k].content
      BY <1>8
    <1>15. ~next.mine => ~sent[s][k].mine
      BY <1>2, <1>8
    <1>. HIDE DEF next, q
    <1>. QED  BY <1>3, <1>8, <1>9, <1>11, <1>12, <1>13, <1>14, <1>15, SlotStep

LEMMA ConfirmedKept ==
    ASSUME ScreensInv, NEW a \in Admins, NEW k \in Slots, DecisionConfirmed(a, k)
    PROVE  ScreensInv'
    <1>. DEFINE slots == [sent[a] EXCEPT ![k] = IdleSlot]
    <1>1. /\ sent' = [sent EXCEPT ![a] = Orphaned(slots)] /\ panel' = [panel EXCEPT ![a] = Closed]
          /\ UNCHANGED <<rows, today, modal>>
      <2>1. a \in DOMAIN sent
        BY AdminIs DEF ScreensInv, RequestsHold
      <2>. QED  BY <2>1 DEF DecisionConfirmed
    <1>2. RowsGoOn
      BY <1>1, RowsStand DEF ScreensInv
    <1>3. /\ Closed \in Panels /\ Closed.kind = "closed" /\ Closed.form = "none" /\ Closed.busy = "none"
      BY DEF Closed, Panels, NoDetail, Details
    <1>4. PanelsHold'
      BY <1>1, <1>2, <1>3, AdminIs, PanelSet DEF ScreensInv
    <1>5. slots \in [Slots -> Requests]
      BY AdminIs, IdleIs DEF ScreensInv, RequestsHold
    <1>6. /\ \A l \in Slots : sent'[a][l] = [slots[l] EXCEPT !.mine = FALSE]
          /\ \A t \in Screens \ {a} : sent'[t] = sent[t]
      BY <1>1, AdminIs DEF ScreensInv, RequestsHold, Orphaned
    <1>7. /\ sent'[a][k] = IdleSlot
          /\ \A l \in Slots \ {k} : sent'[a][l] = [sent[a][l] EXCEPT !.mine = FALSE]
      <2>1. [IdleSlot EXCEPT !.mine = FALSE] = IdleSlot
        BY IdleIs DEF Requests
      <2>2. slots[k] = IdleSlot /\ \A l \in Slots \ {k} : slots[l] = sent[a][l]
        BY AdminIs DEF ScreensInv, RequestsHold
      <2>. QED  BY <1>6, <2>1, <2>2
    <1>8. \A l \in Slots : sent'[a][l] \in Requests /\ ~sent'[a][l].mine
      <2>1. \A q \in Requests : LET next == [q EXCEPT !.mine = FALSE] IN next \in Requests /\ ~next.mine
        BY OrphanIs
      <2>. HIDE DEF slots
      <2>2. \A l \in Slots : LET next == [slots[l] EXCEPT !.mine = FALSE] IN next \in Requests /\ ~next.mine
        BY <1>5, <2>1
      <2>. QED  BY <1>6, <2>2, Zenon
    <1>9. sent' \in [Screens -> [Slots -> Requests]]
      <2>1. Orphaned(slots) \in [Slots -> Requests]
        <3>. HIDE DEF slots
        <3>1. sent'[a] = Orphaned(slots)
          BY <1>1, AdminIs DEF ScreensInv, RequestsHold
        <3>. QED  BY <1>8, <3>1 DEF Orphaned
      <2>. QED  BY <1>1, <2>1 DEF ScreensInv, RequestsHold
    <1>10. RequestsHold'
      <2>1. \A t \in Screens, l \in Slots : SlotStays(sent[t][l], sent'[t][l])
        BY <1>6, <1>7 DEF SlotStays
      <2>. QED  BY <1>2, <1>9, <2>1, SlotsSet DEF ScreensInv
    <1>11. panel'[a] = Closed /\ \A t \in Screens \ {a} : panel'[t] = panel[t]
      BY <1>1, AdminIs DEF ScreensInv, PanelsHold
    <1>12. WaitsHold'
      <2>1. \A t \in Screens : \A l, m \in Slots : sent'[t][l].mine /\ sent'[t][m].mine => l = m
        BY <1>6, <1>8 DEF ScreensInv, WaitsHold
      <2>2. \A b \in Admins : panel'[b].busy # "none" => \E l \in Slots : sent'[b][l].mine
        BY <1>3, <1>6, <1>11, AdminIs DEF ScreensInv, WaitsHold
      <2>3. \A b \in Admins, l \in Slots : sent'[b][l].mine =>
              panel'[b].kind = "loaded" /\ panel'[b].busy # "none" /\ sent'[b][l].content = panel'[b].content
        BY <1>6, <1>8, <1>11, AdminIs DEF ScreensInv, WaitsHold
      <2>4. \A l \in Slots : sent'[Creator][l].phase \notin {"idle", "deaf"} => sent'[Creator][l].mine /\ modal' # NoModal
        BY <1>1, <1>6, AdminIs DEF ScreensInv, WaitsHold, Screens
      <2>. QED  BY <2>1, <2>2, <2>3, <2>4 DEF WaitsHold
    <1>13. ModalHolds'
      <2>1. modal # NoModal => panel'[Creator] = Closed
        BY <1>11, AdminIs DEF ScreensInv, ModalHolds, Screens
      <2>. QED  BY <1>1, <1>2, <2>1, ModalStands DEF ScreensInv
    <1>. QED  BY <1>2, <1>4, <1>10, <1>12, <1>13 DEF ScreensInv, RowsGoOn

LEMMA RefusedKept ==
    ASSUME ScreensInv, NEW a \in Admins, NEW k \in Slots, DecisionRefused(a, k)
    PROVE  ScreensInv'
    <1>. DEFINE q == sent[a][k]  p == panel[a]  closed == FormClosed(p)
                next == [ReadAgain(closed) EXCEPT !.busy = "none", !.owed = q.at]
    <1>1. /\ q.phase = "conflict" /\ UNCHANGED <<rows, today, modal>>
          /\ sent' = [sent EXCEPT ![a][k] = IdleSlot]
          /\ panel' = IF q.mine THEN [panel EXCEPT ![a] = next] ELSE panel
      <2>1. a \in DOMAIN panel
        BY AdminIs DEF ScreensInv, PanelsHold
      <2>. QED  BY <2>1 DEF DecisionRefused
    <1>2. RowsGoOn
      BY <1>1, RowsStand DEF ScreensInv
    <1>3. /\ q \in Requests /\ q.content \in Contents /\ SlotHolds(q, rows[q.content], today)
      BY <1>1, AdminIs, SentIs
    <1>4. q.at \in Nat /\ q.at <= rows[q.content].moves
      BY <1>1, <1>3 DEF SlotHolds, Requests
    <1>5. IdleSlot \in Requests /\ ~IdleSlot.mine
      BY IdleIs
    <1>6. CASE ~q.mine
      <2>1. panel' = panel
        BY <1>1, <1>6
      <2>2. PanelsHold'
        BY <1>2, <2>1, PanelsStand DEF ScreensInv
      <2>. QED  BY <1>1, <1>2, <1>5, <1>6, <2>1, <2>2, AdminIs, SlotStep
    <1>7. CASE q.mine
      <2>1. p.kind = "loaded" /\ p.content = q.content
        BY <1>7 DEF ScreensInv, WaitsHold
      <2>2. p \in Panels /\ p.content \in Contents /\ PanelHolds(p, rows[p.content], today)
        BY <2>1, AdminIs, PanelIs
      <2>3. /\ closed \in Panels /\ PanelHolds(closed, rows[p.content], today)
            /\ closed.kind = "loaded" /\ closed.content = p.content /\ closed.form = "none"
            /\ closed.shown = p.shown
        BY <2>1, <2>2, ClosedFormHolds
      <2>4. panel' = [panel EXCEPT ![a] = next]
        BY <1>1, <1>7
      <2>. HIDE DEF closed
      <2>5. /\ next \in Panels /\ next.kind = "loaded" /\ next.content = p.content /\ next.form = "none"
            /\ next.busy = "none" /\ next.owed = q.at /\ next.reading = {Asked} /\ next.shown = p.shown
        <3>1. Asked \in [phase : {"asked", "answered", "gone"}, detail : Details]
          BY DEF Asked, NoDetail, Details
        <3>. QED  BY <1>4, <2>3, <3>1 DEF ReadAgain, Panels
      <2>. HIDE DEF next
      <2>6. PanelHolds(next, rows[p.content], today)
        <3>1. Tells(p.shown, rows[p.content], today)
          BY <2>1, <2>2 DEF PanelHolds, ShownHolds
        <3>2. q.at <= rows[p.content].moves
          BY <1>4, <2>1
        <3>. HIDE DEF p
        <3>. QED  BY <2>5, <3>1, <3>2 DEF PanelHolds, ShownHolds, ReadingHolds
      <2>7. next.content \in Contents /\ PanelHolds(next, rows'[next.content], today')
        BY <1>1, <2>2, <2>5, <2>6
      <2>8. PanelsHold'
        BY <1>2, <2>4, <2>5, <2>7, AdminIs, PanelSet DEF ScreensInv
      <2>9. panel'[a] = next /\ \A t \in Screens \ {a} : panel'[t] = panel[t]
        BY <2>4, AdminIs DEF ScreensInv, PanelsHold
      <2>. QED  BY <1>1, <1>2, <1>5, <1>7, <2>5, <2>8, <2>9, AdminIs, SlotStep
    <1>. QED  BY <1>6, <1>7

\* A request that is lost, answered with an error, or given up.
LEMMA UnansweredIs ==
    ASSUME ScreensInv, NEW s \in Screens, NEW k \in Slots, Unanswered(s, k), UNCHANGED <<rows, today>>
    PROVE  \E q \in Requests :
              /\ sent' = [sent EXCEPT ![s][k] = q] /\ ~q.mine /\ q.phase \in {"idle", "deaf"}
              /\ q = IdleSlot \/ SlotFits(q, rows', today')
    <1>1. CASE sent' = [sent EXCEPT ![s][k] = IdleSlot]
      BY <1>1, IdleIs
    <1>2. CASE /\ sent[s][k].phase = "asked"
               /\ sent' = [sent EXCEPT ![s][k].phase = "deaf", ![s][k].mine = FALSE]
      <2>. DEFINE q == sent[s][k]  next == [q EXCEPT !.phase = "deaf", !.mine = FALSE]
      <2>1. q \in Requests /\ q.content \in Contents /\ SlotHolds(q, rows[q.content], today)
        BY <1>2, SentIs
      <2>2. sent' = [sent EXCEPT ![s][k] = next]
        BY <1>2 DEF ScreensInv, RequestsHold, Requests
      <2>3. /\ next \in Requests /\ ~next.mine /\ next.phase = "deaf" /\ next.content = q.content
            /\ next.kind = q.kind /\ next.seen = q.seen /\ next.about = q.about /\ next.draft = q.draft
        BY <2>1 DEF Requests
      <2>4. q.phase = "asked"
        BY <1>2
      <2>. HIDE DEF next
      <2>5. SlotHolds(next, rows[q.content], today)
        <3>. HIDE DEF q
        <3>. QED  BY <2>1, <2>3, <2>4 DEF SlotHolds
      <2>6. SlotFits(next, rows', today')
        BY <2>3, <2>5 DEF SlotFits
      <2>. QED  BY <2>2, <2>3, <2>6
    <1>. QED  BY <1>1, <1>2 DEF Unanswered

LEMMA DecisionFailsKept ==
    ASSUME ScreensInv, NEW a \in Admins, NEW k \in Slots, DecisionFails(a, k)
    PROVE  ScreensInv'
    <1>. DEFINE p == panel[a]  next == [p EXCEPT !.busy = "none"]
    <1>1. /\ Unanswered(a, k) /\ UNCHANGED <<rows, today, modal>>
          /\ panel' = IF sent[a][k].mine THEN [panel EXCEPT ![a] = next] ELSE panel
      BY DEF DecisionFails
    <1>2. PICK q \in Requests :
              /\ sent' = [sent EXCEPT ![a][k] = q] /\ ~q.mine /\ q.phase \in {"idle", "deaf"}
              /\ q = IdleSlot \/ SlotFits(q, rows', today')
      BY <1>1, AdminIs, UnansweredIs
    <1>3. RowsGoOn
      BY <1>1, RowsStand DEF ScreensInv
    <1>4. CASE ~sent[a][k].mine
      <2>1. panel' = panel
        BY <1>1, <1>4
      <2>2. PanelsHold'
        BY <1>3, <2>1, PanelsStand DEF ScreensInv
      <2>. QED  BY <1>1, <1>2, <1>3, <1>4, <2>1, <2>2, AdminIs, SlotStep
    <1>5. CASE sent[a][k].mine
      <2>1. p.kind = "loaded"
        BY <1>5 DEF ScreensInv, WaitsHold
      <2>2. p \in Panels /\ p.content \in Contents /\ PanelHolds(p, rows[p.content], today)
        BY <2>1, AdminIs, PanelIs
      <2>3. panel' = [panel EXCEPT ![a] = next]
        BY <1>1, <1>5
      <2>4. /\ next \in Panels /\ next.kind = "loaded" /\ next.content = p.content /\ next.form = p.form
            /\ next.busy = "none" /\ next.owed = p.owed /\ next.reading = p.reading /\ next.shown = p.shown
            /\ next.since = p.since /\ next.about = p.about
        BY <2>1, <2>2 DEF Panels
      <2>. HIDE DEF next
      <2>5. PanelHolds(next, rows[p.content], today)
        <3>. DEFINE row == rows[p.content]
        <3>1. PanelHolds(p, row, today) /\ p.kind = "loaded"
          BY <2>1, <2>2
        <3>. HIDE DEF row, p
        <3>2. PanelHolds(next, row, today)
          BY <2>4, <3>1 DEF PanelHolds, ReadingHolds, ShownHolds, FormHolds
        <3>. QED  BY <3>2 DEF row
      <2>6. next.content \in Contents /\ PanelHolds(next, rows'[next.content], today')
        BY <1>1, <2>2, <2>4, <2>5
      <2>7. PanelsHold'
        BY <1>3, <2>3, <2>4, <2>6, AdminIs, PanelSet DEF ScreensInv
      <2>8. panel'[a] = next /\ \A t \in Screens \ {a} : panel'[t] = panel[t]
        BY <2>3, AdminIs DEF ScreensInv, PanelsHold
      <2>. QED  BY <1>1, <1>2, <1>3, <1>5, <2>4, <2>7, <2>8, AdminIs, SlotStep
    <1>. QED  BY <1>4, <1>5

LEMMA HandInKept ==
    ASSUME ScreensInv, NEW k \in Slots, HandInConfirmed(k) \/ HandInFails(k)
    PROVE  ScreensInv'
    <1>0. Creator \in Screens
      BY DEF Screens
    <1>1. UNCHANGED <<rows, today, panel>> /\ panel' = panel
      BY DEF HandInConfirmed, HandInFails
    <1>2. RowsGoOn
      BY <1>1, RowsStand DEF ScreensInv
    <1>3. PanelsHold'
      BY <1>1, <1>2, PanelsStand DEF ScreensInv
    <1>4. \A a \in Admins : panel[a].busy = "none" => panel'[a].busy = "none"
      BY <1>1
    <1>5. CASE HandInConfirmed(k)
      <2>1. sent[Creator][k].mine
        BY <1>5 DEF HandInConfirmed, ScreensInv, WaitsHold
      <2>2. sent' = [sent EXCEPT ![Creator][k] = IdleSlot] /\ modal' = NoModal
        BY <1>5 DEF HandInConfirmed
      <2>. QED  BY <1>0, <1>1, <1>2, <1>3, <2>1, <2>2, IdleIs, SlotStep
    <1>6. CASE HandInFails(k)
      <2>1. Unanswered(Creator, k) /\ UNCHANGED modal
        BY <1>6 DEF HandInFails
      <2>2. PICK q \in Requests :
              /\ sent' = [sent EXCEPT ![Creator][k] = q] /\ ~q.mine /\ q.phase \in {"idle", "deaf"}
              /\ q = IdleSlot \/ SlotFits(q, rows', today')
        BY <1>0, <1>1, <2>1, UnansweredIs
      <2>. QED  BY <1>0, <1>1, <1>2, <1>3, <2>1, <2>2, SlotStep
    <1>. QED  BY <1>5, <1>6

-----------------------------------------------------------------------------
(* The invariant, and what follows from it.                                *)

LEMMA ScreensStart == Init => ScreensInv
    <1>. SUFFICES ASSUME Init
                  PROVE  ScreensInv
      OBVIOUS
    <1>1. RowsHold
      <2>. DEFINE first == [status |-> "pending", drafts |-> 0, moves |-> 0, was |-> {}]
      <2>1. RowTyped(first) /\ first.status \notin REVIEWABLE_STATUSES /\ first.was = {}
        BY DEF RowTyped, CONTENT_STATUSES, REVIEWABLE_STATUSES
      <2>2. \A c \in Contents : rows[c] = Shown(first, 0)
        BY DEF Init
      <2>. HIDE DEF first
      <2>3. RowHolds(Shown(first, 0), 0)
        BY <2>1, ShownStands
      <2>4. today = 0 /\ 0 \in 0..LastDay /\ rows = [c \in Contents |-> rows[c]]
        BY ContentScreensAssumption DEF Init
      <2>. QED  BY <2>2, <2>3, <2>4 DEF RowsHold
    <1>2. /\ Closed \in Panels /\ Closed.kind = "closed" /\ Closed.form = "none" /\ Closed.busy = "none"
      BY DEF Closed, Panels, NoDetail, Details
    <1>3. /\ panel \in [Screens -> Panels] /\ \A s \in Screens : panel[s] = Closed
      BY <1>2 DEF Init
    <1>4. Creator \in Screens
      BY DEF Screens
    <1>5. PanelsHold
      BY <1>2, <1>3, <1>4 DEF PanelsHold
    <1>6. /\ sent \in [Screens -> [Slots -> Requests]]
          /\ \A s \in Screens, k \in Slots : sent[s][k] = IdleSlot
      BY IdleIs DEF Init
    <1>7. RequestsHold
      BY <1>6, IdleIs DEF RequestsHold
    <1>8. WaitsHold
      BY <1>2, <1>3, <1>4, <1>6, AdminIs, IdleIs DEF WaitsHold
    <1>9. ModalHolds
      BY DEF Init, ModalHolds
    <1>. QED  BY <1>1, <1>5, <1>7, <1>8, <1>9 DEF ScreensInv

LEMMA DayKept ==
    ASSUME ScreensInv, DayPasses
    PROVE  ScreensInv'
    <1>1. RowsGoOn /\ UNCHANGED <<panel, sent, modal>>
      BY RowsAge DEF ScreensInv, DayPasses
    <1>2. PanelsHold' /\ RequestsHold'
      BY <1>1, PanelsStand, SlotsStand DEF ScreensInv
    <1>3. WaitsHold'
      BY <1>1 DEF ScreensInv, WaitsHold
    <1>4. ModalHolds'
      BY <1>1, ModalStands DEF ScreensInv, ModalHolds
    <1>. QED  BY <1>1, <1>2, <1>3, <1>4 DEF ScreensInv, RowsGoOn

LEMMA StandingKept ==
    ASSUME ScreensInv, UNCHANGED vars
    PROVE  ScreensInv'
    <1>1. RowsGoOn /\ UNCHANGED <<panel, sent, modal>>
      BY RowsStand DEF ScreensInv, vars
    <1>2. PanelsHold' /\ RequestsHold'
      BY <1>1, PanelsStand, SlotsStand DEF ScreensInv
    <1>3. WaitsHold'
      BY <1>1 DEF ScreensInv, WaitsHold
    <1>4. ModalHolds'
      BY <1>1, ModalStands DEF ScreensInv, ModalHolds
    <1>. QED  BY <1>1, <1>2, <1>3, <1>4 DEF ScreensInv, RowsGoOn

LEMMA ScreensSteps == ScreensInv /\ [Next]_vars => ScreensInv'
    <1>. SUFFICES ASSUME ScreensInv, [Next]_vars
                  PROVE  ScreensInv'
      OBVIOUS
    <1>1. ASSUME NEW s \in Screens, Presses(s)
          PROVE  ScreensInv'
      BY <1>1, OpenKept, CloseKept, RetryKept DEF Presses
    <1>2. ASSUME NEW s \in Screens, Reads(s)
          PROVE  ScreensInv'
      BY <1>2, GetDetailKept, DetailLandsKept, DetailFailsKept DEF Reads
    <1>3. ASSUME NEW a \in Admins, Decides(a)
          PROVE  ScreensInv'
      BY <1>3, OpenFormKept, CancelFormKept, PressDecisionKept, SubmitKept DEF Decides
    <1>4. CASE HandsIn
      BY <1>4, PressRowKept, OpenSubmitKept, CloseModalKept, HandSubmitKept DEF HandsIn, HandIns
    <1>5. ASSUME NEW s \in Screens, NEW k \in Slots, Answers(s, k)
          PROVE  ScreensInv'
      <2>1. CASE RequestArrives(s, k)
        BY <2>1, ArrivesKept
      <2>2. CASE s # Creator /\ (DecisionConfirmed(s, k) \/ DecisionRefused(s, k) \/ DecisionFails(s, k))
        <3>1. s \in Admins
          BY <2>2 DEF Screens
        <3>. QED  BY <2>2, <3>1, ConfirmedKept, RefusedKept, DecisionFailsKept
      <2>3. CASE HandInConfirmed(k) \/ HandInFails(k)
        BY <2>3, HandInKept
      <2>. QED  BY <1>5, <2>1, <2>2, <2>3 DEF Answers
    <1>6. CASE DayPasses
      BY <1>6, DayKept
    <1>7. CASE UNCHANGED vars
      BY <1>7, StandingKept
    <1>. QED  BY <1>1, <1>2, <1>3, <1>4, <1>5, <1>6, <1>7 DEF Next

(* The invariant of the screens.                                           *)
THEOREM ScreensInvariant == Spec => []ScreensInv
    BY ScreensStart, ScreensSteps, PTL DEF Spec

LEMMA FewAreOne ==
    ASSUME NEW S, \A x, y \in S : x = y
    PROVE  /\ Cardinality(S) \in {0, 1}
           /\ Cardinality(S) = 0 <=> S = {}
    <1>1. CASE S = {}
      BY <1>1, FS_EmptySet
    <1>2. CASE S # {}
      <2>1. PICK x \in S : TRUE
        BY <1>2
      <2>2. S = {x}
        BY <2>1
      <2>3. Cardinality({x}) = 1
        BY FS_Singleton
      <2>. QED  BY <1>2, <2>2, <2>3
    <1>. QED  BY <1>1, <1>2

LEMMA ScreensTyped == ScreensInv => TypeOK
    <1>. SUFFICES ASSUME ScreensInv
                  PROVE  TypeOK
      OBVIOUS
    <1>1. rows \in [Contents -> [status : CONTENT_STATUSES \cup {"removed"},
                                 drafts : Nat, moves : Nat, was : SUBSET Details]]
      <2>1. \A c \in Contents : RowTyped(rows[c])
        BY DEF ScreensInv, RowsHold, RowHolds
      <2>2. rows = [c \in Contents |-> rows[c]]
        BY DEF ScreensInv, RowsHold
      <2>. QED  BY <2>1, <2>2 DEF RowTyped
    <1>2. ASSUME NEW s \in Screens
          PROVE  /\ panel[s] \in Panels
                 /\ Cardinality(panel[s].reading) <= 1
                 /\ panel[s].form # "none" => panel[s].kind = "loaded" /\ s # Creator
      <2>1. panel[s] \in Panels
        BY DEF ScreensInv, PanelsHold
      <2>2. \A r, q \in panel[s].reading : r = q
        BY DEF ScreensInv, PanelsHold, PanelHolds, Closed
      <2>3. Cardinality(panel[s].reading) <= 1
        BY <2>2, FewAreOne
      <2>4. panel[s].form # "none" => panel[s].kind = "loaded" /\ s # Creator
        BY DEF ScreensInv, PanelsHold, PanelHolds, Closed
      <2>. QED  BY <2>1, <2>3, <2>4
    <1>3. modal \in [content : Contents \cup {Nowhere}, action : {"none"} \cup DOMAIN Outcome,
                     seen : Nat, note : Nat, asked : Nat]
      BY DEF ScreensInv, ModalHolds, NoModal, HandIns, Outcome
    <1>. QED  BY <1>1, <1>2, <1>3 DEF TypeOK, ScreensInv, RowsHold, RequestsHold

(* What a screen waits for is under way; a refusal has the cause that the  *)
(* row moved on since the screen it was begun on; and once it is read      *)
(* again the panel shows where the content stands (content-detail-panel.tsx*)
(* and submit-draft-modal.tsx against the services), with the types.       *)
THEOREM RefusalsHaveReasons == Spec => []RefusalsAreExplained
    <1>1. ScreensInv => RefusalsAreExplained
      <2>. SUFFICES ASSUME ScreensInv
                    PROVE  RefusalsAreExplained
        OBVIOUS
      <2>1. RefusalShowsWhereItStands
        <3>. SUFFICES ASSUME NEW a \in Admins, panel[a].reading = {}
                      PROVE  panel[a].owed <= panel[a].shown.moves
          BY DEF RefusalShowsWhereItStands
        <3>1. panel[a].shown.moves \in Nat /\ panel[a] \in Panels
          BY AdminIs DEF ScreensInv, PanelsHold, Panels, Details
        <3>2. CASE panel[a].kind = "loaded"
          BY <3>2, AdminIs, PanelIs DEF PanelHolds, ShownHolds
        <3>3. CASE panel[a].kind # "loaded"
          <4>1. panel[a].owed = 0
            BY <3>3, AdminIs DEF ScreensInv, PanelsHold, PanelHolds, Closed
          <4>. QED  BY <3>1, <4>1
        <3>. QED  BY <3>2, <3>3
      <2>2. RefusalsHaveACause
        BY SentIs DEF RefusalsHaveACause, SlotHolds
      <2>3. WaitsHaveARequest
        <3>1. ASSUME NEW s \in Screens
              PROVE  LET own == Cardinality({k \in Slots : sent[s][k].mine}) IN
                     /\ panel[s].kind = "loading" => panel[s].reading # {}
                     /\ IF s = Creator THEN own <= 1
                        ELSE own = IF panel[s].busy = "none" THEN 0 ELSE 1
          <4>. DEFINE mine == {k \in Slots : sent[s][k].mine}
          <4>1. panel[s].kind = "loading" => panel[s].reading # {}
            BY DEF ScreensInv, PanelsHold, PanelHolds
          <4>2. \A k, l \in mine : k = l
            BY DEF ScreensInv, WaitsHold
          <4>3. s # Creator => (panel[s].busy = "none" <=> mine = {})
            <5>1. s # Creator => s \in Admins
              BY DEF Screens
            <5>. QED  BY <5>1 DEF ScreensInv, WaitsHold
          <4>. HIDE DEF mine
          <4>4. Cardinality(mine) \in {0, 1} /\ (Cardinality(mine) = 0 <=> mine = {})
            BY <4>2, FewAreOne
          <4>5. IF s = Creator THEN Cardinality(mine) <= 1
                ELSE Cardinality(mine) = IF panel[s].busy = "none" THEN 0 ELSE 1
            BY <4>3, <4>4
          <4>. QED  BY <4>1, <4>5 DEF mine
        <3>2. Sending(Creator) => modal # NoModal
          BY SentIs DEF Sending, Screens, ScreensInv, WaitsHold
        <3>. QED  BY <3>1, <3>2 DEF WaitsHaveARequest
      <2>. QED  BY <2>1, <2>2, <2>3, ScreensTyped DEF RefusalsAreExplained
    <1>. QED  BY <1>1, ScreensInvariant, PTL

(* A revision note lands on the draft that was on screen when its form was *)
(* opened, or the form was opened while the panel was being read again     *)
(* (content-detail-panel.tsx, decide).                                     *)
THEOREM NotesLand == Spec => []NotesReachTheirDraft
    <1>1. ScreensInv => NotesReachTheirDraft
      <2>. SUFFICES ASSUME ScreensInv, NEW a \in Admins, NEW k \in Slots,
                           sent[a][k].kind = "revise", sent[a][k].about # 0
                    PROVE  sent[a][k].draft = sent[a][k].about
        BY DEF NotesReachTheirDraft
      <2>1. sent[a][k].phase # "idle"
        BY AdminIs, SentIs DEF IdleSlot
      <2>. QED  BY <2>1, AdminIs, SentIs DEF SlotHolds
    <1>. QED  BY <1>1, ScreensInvariant, PTL

(* Whatever state the work reaches, the side it waits on is offered a      *)
(* command the server would take (panel-actions.ts and task-actions.ts     *)
(* against the services).                                                  *)
THEOREM SomebodyCanGoOn == Spec => []TurnIsPlayable
    <1>1. ScreensInv => TurnIsPlayable
      <2>. SUFFICES ASSUME ScreensInv, NEW c \in Contents,
                           Swept[c].status \in CONTENT_STATUSES, WAITING_ON[Swept[c].status] # "nobody"
                    PROVE  \E command \in ActionsFor(WAITING_ON[Swept[c].status], ToContentDetail(Swept[c], today)) :
                              Accepts([kind |-> command, draft |-> Swept[c].drafts], Swept[c])
        BY DEF TurnIsPlayable
      <2>. DEFINE row == Swept[c]  detail == ToContentDetail(row, today)
      <2>1. /\ row.status \in REVIEWABLE_STATUSES => row.drafts > 0
            /\ detail.status = row.status /\ detail.drafts = row.drafts
            /\ detail.actions = TaskActions(row.status, today)
        BY SweptStands DEF ScreensInv, RowHolds, ToContentDetail
      <2>. HIDE DEF row, detail
      <2>2. SUFFICES \E command \in ActionsFor(WAITING_ON[row.status], detail) : Takes(command, row.status, today)
        <3>1. ASSUME NEW command, Takes(command, row.status, today)
              PROVE  Accepts([kind |-> command, draft |-> row.drafts], row)
          BY <3>1, TakesIs
        <3>. QED  BY <2>2, <3>1 DEF row, detail
      <2>3. CASE row.status = "pending"
        <3>1. "approve_proposal" \in ActionsFor(WAITING_ON[row.status], detail)
          BY <2>1, <2>3 DEF ActionsFor, WAITING_ON, CONTENT_STATUSES
        <3>. QED  BY <2>3, <3>1 DEF Takes
      <2>4. CASE row.status = "draft_review"
        <3>1. "approve" \in ActionsFor(WAITING_ON[row.status], detail)
          BY <2>1, <2>4 DEF ActionsFor, WAITING_ON, CONTENT_STATUSES, REVIEWABLE_STATUSES
        <3>. QED  BY <2>4, <3>1 DEF Takes, REVIEWABLE_STATUSES
      <2>5. CASE row.status \in {"scheduled", "draft_revision"}
        <3>. DEFINE command == IF row.status = "scheduled" THEN "submit_draft" ELSE "resubmit_draft"
        <3>1. CanSubmitDraft(row.status)
          BY <2>5 DEF CanSubmitDraft, CanTransition, NEXT_STATUSES, CONTENT_STATUSES
        <3>2. command \in TaskActions(row.status, today)
          BY <2>5, <3>1 DEF TaskActions
        <3>3. WAITING_ON[row.status] = "creator"
          BY <2>5 DEF WAITING_ON, CONTENT_STATUSES
        <3>4. command \in ActionsFor(WAITING_ON[row.status], detail)
          BY <2>1, <3>2, <3>3 DEF ActionsFor
        <3>5. Takes(command, row.status, today)
          BY <2>5, <3>1 DEF Takes, COMMITTED_STATUSES, CONTENT_STATUSES
        <3>. QED  BY <3>4, <3>5
      <2>6. CASE row.status = "draft_approved"
        <3>1. CanSubmitVideo(row.status, Deadline, today)
          BY <2>6 DEF CanSubmitVideo, CanTransition, NEXT_STATUSES, CONTENT_STATUSES
        <3>2. "submit_video" \in TaskActions(row.status, today)
          BY <3>1 DEF TaskActions
        <3>3. WAITING_ON[row.status] = "creator"
          BY <2>6 DEF WAITING_ON, CONTENT_STATUSES
        <3>4. "submit_video" \in ActionsFor(WAITING_ON[row.status], detail)
          BY <2>1, <3>2, <3>3 DEF ActionsFor
        <3>5. Takes("submit_video", row.status, today)
          BY <2>6, <3>1 DEF Takes
        <3>. QED  BY <3>4, <3>5
      <2>7. row.status \in CONTENT_STATUSES /\ row.status # "link_submitted"
        BY DEF row, WAITING_ON, CONTENT_STATUSES
      <2>. QED  BY <2>3, <2>4, <2>5, <2>6, <2>7 DEF CONTENT_STATUSES
    <1>. QED  BY <1>1, ScreensInvariant, PTL

\* What a panel that stays open shows is never older than what it showed.
LEMMA ShownGoesOn ==
    ASSUME ScreensInv, [Next]_vars, NEW s \in Screens, panel[s].kind = "loaded", panel'[s].kind = "loaded"
    PROVE  panel[s].shown.moves <= panel'[s].shown.moves
    <1>0. /\ panel \in [Screens -> Panels] /\ panel[s].shown.moves \in Nat
          /\ panel[s].reading # {} => PanelHolds(panel[s], rows[panel[s].content], today)
          /\ Closed.kind = "closed" /\ \A c : Loading(c).kind = "loading"
      BY PanelIs DEF ScreensInv, PanelsHold, Panels, Details, Closed, Loading
    <1>. SUFFICES ASSUME panel' # panel, panel'[s].shown # panel[s].shown
                  PROVE  panel[s].shown.moves <= panel'[s].shown.moves
      BY <1>0
    <1>1. ASSUME NEW t \in Screens, NEW p, panel' = [panel EXCEPT ![t] = p],
                 p.kind = "loaded" => p.shown = panel[t].shown
          PROVE  FALSE
      BY <1>0, <1>1
    <1>2. ~\E t \in Screens : Presses(t)
      BY <1>0, <1>1 DEF Presses, Open, Close, Retry
    <1>3. ~\E t \in Screens : GetDetail(t) \/ DetailFails(t)
      <2>1. ASSUME NEW t \in Screens, GetDetail(t)
            PROVE  FALSE
        <3>1. PICK reading : panel' = [panel EXCEPT ![t].reading = reading]
          BY <2>1 DEF GetDetail
        <3>. QED  BY <1>0, <3>1 DEF Panels
      <2>2. ASSUME NEW t \in Screens, DetailFails(t)
            PROVE  FALSE
        <3>1. PICK r \in panel[t].reading :
                panel' = [panel EXCEPT
                    ![t].reading = @ \ {r},
                    ![t].owed = 0,
                    ![t].kind = IF @ = "loaded" THEN @
                                ELSE IF r.phase = "gone" THEN "not_found" ELSE "failed"]
          BY <2>2 DEF DetailFails
        <3>. QED  BY <1>0, <3>1 DEF Panels
      <2>. QED  BY <2>1, <2>2
    <1>4. ~\E a \in Admins : Decides(a)
      <2>1. ASSUME NEW a \in Admins, NEW command, OpenForm(a, command)
            PROVE  FALSE
        <3>1. PICK since, about : panel' = [panel EXCEPT ![a].form = command, ![a].since = since, ![a].about = about]
          BY <2>1 DEF OpenForm
        <3>. QED  BY <1>0, <3>1, AdminIs DEF Panels
      <2>2. ASSUME NEW a \in Admins, CancelForm(a)
            PROVE  FALSE
        BY <1>0, <2>2, AdminIs DEF CancelForm, FormClosed, Panels
      <2>3. ASSUME NEW a \in Admins, NEW kind, NEW about, NEW seen, Decide(a, kind, about, seen)
            PROVE  FALSE
        BY <1>0, <2>3, AdminIs DEF Decide, Panels
      <2>. QED  BY <2>1, <2>2, <2>3 DEF Decides, PressDecision, SubmitRevision, SubmitRejection
    <1>5. ~HandsIn
      BY <1>0 DEF HandsIn, PressRow, OpenSubmitFromPanel, CloseModal, HandleSubmit, Screens
    <1>6. ~\E t \in Screens, k \in Slots : Answers(t, k)
      <2>1. \A a \in Admins, k \in Slots : ~DecisionConfirmed(a, k)
        BY <1>0, AdminIs DEF DecisionConfirmed
      <2>2. \A a \in Admins, k \in Slots : ~DecisionRefused(a, k)
        <3>. SUFFICES ASSUME NEW a \in Admins, NEW k \in Slots, DecisionRefused(a, k)
                      PROVE  FALSE
          OBVIOUS
        <3>. DEFINE p == panel[a]  next == [ReadAgain(FormClosed(p)) EXCEPT !.busy = "none", !.owed = sent[a][k].at]
        <3>1. a \in Screens /\ p \in Panels
          BY <1>0, AdminIs
        <3>2. panel' = [panel EXCEPT ![a] = next]
          BY <1>0, <3>1 DEF DecisionRefused
        <3>3. next.shown = p.shown
          BY <3>1 DEF ReadAgain, FormClosed, Panels
        <3>. HIDE DEF next
        <3>. QED  BY <1>1, <3>1, <3>2, <3>3
      <2>3. \A a \in Admins, k \in Slots : ~DecisionFails(a, k)
        BY <1>0, AdminIs DEF DecisionFails, Panels
      <2>4. \A t \in Screens, k \in Slots : ~RequestArrives(t, k) /\ ~HandInConfirmed(k) /\ ~HandInFails(k)
        BY DEF RequestArrives, HandInConfirmed, HandInFails
      <2>. QED  BY <2>1, <2>2, <2>3, <2>4 DEF Answers, Screens
    <1>7. PICK t \in Screens : DetailLands(t)
      BY <1>2, <1>3, <1>4, <1>5, <1>6 DEF Next, Reads, DayPasses, vars
    <1>8. PICK r \in panel[t].reading :
            /\ r.phase = "answered"
            /\ panel' = [panel EXCEPT ![t].kind = "loaded", ![t].shown = r.detail, ![t].reading = @ \ {r}]
      BY <1>7 DEF DetailLands
    <1>9. t = s /\ panel'[s].shown = r.detail
      BY <1>0, <1>8 DEF Panels
    <1>10. panel[s].shown.moves <= r.detail.moves
      BY <1>0, <1>8, <1>9 DEF PanelHolds, ReadingHolds, Asked
    <1>. QED  BY <1>9, <1>10

(* A panel that stays open never goes back to an older state of the row,   *)
(* in whatever order the answers come (content-detail-panel.tsx, readAgain)*)
THEOREM NeverGoBack == Spec => ScreensNeverGoBack
    <1>1. ScreensInv /\ [Next]_vars =>
            [\A s \in Screens : panel[s].kind = "loaded" /\ panel'[s].kind = "loaded"
                => panel[s].shown.moves <= panel'[s].shown.moves]_vars
      BY ShownGoesOn
    <1>. QED  BY <1>1, ScreensInvariant, PTL DEF Spec, ScreensNeverGoBack

-----------------------------------------------------------------------------
(* List addresses: the record of what was last sent.                       *)

\* The pages that build every change on what was last sent.
SentPages == {"plan", "tasks", "roster"}

OwnNames == {"bar", "tab", "sort", "panel", "board"}

Navigations == [query : Query, by : OwnNames \cup {"link"}]

Newest(s) == s[Len(s)]

Sought(s) == IF s = Blank THEN "" ELSE s

\* What lands without leaving the record behind: a link, what the address shows
\* already, or a change on its way.
Expected(b, n) ==
    \/ ~Own(n)
    \/ n.query = b.address
    \/ \E i \in 1..Len(b.onTheirWay) : b.onTheirWay[i] = n.query

\* What is held ahead of the address is the last navigation under way, and the
\* newest of the changes on their way.
HeldIsLast(b) ==
    b.held # NoQuery =>
        /\ b.held # b.address
        /\ b.onTheirWay # <<>> /\ Newest(b.onTheirWay) = b.held
        /\ b.going # <<>> /\ Own(Newest(b.going)) /\ Newest(b.going).query = b.held
        /\ \A i \in 1..Len(b.going) : Expected(b, b.going[i])

\* With nothing held, nothing under way leads anywhere but a link.
LevelIsQuiet(b) ==
    b.held = NoQuery =>
        /\ b.onTheirWay = <<>>
        /\ Len(b.going) <= 1
        /\ \A i \in 1..Len(b.going) : Own(b.going[i]) => b.going[i].query = b.address

\* Links lead to the page itself, never to a content's panel.
LinksAreBare(b) ==
    \A i \in 1..Len(b.going) : ~Own(b.going[i]) => ~b.going[i].query.content

BarHolds(b) ==
    /\ b \in Bars
    /\ Len(b.going) <= 2
    /\ HeldIsLast(b)
    /\ LevelIsQuiet(b)
    /\ LinksAreBare(b)

LinkUnderWay(b) == \E i \in 1..Len(b.going) : ~Own(b.going[i])

-----------------------------------------------------------------------------
(* Numbers and sequences.                                                  *)

LEMMA LeastNumber ==
    ASSUME NEW T, T \subseteq Nat, T # {}
    PROVE  \E n \in T : \A m \in T : n <= m
    <1>. DEFINE R == OpToRel(<, Nat)
    <1>1. \A m, n \in Nat : m < n => <<m, n>> \in R
      BY DEF OpToRel
    <1>2. IsWellFoundedOn(R, Nat)
      BY NatLessThanWellFounded
    <1>. HIDE DEF R
    <1>3. PICK n \in T : \A m \in T : ~(<<m, n>> \in R)
      BY <1>2, WFMin
    <1>4. \A m \in T : m \in Nat /\ ~(m < n)
      BY <1>1, <1>3
    <1>5. n \in Nat
      OBVIOUS
    <1>. QED  BY <1>3, <1>4, <1>5

\* Some positions of a sequence have a last one.
LEMMA LastPosition ==
    ASSUME NEW n \in Nat, NEW T, T \subseteq 1..n, T # {}
    PROVE  \E i \in T : \A j \in T : j <= i
    <1>. DEFINE D == {n - i : i \in T}
    <1>0. \A i \in T : i \in Nat /\ n - i \in Nat
      OBVIOUS
    <1>1. D \subseteq Nat /\ D # {}
      BY <1>0
    <1>2. PICK d \in D : \A e \in D : d <= e
      BY <1>1, LeastNumber
    <1>3. PICK i \in T : d = n - i
      BY <1>2
    <1>4. \A j \in T : n - j \in D /\ j \in Nat
      BY <1>0
    <1>5. \A j \in T : j <= i
      BY <1>2, <1>3, <1>4
    <1>. QED  BY <1>5

\* What is left of a sequence after its first m.
LEMMA RestOf ==
    ASSUME NEW S, NEW s \in Seq(S), NEW m \in 0..Len(s)
    PROVE  /\ SubSeq(s, m + 1, Len(s)) \in Seq(S)
           /\ Len(SubSeq(s, m + 1, Len(s))) = Len(s) - m
           /\ \A i \in 1..(Len(s) - m) : SubSeq(s, m + 1, Len(s))[i] = s[m + i]
           /\ m = Len(s) => SubSeq(s, m + 1, Len(s)) = <<>>
           /\ m < Len(s) => /\ SubSeq(s, m + 1, Len(s)) # <<>>
                            /\ Newest(SubSeq(s, m + 1, Len(s))) = Newest(s)
    <1>. DEFINE t == SubSeq(s, m + 1, Len(s))
    <1>1. /\ t \in Seq(S)
          /\ Len(t) = Len(s) - m
          /\ \A i \in 1..(Len(s) - m) : t[i] = s[m + i]
      <2>1. m + 1 \in Int /\ Len(s) \in Int /\ Len(s) \in Nat
        BY LenProperties
      <2>2. \A i \in m + 1 .. Len(s) : s[i] \in S
        BY ElementOfSeq, <2>1
      <2>. QED  BY <2>1, <2>2, SubSeqProperties
    <1>2. Len(s) \in Nat
      BY LenProperties
    <1>3. m = Len(s) => t = <<>>
      BY <1>2, SubSeqEmpty
    <1>4. ASSUME m < Len(s)
          PROVE  t # <<>> /\ t[Len(t)] = s[Len(s)]
      <2>1. Len(t) \in 1..(Len(s) - m) /\ m + Len(t) = Len(s)
        BY <1>1, <1>2, <1>4
      <2>2. t # <<>>
        <3>. HIDE DEF t
        <3>. QED  BY <2>1, Len(<<>>) = 0
      <2>3. t[Len(t)] = s[m + Len(t)]
        BY <1>1, <2>1
      <2>. QED  BY <2>1, <2>2, <2>3
    <1>. QED  BY <1>1, <1>3, <1>4 DEF Newest

-----------------------------------------------------------------------------
(* What each control makes of a query is a query.                          *)

LEMMA BareTyped == BareQuery \in Query
    <1>1. "" \in Searches /\ 1 \in 1..2
      BY DEF Searches
    <1>. QED  BY <1>1, Zenon DEF BareQuery, Query

LEMMA QueriesMade ==
    ASSUME NEW u \in Query
    PROVE  /\ \A s \in Searches \cup {Blank} : WithSearch(s, u) \in Query
           /\ \A s \in {"all", "picked"} : WithStatus(s, u) \in Query
           /\ \A t \in {"all", "done"} : AfterTabChange(t, u) \in Query
           /\ Rebuilt(u) \in Query
           /\ Flipped(u) \in Query
           /\ \A o \in {"default", "flipped"} : SortedBy(Turned(o), u) \in Query
           /\ Unfiltered(u) \in Query
           /\ WithLink(u) \in Query
           /\ WithoutLink(u) \in Query
    <1>1. \A v \in Query :
            /\ \A s \in Searches : [v EXCEPT !.q = s] \in Query
            /\ \A s \in {"all", "picked"} : [v EXCEPT !.status = s] \in Query
            /\ \A t \in {"all", "done"} : [v EXCEPT !.tab = t] \in Query
            /\ \A o \in {"default", "flipped"} : [v EXCEPT !.sort = o] \in Query
            /\ \A n \in 1..2 : [v EXCEPT !.page = n] \in Query
            /\ \A k \in BOOLEAN : [v EXCEPT !.kept = k] \in Query
            /\ \A c \in BOOLEAN : [v EXCEPT !.content = c] \in Query
      BY DEF Query
    <1>2. /\ u.tab \in {"all", "done"} /\ u.kept \in BOOLEAN
          /\ u.sort \in {"default", "flipped"} /\ 1 \in 1..2
      BY DEF Query
    <1>b. BareQuery \in Query
      BY BareTyped
    <1>3. \A s \in Searches \cup {Blank} : (IF s = Blank THEN "" ELSE s) \in Searches
      BY DEF Searches
    <1>. HIDE DEF Searches
    <1>4. ASSUME NEW s \in Searches \cup {Blank}
          PROVE  WithSearch(s, u) \in Query
      <2>. DEFINE v == [u EXCEPT !.q = IF s = Blank THEN "" ELSE s]
      <2>1. v \in Query
        BY <1>1, <1>3
      <2>2. [v EXCEPT !.page = 1] \in Query
        BY <1>1, <1>2, <2>1
      <2>. QED  BY <2>2 DEF WithSearch
    <1>5. ASSUME NEW s \in {"all", "picked"}
          PROVE  WithStatus(s, u) \in Query
      <2>. DEFINE v == [u EXCEPT !.status = s]
      <2>1. v \in Query
        BY <1>1
      <2>2. [v EXCEPT !.page = 1] \in Query
        BY <1>1, <1>2, <2>1
      <2>. QED  BY <2>2 DEF WithStatus
    <1>6. Rebuilt(u) \in Query /\ WithLink(u) \in Query /\ WithoutLink(u) \in Query
      BY <1>1 DEF Rebuilt, WithLink, WithoutLink
    <1>7. ASSUME NEW t \in {"all", "done"}
          PROVE  AfterTabChange(t, u) \in Query
      <2>. DEFINE v == [Rebuilt(u) EXCEPT !.tab = t]
                  w == [v EXCEPT !.status = "all"]
                  x == [w EXCEPT !.sort = "default"]
      <2>1. v \in Query
        BY <1>1, <1>6
      <2>2. w \in Query
        BY <1>1, <2>1
      <2>3. x \in Query
        BY <1>1, <2>2
      <2>4. [x EXCEPT !.page = 1] \in Query
        BY <1>1, <1>2, <2>3
      <2>. QED  BY <2>4 DEF AfterTabChange
    <1>8. ASSUME NEW o \in {"default", "flipped"}
          PROVE  SortedBy(o, u) \in Query
      <2>. DEFINE v == [u EXCEPT !.sort = o]
      <2>1. v \in Query
        BY <1>1
      <2>2. [v EXCEPT !.page = 1] \in Query
        BY <1>1, <1>2, <2>1
      <2>. QED  BY <2>2 DEF SortedBy
    <1>9. \A o \in {"default", "flipped"} : Turned(o) \in {"default", "flipped"}
      BY DEF Turned
    <1>10. Flipped(u) \in Query /\ \A o \in {"default", "flipped"} : SortedBy(Turned(o), u) \in Query
      BY <1>2, <1>8, <1>9 DEF Flipped
    <1>11. Unfiltered(u) \in Query
      <2>. DEFINE v == [BareQuery EXCEPT !.tab = u.tab]
      <2>1. v \in Query
        BY <1>1, <1>2, <1>b
      <2>2. [v EXCEPT !.kept = u.kept] \in Query
        BY <1>1, <1>2, <2>1
      <2>. QED  BY <2>2 DEF Unfiltered
    <1>. QED  BY <1>4, <1>5, <1>6, <1>7, <1>10, <1>11

LEMMA LatestTyped ==
    ASSUME NEW b \in Bars
    PROVE  LatestQuery(b) \in Query
    BY DEF Bars, LatestQuery

LEMMA UnderWayTyped ==
    ASSUME NEW going \in Seq(Navigations), NEW n \in Navigations
    PROVE  /\ UnderWay(going, n) \in Seq(Navigations)
           /\ UnderWay(going, n) # <<>>
           /\ Newest(UnderWay(going, n)) = n
           /\ going = <<>> => UnderWay(going, n) = <<n>>
           /\ going # <<>> => UnderWay(going, n) = <<Newest(going), n>>
           /\ Len(UnderWay(going, n)) <= 2
    <1>1. CASE going = <<>>
      BY <1>1 DEF UnderWay, Newest
    <1>2. CASE going # <<>>
      <2>1. Newest(going) \in Navigations
        BY <1>2, ElementOfSeq, EmptySeq DEF Newest
      <2>. QED  BY <1>2, <2>1 DEF UnderWay, Newest
    <1>. QED  BY <1>1, <1>2

-----------------------------------------------------------------------------
(* The record, after a change was sent.                                    *)

LEMMA BarParts ==
    ASSUME NEW b \in Bars
    PROVE  /\ b.address \in Query
           /\ b.held \in Query \cup {NoQuery}
           /\ b.onTheirWay \in Seq(Query)
           /\ b.going \in Seq(Navigations)
    BY DEF Bars, Navigations, OwnNames

LEMMA BarMade ==
    ASSUME NEW a \in Query, NEW h \in Query \cup {NoQuery}, NEW w \in Seq(Query),
           NEW g \in Seq(Navigations)
    PROVE  [address |-> a, held |-> h, onTheirWay |-> w, going |-> g] \in Bars
    <1>1. Navigations = [query : Query, by : {"bar", "tab", "sort", "panel", "board", "link"}]
      BY DEF Navigations, OwnNames
    <1>. QED  BY <1>1 DEF Bars

LEMMA NavigationMade ==
    ASSUME NEW u \in Query, NEW by \in OwnNames \cup {"link"}
    PROVE  /\ Navigation(u, by) \in Navigations
           /\ Navigation(u, by).query = u
           /\ by \in OwnNames => Own(Navigation(u, by))
           /\ by = "link" => ~Own(Navigation(u, by))
    BY DEF Navigation, Navigations, Own, OwnNames

LEMMA Replaced ==
    ASSUME NEW b \in Bars, NEW u \in Query, NEW by \in OwnNames
    PROVE  /\ ReplaceQuery(b, u, by) \in Bars
           /\ ReplaceQuery(b, u, by).address = b.address
           /\ ReplaceQuery(b, u, by).held = IF u # b.address THEN u ELSE NoQuery
           /\ ReplaceQuery(b, u, by).onTheirWay =
                IF u # b.address THEN Append(b.onTheirWay, u) ELSE <<>>
           /\ ReplaceQuery(b, u, by).going = UnderWay(b.going, Navigation(u, by))
           /\ LatestQuery(ReplaceQuery(b, u, by)) = u
           /\ Len(ReplaceQuery(b, u, by).going) <= 2
    <1>. DEFINE h == IF u # b.address THEN u ELSE NoQuery
                w == IF u # b.address THEN Append(b.onTheirWay, u) ELSE <<>>
                g == UnderWay(b.going, Navigation(u, by))
    <1>1. h \in Query \cup {NoQuery}
      OBVIOUS
    <1>2. w \in Seq(Query)
      BY BarParts, AppendProperties, EmptySeq
    <1>3. g \in Seq(Navigations) /\ Len(g) <= 2
      <2>1. Navigation(u, by) \in Navigations /\ b.going \in Seq(Navigations)
        BY BarParts, NavigationMade
      <2>2. UnderWay(b.going, Navigation(u, by)) \in Seq(Navigations)
        BY <2>1, UnderWayTyped
      <2>3. Len(UnderWay(b.going, Navigation(u, by))) <= 2
        BY <2>1, UnderWayTyped
      <2>. QED  BY <2>2, <2>3
    <1>4. ReplaceQuery(b, u, by) = [address |-> b.address, held |-> h, onTheirWay |-> w, going |-> g]
      BY DEF ReplaceQuery
    <1>5. b.address \in Query
      BY BarParts
    <1>. HIDE DEF h, w, g
    <1>6. ReplaceQuery(b, u, by) \in Bars
      BY <1>1, <1>2, <1>3, <1>4, <1>5, BarMade
    <1>7. LatestQuery(ReplaceQuery(b, u, by)) = u
      BY <1>4, QueryAssumption DEF LatestQuery, h
    <1>. QED  BY <1>3, <1>4, <1>6, <1>7 DEF h, w, g

\* A change keeps the record straight, unless it goes back to what the address
\* shows while something else is under way.
LEMMA ReplacedHolds ==
    ASSUME NEW b, BarHolds(b), NEW u \in Query, NEW by \in OwnNames,
           b.going # <<>> => u # b.address
    PROVE  /\ BarHolds(ReplaceQuery(b, u, by))
           /\ ReplaceQuery(b, u, by).held = NoQuery => ~LinkUnderWay(ReplaceQuery(b, u, by))
    <1>. DEFINE r == ReplaceQuery(b, u, by)
                n == Navigation(u, by)
    <1>b. b \in Bars /\ HeldIsLast(b) /\ LevelIsQuiet(b) /\ Len(b.going) <= 2 /\ LinksAreBare(b)
      BY DEF BarHolds
    <1>1. /\ r \in Bars /\ r.address = b.address /\ Len(r.going) <= 2
          /\ r.held = IF u # b.address THEN u ELSE NoQuery
          /\ r.onTheirWay = IF u # b.address THEN Append(b.onTheirWay, u) ELSE <<>>
          /\ r.going = UnderWay(b.going, n)
      BY <1>b, Replaced
    <1>2. /\ n \in Navigations /\ n.query = u /\ Own(n)
          /\ b.going \in Seq(Navigations) /\ b.onTheirWay \in Seq(Query)
      BY <1>b, BarParts, NavigationMade
    <1>. HIDE DEF r, n
    <1>l. LinksAreBare(r)
      <2>1. CASE b.going = <<>>
        <3>1. r.going = <<n>>
          BY <1>1, <1>2, <2>1, UnderWayTyped
        <3>. QED  BY <1>2, <3>1 DEF LinksAreBare
      <2>2. CASE b.going # <<>>
        <3>1. r.going = <<Newest(b.going), n>>
          BY <1>1, <1>2, <2>2, UnderWayTyped
        <3>2. Len(b.going) \in 1..Len(b.going)
          BY <1>2, <2>2, EmptySeq
        <3>3. ~Own(Newest(b.going)) => ~Newest(b.going).query.content
          BY <1>b, <3>2 DEF LinksAreBare, Newest
        <3>. QED  BY <1>2, <3>1, <3>3 DEF LinksAreBare
      <2>. QED  BY <2>1, <2>2
    <1>3. CASE u = b.address
      <2>1. b.going = <<>>
        BY <1>3
      <2>2. r.going = <<n>> /\ r.held = NoQuery /\ r.onTheirWay = <<>>
        BY <1>1, <1>2, <1>3, <2>1, UnderWayTyped
      <2>3. LevelIsQuiet(r)
        BY <1>1, <1>2, <1>3, <2>2 DEF LevelIsQuiet
      <2>4. ~LinkUnderWay(r)
        BY <1>2, <2>2 DEF LinkUnderWay
      <2>. QED  BY <1>1, <1>l, <2>2, <2>3, <2>4 DEF BarHolds, HeldIsLast, r
    <1>4. CASE u # b.address
      <2>1. /\ r.held = u /\ r.onTheirWay = Append(b.onTheirWay, u)
            /\ u # NoQuery
        BY <1>1, <1>4, QueryAssumption
      <2>2. /\ Append(b.onTheirWay, u) # <<>>
            /\ Newest(Append(b.onTheirWay, u)) = u
            /\ Len(Append(b.onTheirWay, u)) = Len(b.onTheirWay) + 1
            /\ \A i \in 1..Len(b.onTheirWay) : Append(b.onTheirWay, u)[i] = b.onTheirWay[i]
            /\ Append(b.onTheirWay, u)[Len(b.onTheirWay) + 1] = u
            /\ Len(b.onTheirWay) \in Nat
        BY <1>2, AppendProperties, LenProperties DEF Newest
      <2>3. r.going # <<>> /\ Newest(r.going) = n
        BY <1>1, <1>2, UnderWayTyped
      <2>4. Expected(r, n)
        BY <1>2, <2>1, <2>2 DEF Expected
      <2>5. ASSUME b.going # <<>>
            PROVE  Expected(r, Newest(b.going))
        <3>1. Len(b.going) \in Nat \ {0} /\ Newest(b.going) = b.going[Len(b.going)]
          BY <1>2, <2>5, EmptySeq DEF Newest
        <3>2. CASE b.held = NoQuery
          <4>1. Own(Newest(b.going)) => Newest(b.going).query = b.address
            BY <1>b, <3>1, <3>2 DEF LevelIsQuiet
          <4>. QED  BY <4>1, <1>1 DEF Expected
        <3>3. CASE b.held # NoQuery
          <4>1. /\ Newest(b.going).query = b.held /\ Newest(b.onTheirWay) = b.held
                /\ b.onTheirWay # <<>>
            BY <1>b, <3>3 DEF HeldIsLast
          <4>2. Len(b.onTheirWay) \in 1..Len(b.onTheirWay)
            BY <4>1, <1>2, EmptySeq
          <4>3. Append(b.onTheirWay, u)[Len(b.onTheirWay)] = Newest(b.going).query
            BY <2>2, <4>1, <4>2 DEF Newest
          <4>4. Len(b.onTheirWay) \in 1..Len(Append(b.onTheirWay, u))
            BY <2>2, <4>2
          <4>. QED  BY <2>1, <4>3, <4>4 DEF Expected
        <3>. QED  BY <3>2, <3>3
      <2>6. \A i \in 1..Len(r.going) : Expected(r, r.going[i])
        <3>1. CASE b.going = <<>>
          <4>1. r.going = <<n>>
            BY <1>1, <1>2, <3>1, UnderWayTyped
          <4>. QED  BY <4>1, <2>4
        <3>2. CASE b.going # <<>>
          <4>1. r.going = <<Newest(b.going), n>>
            BY <1>1, <1>2, <3>2, UnderWayTyped
          <4>. QED  BY <4>1, <2>4, <2>5, <3>2
        <3>. QED  BY <3>1, <3>2
      <2>7. HeldIsLast(r)
        BY <1>1, <1>2, <1>4, <2>1, <2>2, <2>3, <2>6 DEF HeldIsLast
      <2>. QED  BY <1>1, <1>l, <2>1, <2>7 DEF BarHolds, LevelIsQuiet, r
    <1>. QED  BY <1>3, <1>4

\* Straight into the address.
LEMMA ReplacedQuietly ==
    ASSUME NEW b \in Bars, NEW u \in Query, Len(b.going) <= 2
    PROVE  /\ ReplaceQuietly(b, u) \in Bars
           /\ Len(ReplaceQuietly(b, u).going) <= 2
           /\ LatestQuery(ReplaceQuietly(b, u)) = u
           /\ b.held # NoQuery => ReplaceQuietly(b, u).address = b.address
           /\ b.held = NoQuery => /\ ReplaceQuietly(b, u).address = u
                                  /\ ReplaceQuietly(b, u).going = <<>>
           /\ BarHolds(b) /\ (b.held # NoQuery => u # b.address)
                => /\ BarHolds(ReplaceQuietly(b, u))
                   /\ ReplaceQuietly(b, u).held = NoQuery => ~LinkUnderWay(ReplaceQuietly(b, u))
    <1>1. CASE b.held # NoQuery
      <2>1. ReplaceQuietly(b, u) = ReplaceQuery(b, u, "panel") /\ "panel" \in OwnNames
        BY <1>1 DEF ReplaceQuietly, OwnNames
      <2>. QED  BY <1>1, <2>1, Replaced, ReplacedHolds
    <1>2. CASE b.held = NoQuery
      <2>. DEFINE r == [b EXCEPT !.address = u, !.going = <<>>]
      <2>1. ReplaceQuietly(b, u) = r
        BY <1>2 DEF ReplaceQuietly
      <2>2. <<>> \in Seq(Navigations) /\ Len(<<>>) = 0
        BY EmptySeq
      <2>3. r = [[b EXCEPT !.address = u] EXCEPT !.going = <<>>]
        OBVIOUS
      <2>4. [b EXCEPT !.address = u] \in Bars
        BY DEF Bars
      <2>a. <<>> \in Seq([query : Query, by : {"bar", "tab", "sort", "panel", "board", "link"}])
        BY EmptySeq
      <2>b. r \in Bars
        BY <2>3, <2>4, <2>a DEF Bars
      <2>5. r.address = u /\ r.held = NoQuery /\ r.going = <<>> /\ r.onTheirWay = b.onTheirWay
        BY <1>2 DEF Bars
      <2>. HIDE DEF r
      <2>6. LatestQuery(r) = u
        BY <2>5 DEF LatestQuery
      <2>7. BarHolds(b) => BarHolds(r) /\ ~LinkUnderWay(r)
        BY <1>2, <2>2, <2>b, <2>5
           DEF BarHolds, HeldIsLast, LevelIsQuiet, LinksAreBare, LinkUnderWay
      <2>. QED  BY <1>2, <2>1, <2>2, <2>b, <2>5, <2>6, <2>7
    <1>. QED  BY <1>1, <1>2

-----------------------------------------------------------------------------
(* The record, after the address moved.                                    *)

\* Nothing on record is u, the held change is, or a change before it is.
LEMMA LandedCases ==
    ASSUME NEW b \in Bars, NEW u \in Query
    PROVE  /\ u = b.address => Landed(b, u) = b
           /\ u # b.address =>
                /\ Landed(b, u) \in Bars
                /\ Landed(b, u).address = u
                /\ Landed(b, u).going = b.going
                /\ \/ /\ Landed(b, u).held = NoQuery
                      /\ Landed(b, u).onTheirWay = <<>>
                      /\ \/ b.held = NoQuery
                         \/ u = b.held
                         \/ \A i \in 1..Len(b.onTheirWay) : b.onTheirWay[i] # u
                   \/ /\ b.held # NoQuery /\ u # b.held
                      /\ Landed(b, u).held = b.held
                      /\ \E m \in 1..Len(b.onTheirWay) :
                           /\ b.onTheirWay[m] = u
                           /\ Landed(b, u).onTheirWay =
                                SubSeq(b.onTheirWay, m + 1, Len(b.onTheirWay))
    <1>. DEFINE w == b.onTheirWay
                older == {i \in 1..Len(w) : w[i] = u}
                last == CHOOSE i \in older : \A j \in older : j <= i
                kept == SubSeq(w, last + 1, Len(w))
    <1>1. CASE u = b.address
      BY <1>1 DEF Landed
    <1>p. /\ b.address \in Query /\ b.held \in Query \cup {NoQuery} /\ w \in Seq(Query)
          /\ b.going \in Seq(Navigations) /\ Len(w) \in Nat
      BY BarParts, LenProperties
    <1>e. /\ <<>> \in Seq(Query)
      BY EmptySeq
    <1>2. CASE u # b.address /\ b.held # NoQuery /\ u # b.held /\ older # {}
      <2>. DEFINE r == [b EXCEPT !.address = u, !.onTheirWay = kept]
      <2>1. \E i \in older : \A j \in older : j <= i
        <3>1. older \subseteq 1..Len(w)
          OBVIOUS
        <3>. HIDE DEF older
        <3>. QED  BY <1>2, <1>p, <3>1, LastPosition
      <2>2. last \in older
        <3>. HIDE DEF older
        <3>. QED  BY <2>1
      <2>3. last \in 1..Len(w) /\ w[last] = u
        <3>. HIDE DEF last
        <3>. QED  BY <2>2
      <2>4. Landed(b, u) = [b EXCEPT !.address = u, !.onTheirWay = SubSeq(@, last + 1, Len(@))]
        BY <1>2 DEF Landed
      <2>5. [b EXCEPT !.address = u, !.onTheirWay = SubSeq(@, last + 1, Len(@))] = r
        OBVIOUS
      <2>. HIDE DEF last
      <2>6. kept \in Seq(Query)
        BY <2>3, <1>p, RestOf
      <2>. HIDE DEF kept
      <2>7. r = [[b EXCEPT !.address = u] EXCEPT !.onTheirWay = kept]
        OBVIOUS
      <2>8. [b EXCEPT !.address = u] \in Bars
        BY DEF Bars
      <2>9. r \in Bars
        BY <2>6, <2>7, <2>8 DEF Bars
      <2>10. r.address = u /\ r.held = b.held /\ r.going = b.going /\ r.onTheirWay = kept
        BY DEF Bars
      <2>11. Landed(b, u) = r
        BY <2>4, <2>5
      <2>. HIDE DEF r
      <2>. QED  BY <1>2, <2>3, <2>9, <2>10, <2>11 DEF kept
    <1>3. CASE u # b.address /\ ~(b.held # NoQuery /\ u # b.held /\ older # {})
      <2>. DEFINE r == [b EXCEPT !.address = u, !.onTheirWay = <<>>, !.held = NoQuery]
      <2>1. Landed(b, u) = r
        BY <1>3 DEF Landed
      <2>2. r = [[[b EXCEPT !.address = u] EXCEPT !.onTheirWay = <<>>] EXCEPT !.held = NoQuery]
        OBVIOUS
      <2>3. [b EXCEPT !.address = u] \in Bars
        BY DEF Bars
      <2>4. [[b EXCEPT !.address = u] EXCEPT !.onTheirWay = <<>>] \in Bars
        BY <1>e, <2>3 DEF Bars
      <2>5. r \in Bars
        BY <2>2, <2>4 DEF Bars
      <2>6. r.address = u /\ r.held = NoQuery /\ r.going = b.going /\ r.onTheirWay = <<>>
        BY DEF Bars
      <2>. HIDE DEF r
      <2>. QED  BY <1>3, <2>1, <2>5, <2>6
    <1>. QED  BY <1>1, <1>2, <1>3

LEMMA LandedTyped ==
    ASSUME NEW b \in Bars, NEW u \in Query
    PROVE  /\ Landed(b, u) \in Bars
           /\ Landed(b, u).address = u
           /\ Landed(b, u).going = b.going
           /\ b.held = NoQuery => Landed(b, u).held = NoQuery
    BY LandedCases

\* What is left under way once the i-th navigation has landed.
LEMMA LeftUnderWay ==
    ASSUME NEW b \in Bars, NEW i \in 1..Len(b.going)
    PROVE  /\ [b EXCEPT !.going = SubSeq(@, i + 1, Len(@))] \in Bars
           /\ [b EXCEPT !.going = SubSeq(@, i + 1, Len(@))].address = b.address
           /\ [b EXCEPT !.going = SubSeq(@, i + 1, Len(@))].held = b.held
           /\ [b EXCEPT !.going = SubSeq(@, i + 1, Len(@))].onTheirWay = b.onTheirWay
           /\ [b EXCEPT !.going = SubSeq(@, i + 1, Len(@))].going
                = SubSeq(b.going, i + 1, Len(b.going))
    <1>. DEFINE g == SubSeq(b.going, i + 1, Len(b.going))
                r == [b EXCEPT !.going = g]
    <1>1. b.going \in Seq(Navigations) /\ i \in 0..Len(b.going)
      BY BarParts, LenProperties
    <1>2. g \in Seq(Navigations)
      BY <1>1, RestOf
    <1>. HIDE DEF g
    <1>3. g \in Seq([query : Query, by : {"bar", "tab", "sort", "panel", "board", "link"}])
      BY <1>2 DEF Navigations, OwnNames
    <1>4. /\ r \in Bars /\ r.address = b.address /\ r.held = b.held
          /\ r.onTheirWay = b.onTheirWay /\ r.going = g
      BY <1>3 DEF Bars
    <1>5. [b EXCEPT !.going = SubSeq(@, i + 1, Len(@))] = r
      BY DEF g
    <1>. QED  BY <1>4, <1>5 DEF g

\* A navigation that nothing else overtook lands where the record expects it.
LEMMA LandHolds ==
    ASSUME NEW b, BarHolds(b), NEW i \in 1..Len(b.going), NEW left \in Bars,
           left.address = b.address, left.held = b.held, left.onTheirWay = b.onTheirWay,
           left.going = SubSeq(b.going, i + 1, Len(b.going)),
           Own(b.going[i]) \/ i = Len(b.going)
    PROVE  /\ BarHolds(Landed(left, b.going[i].query))
           /\ ~LinkUnderWay(Landed(left, b.going[i].query))
           /\ Own(b.going[i]) => LatestQuery(Landed(left, b.going[i].query)) = LatestQuery(b)
           /\ ~Own(b.going[i]) => /\ LatestQuery(Landed(left, b.going[i].query)) = b.going[i].query
                                  /\ b.held = NoQuery
                                  /\ Len(b.going) = 1
    <1>. DEFINE n == b.going[i]
                u == n.query
                g == SubSeq(b.going, i + 1, Len(b.going))
                r == Landed(left, u)
    <1>b. b \in Bars /\ HeldIsLast(b) /\ LevelIsQuiet(b) /\ Len(b.going) <= 2 /\ LinksAreBare(b)
      BY DEF BarHolds
    <1>p. /\ b.address \in Query /\ b.held \in Query \cup {NoQuery}
          /\ b.onTheirWay \in Seq(Query) /\ b.going \in Seq(Navigations)
          /\ Len(b.going) \in Nat /\ i \in 0..Len(b.going) /\ i \in Nat
      BY <1>b, BarParts, LenProperties
    <1>u. n \in Navigations /\ u \in Query
      <2>1. n \in Navigations
        BY <1>p, ElementOfSeq
      <2>. QED  BY <2>1 DEF Navigations
    <1>l. /\ left \in Bars /\ left.address = b.address /\ left.held = b.held
          /\ left.onTheirWay = b.onTheirWay /\ left.going = g
      OBVIOUS
    <1>g. /\ g \in Seq(Navigations) /\ Len(g) = Len(b.going) - i /\ Len(g) <= 1
          /\ i = Len(b.going) => g = <<>>
          /\ i < Len(b.going) => g # <<>> /\ Newest(g) = Newest(b.going)
          /\ \A k \in 1..Len(g) : k = 1 /\ i = 1 /\ Len(b.going) = 2 /\ g[k] = Newest(b.going)
      <2>1. /\ g \in Seq(Navigations) /\ Len(g) = Len(b.going) - i
            /\ \A k \in 1..(Len(b.going) - i) : g[k] = b.going[i + k]
            /\ i = Len(b.going) => g = <<>>
            /\ i < Len(b.going) => g # <<>> /\ Newest(g) = Newest(b.going)
        BY <1>p, RestOf
      <2>. HIDE DEF g
      <2>2. Len(g) <= 1
        BY <1>b, <1>p, <2>1
      <2>3. ASSUME NEW k \in 1..Len(g)
            PROVE  k = 1 /\ i = 1 /\ Len(b.going) = 2
        <3>. DEFINE N == Len(b.going)
                    m == Len(g)
        <3>1. N \in Nat /\ N <= 2 /\ i \in 1..N /\ m = N - i /\ k \in 1..m
          BY <1>b, <1>p, <2>1
        <3>. HIDE DEF N, m
        <3>2. k = 1 /\ i = 1 /\ N = 2
          BY <3>1
        <3>. QED  BY <3>2 DEF N
      <2>4. ASSUME NEW k \in 1..Len(g)
            PROVE  g[k] = Newest(b.going)
        <3>1. k = 1 /\ i = 1 /\ Len(b.going) = 2
          BY <2>3
        <3>2. g[k] = b.going[2]
          BY <2>1, <3>1
        <3>. QED  BY <3>1, <3>2 DEF Newest
      <2>. QED  BY <2>1, <2>2, <2>3, <2>4
    <1>. HIDE DEF g, n, u, r
    <1>a. \A k \in 1..Len(g) : ~Own(g[k]) => ~g[k].query.content
      <2>1. ASSUME NEW k \in 1..Len(g)
            PROVE  g[k] = b.going[2] /\ 2 \in 1..Len(b.going)
        BY <1>g DEF Newest
      <2>. QED  BY <2>1, <1>b DEF LinksAreBare
    <1>n. r.going = g /\ r \in Bars
      BY <1>u, <1>l, LandedTyped DEF r
    <1>o. ~LinkUnderWay(r)
      <2>1. CASE b.held = NoQuery
        <3>1. ~(Len(b.going) = 2)
          <4>. DEFINE N == Len(b.going)
          <4>1. N <= 1
            BY <1>b, <2>1 DEF LevelIsQuiet
          <4>2. N \in Nat
            BY <1>p
          <4>. HIDE DEF N
          <4>3. N # 2
            BY <4>1, <4>2
          <4>. QED  BY <4>3 DEF N
        <3>. QED  BY <1>g, <1>n, <3>1 DEF LinkUnderWay
      <2>2. CASE b.held # NoQuery
        <3>1. Own(Newest(b.going))
          BY <1>b, <2>2 DEF HeldIsLast
        <3>. QED  BY <1>g, <1>n, <3>1 DEF LinkUnderWay
      <2>. QED  BY <2>1, <2>2
    <1>1. CASE b.held = NoQuery
      <2>1. b.onTheirWay = <<>> /\ Len(b.going) <= 1
        BY <1>1, <1>b DEF LevelIsQuiet
      <2>2. i = 1 /\ Len(b.going) = 1 /\ g = <<>>
        <3>. DEFINE N == Len(b.going)
        <3>1. N \in Nat /\ N <= 1 /\ i \in 1..N
          BY <1>p, <2>1
        <3>. HIDE DEF N
        <3>2. i = 1 /\ N = 1
          BY <3>1
        <3>. QED  BY <3>2, <1>g DEF N
      <2>3. Own(n) => u = b.address
        BY <1>1, <1>b, <2>2 DEF LevelIsQuiet, n, u
      <2>4. LatestQuery(b) = b.address
        BY <1>1 DEF LatestQuery
      <2>5. r \in Bars /\ r.address = u /\ r.held = NoQuery /\ r.going = <<>>
        BY <1>1, <1>u, <1>l, <2>2, LandedTyped DEF r
      <2>6. r.onTheirWay = <<>>
        BY <1>1, <1>u, <1>l, <2>1, LandedCases DEF r
      <2>7. LatestQuery(r) = u
        BY <2>5 DEF LatestQuery
      <2>8. BarHolds(r)
        BY <2>5, <2>6, Len(<<>>) = 0 DEF BarHolds, HeldIsLast, LevelIsQuiet, LinksAreBare
      <2>. QED  BY <1>o, <1>1, <2>2, <2>3, <2>4, <2>7, <2>8 DEF r, u, n
    <1>2. CASE b.held # NoQuery
      <2>1. /\ b.held # b.address /\ b.held \in Query
            /\ b.onTheirWay # <<>> /\ Newest(b.onTheirWay) = b.held
            /\ Own(Newest(b.going)) /\ Newest(b.going).query = b.held
            /\ \A k \in 1..Len(b.going) : Expected(b, b.going[k])
        BY <1>2, <1>b, <1>p DEF HeldIsLast
      <2>2. Own(n)
        BY <2>1 DEF n, Newest
      <2>3. LatestQuery(b) = b.held
        BY <1>2 DEF LatestQuery
      <2>4. i = Len(b.going) => u = b.held
        BY <2>1 DEF u, n, Newest
      <2>5. Len(b.onTheirWay) \in Nat /\ Len(b.onTheirWay) \in 1..Len(b.onTheirWay)
            /\ b.onTheirWay[Len(b.onTheirWay)] = b.held
        BY <2>1, <1>p, EmptySeq DEF Newest
      <2>6. CASE u = b.address
        <3>1. r = left
          BY <1>u, <1>l, <2>6, LandedCases DEF r
        <3>2. i # Len(b.going)
          BY <2>1, <2>4, <2>6
        <3>3. g # <<>> /\ Newest(g) = Newest(b.going) /\ i < Len(b.going)
          BY <1>g, <1>p, <3>2
        <3>4. \A k \in 1..Len(g) : Expected(left, g[k])
          <4>1. \A k \in 1..Len(g) : g[k] = Newest(b.going)
            BY <1>g
          <4>2. Expected(left, Newest(b.going))
            BY <1>l, <2>1, <2>5 DEF Expected
          <4>. QED  BY <4>1, <4>2
        <3>5. HeldIsLast(left)
          BY <1>l, <2>1, <3>3, <3>4 DEF HeldIsLast
        <3>6. LevelIsQuiet(left)
          BY <1>2, <1>l DEF LevelIsQuiet
        <3>7. Len(left.going) <= 2
          BY <1>g, <1>l, LenProperties
        <3>8. LatestQuery(left) = LatestQuery(b)
          BY <1>2, <1>l DEF LatestQuery
        <3>9. LinksAreBare(left)
          BY <1>a, <1>l DEF LinksAreBare
        <3>. QED  BY <1>l, <1>o, <2>2, <3>1, <3>5, <3>6, <3>7, <3>8, <3>9 DEF BarHolds, r, u, n
      <2>7. CASE u # b.address /\ u = b.held
        <3>1. /\ r \in Bars /\ r.address = u /\ r.going = g
              /\ r.held = NoQuery /\ r.onTheirWay = <<>>
          BY <1>u, <1>l, <2>7, LandedCases DEF r
        <3>2. LatestQuery(r) = u
          BY <3>1 DEF LatestQuery
        <3>3. \A k \in 1..Len(g) : g[k].query = u
          BY <1>g, <2>1, <2>7
        <3>4. Len(r.going) <= 1 /\ Len(r.going) <= 2
          BY <1>g, <1>p, <3>1
        <3>5. BarHolds(r)
          BY <1>a, <3>1, <3>3, <3>4 DEF BarHolds, HeldIsLast, LevelIsQuiet, LinksAreBare
        <3>. QED  BY <1>o, <2>2, <2>3, <2>7, <3>2, <3>5 DEF r, u, n
      <2>8. CASE u # b.address /\ u # b.held
        <3>1. i # Len(b.going) /\ i < Len(b.going)
          BY <2>4, <2>8, <1>p
        <3>2. g # <<>> /\ Newest(g) = Newest(b.going)
          BY <3>1, <1>g
        <3>3. \E k \in 1..Len(b.onTheirWay) : b.onTheirWay[k] = u
          <4>1. Expected(b, n)
            BY <2>1 DEF n
          <4>. QED  BY <4>1, <2>2, <2>8 DEF Expected, u
        <3>a. ~(\A k \in 1..Len(left.onTheirWay) : left.onTheirWay[k] # u)
          BY <1>l, <3>3
        <3>b. /\ left.held # NoQuery /\ u # left.held /\ u # left.address
          BY <1>2, <1>l, <2>8
        <3>c. /\ r \in Bars /\ r.address = u /\ r.going = left.going /\ r.held = left.held
              /\ \E m \in 1..Len(left.onTheirWay) :
                   /\ left.onTheirWay[m] = u
                   /\ r.onTheirWay = SubSeq(left.onTheirWay, m + 1, Len(left.onTheirWay))
          BY <1>u, <1>l, <3>a, <3>b, LandedCases DEF r
        <3>4. PICK m \in 1..Len(b.onTheirWay) :
                /\ b.onTheirWay[m] = u
                /\ r.onTheirWay = SubSeq(b.onTheirWay, m + 1, Len(b.onTheirWay))
          BY <3>c, <1>l
        <3>5. r \in Bars /\ r.address = u /\ r.going = g /\ r.held = b.held
          BY <3>c, <1>l
        <3>6. m < Len(b.onTheirWay) /\ m \in 0..Len(b.onTheirWay)
          BY <2>5, <2>8, <3>4
        <3>7. r.onTheirWay # <<>> /\ Newest(r.onTheirWay) = b.held
          BY <1>p, <2>1, <3>4, <3>6, RestOf
        <3>8. \A k \in 1..Len(g) : Expected(r, g[k])
          <4>1. r.onTheirWay \in Seq(Query)
            BY <3>5, BarParts
          <4>2. Len(r.onTheirWay) \in 1..Len(r.onTheirWay)
            BY <3>7, <4>1, EmptySeq
          <4>3. Expected(r, Newest(b.going))
            BY <2>1, <3>7, <4>2 DEF Expected, Newest
          <4>. QED  BY <1>g, <4>3
        <3>9. HeldIsLast(r)
          BY <2>1, <2>8, <3>2, <3>5, <3>7, <3>8 DEF HeldIsLast
        <3>10. LatestQuery(r) = LatestQuery(b)
          BY <1>2, <3>5 DEF LatestQuery
        <3>11. BarHolds(r)
          <4>1. Len(r.going) <= 2
            BY <1>g, <3>5, LenProperties
          <4>2. LevelIsQuiet(r)
            BY <1>2, <3>5 DEF LevelIsQuiet
          <4>3. LinksAreBare(r)
            BY <1>a, <3>5 DEF LinksAreBare
          <4>. QED  BY <3>5, <3>9, <4>1, <4>2, <4>3 DEF BarHolds
        <3>. QED  BY <1>o, <2>2, <3>10, <3>11 DEF r, u, n
      <2>. QED  BY <2>6, <2>7, <2>8
    <1>. QED  BY <1>1, <1>2

-----------------------------------------------------------------------------
(* Types, on every page.                                                   *)

QueryAsked == [wanted : Query, crossed : BOOLEAN]

Boxes == [search : Searches \cup {Blank}, lastSent : Searches \cup {Blank}]

LEMMA TypedParts ==
    ASSUME AddressTypeOK
    PROVE  /\ bar \in Bars /\ Len(bar.going) <= 2
           /\ LatestQuery(bar) \in Query /\ bar.address \in Query
           /\ asked \in QueryAsked /\ asked.wanted \in Query /\ asked.crossed \in BOOLEAN
           /\ box \in Boxes
           /\ behind \in Seq(Query)
    BY LatestTyped, BarParts DEF AddressTypeOK, QueryAsked, Boxes

LEMMA TypesStay ==
    ASSUME AddressTypeOK, UNCHANGED page, bar' \in Bars, Len(bar'.going) <= 2,
           behind' \in Seq(Query), box' \in Boxes, panelOpen' \in BOOLEAN, asked' \in QueryAsked,
           presses' = presses \/ Press
    PROVE  AddressTypeOK'
    <1>1. presses' \in 0..MaxPresses
      <2>1. MaxPresses \in Nat /\ presses \in 0..MaxPresses
        BY ListAddressAssumption DEF AddressTypeOK
      <2>2. CASE presses' = presses
        BY <2>1, <2>2
      <2>3. CASE Press
        BY <2>1, <2>3 DEF Press
      <2>. QED  BY <2>2, <2>3
    <1>. QED  BY <1>1 DEF AddressTypeOK, QueryAsked, Boxes

LEMMA AskedMade ==
    ASSUME NEW w \in Query, NEW c
    PROVE  /\ \A p \in BOOLEAN, q \in BOOLEAN : [wanted |-> w, crossed |-> p \/ q] \in QueryAsked
           /\ \A p \in BOOLEAN, q \in BOOLEAN : (p \/ q) \in BOOLEAN
    BY DEF QueryAsked

\* A change that is sent: what the press wanted comes to w.
LEMMA SentTyped ==
    ASSUME AddressTypeOK, NEW u \in Query, NEW by \in OwnNames, NEW w \in Query, NEW c \in BOOLEAN,
           bar' = ReplaceQuery(bar, u, by),
           asked' = [wanted |-> w, crossed |-> asked.crossed \/ c]
    PROVE  bar' \in Bars /\ Len(bar'.going) <= 2 /\ asked' \in QueryAsked
    <1>1. bar' \in Bars /\ Len(bar'.going) <= 2
      BY TypedParts, Replaced
    <1>2. asked.crossed \in BOOLEAN
      BY TypedParts
    <1>3. asked' \in QueryAsked
      BY <1>2, AskedMade
    <1>. QED  BY <1>1, <1>3

LEMMA BoxFollowsTyped ==
    ASSUME AddressTypeOK, NEW old \in Query, NEW new \in Query, BoxFollows(old, new)
    PROVE  box' \in Boxes
    <1>1. new.q \in Searches \cup {Blank}
      BY DEF Query
    <1>2. box \in Boxes
      BY TypedParts
    <1>. QED  BY <1>1, <1>2 DEF BoxFollows, Boxes

\* The panel's link is put back, or the record is as it was.
LEMMA RelinkedCases ==
    ASSUME NEW b, NEW old
    PROVE  \/ Relinked(b, old) = b
           \/ /\ Controls.links /\ panelOpen
              /\ ~LatestQuery(b).content
              /\ b.address.content # old.content
              /\ Relinked(b, old) = ReplaceQuietly(b, WithLink(LatestQuery(b)))
    BY DEF Relinked

LEMMA MoveTyped ==
    ASSUME AddressTypeOK, NEW b \in Bars, Len(b.going) <= 2, b.address = bar.address,
           NEW u \in Query, AddressMoves(b, u)
    PROVE  bar' \in Bars /\ Len(bar'.going) <= 2 /\ box' \in Boxes
    <1>1. box' \in Boxes
      <2>1. b.address \in Query /\ BoxFollows(b.address, u)
        BY BarParts DEF AddressMoves
      <2>. QED  BY <2>1, BoxFollowsTyped
    <1>2. Landed(b, u) \in Bars /\ Len(Landed(b, u).going) <= 2
      BY LandedTyped
    <1>3. WithLink(LatestQuery(Landed(b, u))) \in Query
      BY <1>2, LatestTyped, QueriesMade
    <1>4. ReplaceQuietly(Landed(b, u), WithLink(LatestQuery(Landed(b, u)))) \in Bars
          /\ Len(ReplaceQuietly(Landed(b, u), WithLink(LatestQuery(Landed(b, u)))).going) <= 2
      BY <1>2, <1>3, ReplacedQuietly
    <1>5. bar' = Relinked(Landed(b, u), b.address)
      BY DEF AddressMoves
    <1>6. bar' \in Bars /\ Len(bar'.going) <= 2
      BY <1>2, <1>4, <1>5, RelinkedCases
    <1>. QED  BY <1>1, <1>6

LEMMA TypeKeeps ==
    ASSUME NEW s \in Searches \cup {Blank}, AddressTypeOK, Type(s)
    PROVE  AddressTypeOK'
    <1>1. box' \in Boxes
      BY TypedParts DEF Type, Boxes
    <1>. QED  BY <1>1, TypedParts, TypesStay DEF Type, AddressTypeOK

LEMMA PauseTyped ==
    ASSUME AddressTypeOK, SearchPauses
    PROVE  AddressTypeOK'
    <1>. DEFINE u == WithSearch(box.search, LatestQuery(bar))
                w == WithSearch(box.search, asked.wanted)
    <1>1. box.search \in Searches \cup {Blank} /\ box' \in Boxes
      BY TypedParts DEF SearchPauses, Boxes
    <1>2. u \in Query /\ w \in Query /\ "bar" \in OwnNames
      BY <1>1, TypedParts, QueriesMade DEF OwnNames
    <1>3. /\ bar' = ReplaceQuery(bar, u, "bar")
          /\ asked' = [wanted |-> w,
                       crossed |-> asked.crossed \/ (u = bar.address /\ bar.going # <<>>)]
      BY DEF SearchPauses, Wants
    <1>4. bar' \in Bars /\ Len(bar'.going) <= 2 /\ asked' \in QueryAsked
      BY <1>2, <1>3, SentTyped
    <1>. QED  BY <1>1, <1>4, TypesStay, TypedParts DEF SearchPauses, AddressTypeOK

LEMMA StatusTyped ==
    ASSUME AddressTypeOK, NEW s \in {"all", "picked"}, PickStatus(s)
    PROVE  AddressTypeOK'
    <1>. DEFINE u == WithStatus(s, LatestQuery(bar))
                w == WithStatus(s, asked.wanted)
    <1>2. u \in Query /\ w \in Query /\ "bar" \in OwnNames
      BY TypedParts, QueriesMade DEF OwnNames
    <1>3. /\ bar' = ReplaceQuery(bar, u, "bar")
          /\ asked' = [wanted |-> w,
                       crossed |-> asked.crossed \/ (u = bar.address /\ bar.going # <<>>)]
      BY DEF PickStatus, Wants
    <1>4. bar' \in Bars /\ Len(bar'.going) <= 2 /\ asked' \in QueryAsked
      BY <1>2, <1>3, SentTyped
    <1>. QED  BY <1>4, TypesStay, TypedParts DEF PickStatus, AddressTypeOK

LEMMA TabTyped ==
    ASSUME AddressTypeOK, NEW t \in {"all", "done"}, SelectTab(t)
    PROVE  AddressTypeOK'
    <1>. DEFINE u == AfterTabChange(t, LatestQuery(bar))
                w == AfterTabChange(t, asked.wanted)
    <1>2. u \in Query /\ w \in Query /\ "tab" \in OwnNames
      BY TypedParts, QueriesMade DEF OwnNames
    <1>3. /\ bar' = ReplaceQuery(bar, u, "tab")
          /\ asked' = [wanted |-> w,
                       crossed |-> asked.crossed \/ (u = bar.address /\ bar.going # <<>>)]
      BY DEF SelectTab, Wants
    <1>4. bar' \in Bars /\ Len(bar'.going) <= 2 /\ asked' \in QueryAsked
      BY <1>2, <1>3, SentTyped
    <1>. QED  BY <1>4, TypesStay, TypedParts DEF SelectTab, AddressTypeOK

LEMMA ControlsOf ==
    /\ page = "plan" => Controls = PlanPage
    /\ page = "tasks" => Controls = TasksPage
    /\ page = "roster" => Controls = RosterPage
    /\ page = "invoices" => Controls = InvoicePage
    /\ page = "detail" => Controls = DetailPage
    BY DEF Controls

LEMMA SortTyped ==
    ASSUME AddressTypeOK, ToggleSort
    PROVE  AddressTypeOK'
    <1>. DEFINE u == CASE Controls.order = "sent"        -> Flipped(LatestQuery(bar))
                       [] Controls.order = "shown order" ->
                            SortedBy(Turned(bar.address.sort), LatestQuery(bar))
                       [] Controls.order = "shown"       -> Flipped(bar.address)
                w == Flipped(asked.wanted)
    <1>1. Controls.order \in {"sent", "shown order", "shown"}
      <2>1. page \in ListPages
        BY ListAddressAssumption DEF AddressTypeOK
      <2>2. Controls.order \in {"sent", "shown order", "shown", "none"}
        <3>1. /\ PlanPage.order = "sent" /\ TasksPage.order = "sent" /\ RosterPage.order = "none"
              /\ InvoicePage.order = "shown order" /\ DetailPage.order = "shown"
          BY DEF PlanPage, TasksPage, RosterPage, InvoicePage, DetailPage
        <3>. QED  BY <2>1, <3>1, ControlsOf DEF ListPages
      <2>. QED  BY <2>2 DEF ToggleSort
    <1>2. bar.address.sort \in {"default", "flipped"}
      BY TypedParts DEF Query
    <1>3. /\ Flipped(LatestQuery(bar)) \in Query
          /\ SortedBy(Turned(bar.address.sort), LatestQuery(bar)) \in Query
          /\ Flipped(bar.address) \in Query /\ w \in Query
      BY <1>2, TypedParts, QueriesMade
    <1>4. u \in Query /\ "sort" \in OwnNames
      BY <1>1, <1>3 DEF OwnNames
    <1>5. /\ bar' = ReplaceQuery(bar, u, "sort")
          /\ asked' = [wanted |-> w,
                       crossed |-> asked.crossed
                         \/ (Flipped(LatestQuery(bar)) = bar.address /\ bar.going # <<>>)]
      BY DEF ToggleSort, Wants
    <1>. HIDE DEF u
    <1>6. bar' \in Bars /\ Len(bar'.going) <= 2 /\ asked' \in QueryAsked
      BY <1>3, <1>4, <1>5, SentTyped
    <1>. QED  BY <1>6, TypesStay, TypedParts DEF ToggleSort, AddressTypeOK

LEMMA ResetTyped ==
    ASSUME AddressTypeOK, Reset
    PROVE  AddressTypeOK'
    <1>. DEFINE u == Unfiltered(bar.address)
    <1>1. box' \in Boxes
      BY DEF Reset, Boxes, Searches
    <1>2. u \in Query /\ "bar" \in OwnNames
      BY TypedParts, QueriesMade DEF OwnNames
    <1>3. /\ bar' = ReplaceQuery(bar, u, "bar")
          /\ asked' = [wanted |-> u,
                       crossed |-> asked.crossed \/ (u = bar.address /\ bar.going # <<>>)]
      BY DEF Reset, Wants
    <1>4. bar' \in Bars /\ Len(bar'.going) <= 2 /\ asked' \in QueryAsked
      BY <1>2, <1>3, SentTyped
    <1>. QED  BY <1>1, <1>4, TypesStay, TypedParts DEF Reset, AddressTypeOK

LEMMA ResetEmptyTyped ==
    ASSUME AddressTypeOK, ResetEmpty
    PROVE  AddressTypeOK'
    <1>. DEFINE u == Unfiltered(bar.address)
    <1>2. u \in Query /\ "board" \in OwnNames
      BY TypedParts, QueriesMade DEF OwnNames
    <1>3. /\ bar' = ReplaceQuery(bar, u, "board")
          /\ asked' = [wanted |-> u, crossed |-> asked.crossed \/ bar.going # <<>>]
      BY DEF ResetEmpty
    <1>4. bar' \in Bars /\ Len(bar'.going) <= 2 /\ asked' \in QueryAsked
      BY <1>2, <1>3, SentTyped
    <1>. QED  BY <1>4, TypesStay, TypedParts DEF ResetEmpty, AddressTypeOK

LEMMA OpenTyped ==
    ASSUME AddressTypeOK, OpenPanel
    PROVE  AddressTypeOK'
    <1>. DEFINE u == WithLink(LatestQuery(bar))
                w == WithLink(asked.wanted)
    <1>1. u \in Query /\ w \in Query
      BY TypedParts, QueriesMade
    <1>2. \/ /\ bar' = ReplaceQuietly(bar, u)
             /\ asked' = [wanted |-> w,
                          crossed |-> asked.crossed \/ (u = bar.address /\ bar.going # <<>>)]
          \/ bar' = bar /\ asked' = asked
      BY DEF OpenPanel, Wants
    <1>3. bar' \in Bars /\ Len(bar'.going) <= 2
      BY <1>1, <1>2, TypedParts, ReplacedQuietly
    <1>4. asked' \in QueryAsked
      BY <1>1, <1>2, TypedParts, AskedMade
    <1>. QED  BY <1>3, <1>4, TypesStay, TypedParts DEF OpenPanel, AddressTypeOK

LEMMA CloseTyped ==
    ASSUME AddressTypeOK, ClosePanel
    PROVE  AddressTypeOK'
    <1>. DEFINE u == WithoutLink(LatestQuery(bar))
                w == WithoutLink(asked.wanted)
    <1>1. u \in Query /\ w \in Query
      BY TypedParts, QueriesMade
    <1>2. \/ /\ bar' = ReplaceQuietly(bar, u)
             /\ asked' = [wanted |-> w,
                          crossed |-> asked.crossed \/ (u = bar.address /\ bar.going # <<>>)]
          \/ bar' = bar /\ asked' = asked
      BY DEF ClosePanel, Wants
    <1>3. bar' \in Bars /\ Len(bar'.going) <= 2
      BY <1>1, <1>2, TypedParts, ReplacedQuietly
    <1>4. asked' \in QueryAsked
      BY <1>1, <1>2, TypedParts, AskedMade
    <1>. QED  BY <1>3, <1>4, TypesStay, TypedParts DEF ClosePanel, AddressTypeOK

\* A link leads to a query of the page, without a panel.
LEMMA LinksLead ==
    ASSUME AddressTypeOK, NEW u \in LinkTargets
    PROVE  u \in Query /\ ~u.content
    <1>1. bar.address \in Query
      BY TypedParts
    <1>2. ASSUME NEW v \in Query
          PROVE  /\ \A x \in PageLinks(v) : x \in Query /\ ~x.content
                 /\ \A x \in ViewLinks(v) : x \in Query /\ ~x.content
                 /\ \A x \in PeriodLinks(v) : x \in Query /\ ~x.content
      <2>1. Rebuilt(v) \in Query /\ ~Rebuilt(v).content
        BY QueriesMade DEF Rebuilt, Query
      <2>2. BareQuery \in Query /\ ~BareQuery.content
        BY BareTyped DEF BareQuery
      <2>3. v.page \in 1..2 /\ 3 - v.page \in 1..2 /\ (~v.kept) \in BOOLEAN /\ 1 \in 1..2
        BY DEF Query
      <2>4. \A w \in Query, n \in 1..2 :
              [w EXCEPT !.page = n] \in Query /\ [w EXCEPT !.page = n].content = w.content
        BY DEF Query
      <2>k. \A w \in Query, k \in BOOLEAN :
              [w EXCEPT !.kept = k] \in Query /\ (~w.content => ~[w EXCEPT !.kept = k].content)
        <3>1. \A w \in Query, k \in BOOLEAN : [w EXCEPT !.kept = k] \in Query
          BY DEF Query
        <3>2. ASSUME NEW w \in Query, NEW k \in BOOLEAN
              PROVE  [w EXCEPT !.kept = k].content = w.content
          BY DEF Query
        <3>. QED  BY <3>1, <3>2
      <2>5. [Rebuilt(v) EXCEPT !.page = 1, !.kept = ~v.kept]
              = [[Rebuilt(v) EXCEPT !.page = 1] EXCEPT !.kept = ~v.kept]
        BY <2>1
      <2>. HIDE DEF Rebuilt
      <2>6. \A x \in PageLinks(v) : x \in Query /\ ~x.content
        BY <2>1, <2>3, <2>4 DEF PageLinks
      <2>7. \A x \in ViewLinks(v) : x \in Query /\ ~x.content
        <3>1. [Rebuilt(v) EXCEPT !.page = 1] \in Query /\ ~[Rebuilt(v) EXCEPT !.page = 1].content
          BY <2>1, <2>3, <2>4
        <3>2. /\ [[Rebuilt(v) EXCEPT !.page = 1] EXCEPT !.kept = ~v.kept] \in Query
              /\ ~[[Rebuilt(v) EXCEPT !.page = 1] EXCEPT !.kept = ~v.kept].content
          BY <2>3, <2>k, <3>1
        <3>. QED  BY <2>5, <3>2, Zenon DEF ViewLinks
      <2>8. \A x \in PeriodLinks(v) : x \in Query /\ ~x.content
        BY <2>2, <2>3, <2>k DEF PeriodLinks
      <2>. QED  BY <2>6, <2>7, <2>8
    <1>3. \/ u \in PageLinks(bar.address)
          \/ u \in ViewLinks(bar.address)
          \/ u \in PeriodLinks(bar.address)
      BY DEF LinkTargets
    <1>. QED  BY <1>1, <1>2, <1>3

LEMMA FollowTyped ==
    ASSUME AddressTypeOK, NEW u \in LinkTargets, FollowLink(u)
    PROVE  AddressTypeOK'
    <1>. DEFINE g == UnderWay(bar.going, Navigation(u, "link"))
    <1>1. u \in Query
      BY LinksLead
    <1>2. g \in Seq(Navigations) /\ Len(g) <= 2
      BY <1>1, TypedParts, BarParts, NavigationMade, UnderWayTyped
    <1>3. bar' = [bar EXCEPT !.going = g]
      BY DEF FollowLink
    <1>. HIDE DEF g
    <1>4. g \in Seq([query : Query, by : {"bar", "tab", "sort", "panel", "board", "link"}])
      BY <1>2 DEF Navigations, OwnNames
    <1>5. bar' \in Bars /\ bar'.going = g
      BY <1>3, <1>4, TypedParts DEF Bars
    <1>6. asked' \in QueryAsked
      BY TypedParts DEF FollowLink, QueryAsked
    <1>. QED  BY <1>2, <1>5, <1>6, TypesStay, TypedParts DEF FollowLink, AddressTypeOK

\* What lands, and what is left under way.
LEMMA LandParts ==
    ASSUME AddressTypeOK, NEW i \in 1..Len(bar.going), Land(i)
    PROVE  \E left \in Bars :
             /\ left = [bar EXCEPT !.going = SubSeq(@, i + 1, Len(@))]
             /\ left.address = bar.address /\ left.held = bar.held
             /\ left.onTheirWay = bar.onTheirWay
             /\ left.going = SubSeq(bar.going, i + 1, Len(bar.going))
             /\ Len(left.going) <= 2
             /\ AddressMoves(left, bar.going[i].query)
             /\ bar.going[i] \in Navigations /\ bar.going[i].query \in Query
    <1>. DEFINE left == [bar EXCEPT !.going = SubSeq(@, i + 1, Len(@))]
    <1>1. bar \in Bars /\ Len(bar.going) <= 2 /\ bar.going \in Seq(Navigations)
      BY TypedParts, BarParts
    <1>2. /\ left \in Bars
          /\ left.address = bar.address /\ left.held = bar.held
          /\ left.onTheirWay = bar.onTheirWay
          /\ left.going = SubSeq(bar.going, i + 1, Len(bar.going))
      BY <1>1, LeftUnderWay
    <1>3. AddressMoves(left, bar.going[i].query)
      BY DEF Land
    <1>4. bar.going[i] \in Navigations
      BY <1>1, ElementOfSeq
    <1>5. bar.going[i].query \in Query
      BY <1>4 DEF Navigations
    <1>6. Len(left.going) <= 2
      <2>. DEFINE N == Len(bar.going)
                  g == SubSeq(bar.going, i + 1, Len(bar.going))
      <2>1. N \in Nat /\ i \in 0..N /\ i \in 1..N
        BY <1>1, LenProperties
      <2>2. Len(g) = N - i
        BY <1>1, <2>1, RestOf
      <2>. HIDE DEF N
      <2>3. N <= 2
        BY <1>1 DEF N
      <2>. QED  BY <1>2, <2>1, <2>2, <2>3
    <1>. HIDE DEF left
    <1>7. left = [bar EXCEPT !.going = SubSeq(@, i + 1, Len(@))]
      BY DEF left
    <1>. QED  BY <1>2, <1>3, <1>4, <1>5, <1>6, <1>7

LEMMA LandStepTyped ==
    ASSUME AddressTypeOK, NEW i \in 1..Len(bar.going), Land(i)
    PROVE  AddressTypeOK'
    <1>1. PICK left \in Bars :
             /\ left = [bar EXCEPT !.going = SubSeq(@, i + 1, Len(@))]
             /\ left.address = bar.address /\ left.held = bar.held
             /\ left.onTheirWay = bar.onTheirWay
             /\ left.going = SubSeq(bar.going, i + 1, Len(bar.going))
             /\ Len(left.going) <= 2
             /\ AddressMoves(left, bar.going[i].query)
             /\ bar.going[i] \in Navigations /\ bar.going[i].query \in Query
      BY LandParts, Zenon
    <1>2. bar' \in Bars /\ Len(bar'.going) <= 2 /\ box' \in Boxes
      BY <1>1, MoveTyped
    <1>3. LatestQuery(bar') \in Query
      BY <1>2, LatestTyped
    <1>4. behind' \in Seq(Query)
      <2>1. Append(behind, bar.address) \in Seq(Query)
        BY TypedParts, AppendProperties
      <2>. QED  BY <2>1, TypedParts DEF Land
    <1>5. asked' \in QueryAsked
      <2>. DEFINE w == IF i = Len(bar.going) THEN LatestQuery(bar') ELSE asked.wanted
                  c == i < Len(bar.going)
      <2>1. w \in Query /\ asked.crossed \in BOOLEAN /\ c \in BOOLEAN
        BY <1>3, TypedParts
      <2>2. asked' = asked \/ asked' = [wanted |-> w, crossed |-> asked.crossed \/ c]
        BY DEF Land
      <2>. HIDE DEF w, c
      <2>. QED  BY <2>1, <2>2, TypedParts, AskedMade
    <1>. QED  BY <1>2, <1>4, <1>5, TypesStay DEF Land, AddressTypeOK

LEMMA BackParts ==
    ASSUME AddressTypeOK, GoBack
    PROVE  \E left \in Bars, to \in Query :
             /\ left.address = bar.address /\ left.held = bar.held
             /\ left.onTheirWay = bar.onTheirWay /\ left.going = <<>>
             /\ to = behind[Len(behind)] /\ Len(behind) \in 1..Len(behind)
             /\ AddressMoves(left, to)
    <1>. DEFINE left == [bar EXCEPT !.going = <<>>]
                to == behind[Len(behind)]
    <1>1. bar \in Bars /\ behind \in Seq(Query) /\ behind # <<>>
      BY TypedParts DEF GoBack
    <1>2. <<>> \in Seq([query : Query, by : {"bar", "tab", "sort", "panel", "board", "link"}])
      BY EmptySeq
    <1>3. /\ left \in Bars
          /\ left.address = bar.address /\ left.held = bar.held
          /\ left.onTheirWay = bar.onTheirWay /\ left.going = <<>>
      BY <1>1, <1>2 DEF Bars
    <1>4. Len(behind) \in 1..Len(behind)
      BY <1>1, EmptySeq
    <1>5. to \in Query
      BY <1>1, <1>4, ElementOfSeq
    <1>6. AddressMoves(left, to)
      BY DEF GoBack
    <1>. HIDE DEF left
    <1>. QED  BY <1>3, <1>4, <1>5, <1>6

LEMMA BackTyped ==
    ASSUME AddressTypeOK, GoBack
    PROVE  AddressTypeOK'
    <1>1. PICK left \in Bars, to \in Query :
             /\ left.address = bar.address /\ left.held = bar.held
             /\ left.onTheirWay = bar.onTheirWay /\ left.going = <<>>
             /\ to = behind[Len(behind)] /\ Len(behind) \in 1..Len(behind)
             /\ AddressMoves(left, to)
      BY BackParts, Zenon
    <1>2. bar' \in Bars /\ Len(bar'.going) <= 2 /\ box' \in Boxes
      BY <1>1, MoveTyped
    <1>3. LatestQuery(bar') \in Query
      BY <1>2, LatestTyped
    <1>4. behind' \in Seq(Query)
      <2>1. \A k \in 1 .. Len(behind) - 1 : behind[k] \in Query
        BY <1>1, TypedParts, ElementOfSeq, LenProperties
      <2>2. Len(behind) - 1 \in Int /\ 1 \in Int
        BY <1>1
      <2>3. SubSeq(behind, 1, Len(behind) - 1) \in Seq(Query)
        BY <2>1, <2>2, SubSeqProperties
      <2>. QED  BY <2>3 DEF GoBack
    <1>5. asked' \in QueryAsked
      <2>. DEFINE c == bar.going # <<>>
      <2>1. asked.crossed \in BOOLEAN /\ c \in BOOLEAN
        BY TypedParts
      <2>2. asked' = [wanted |-> LatestQuery(bar'), crossed |-> asked.crossed \/ c]
        BY DEF GoBack
      <2>. HIDE DEF c
      <2>. QED  BY <1>3, <2>1, <2>2, AskedMade
    <1>. QED  BY <1>2, <1>4, <1>5, TypesStay DEF GoBack, AddressTypeOK

LEMMA SearchesOpen ==
    ASSUME NEW w \in Words
    PROVE  [BareQuery EXCEPT !.q = w, !.page = 2] \in Query
    <1>. DEFINE v == [BareQuery EXCEPT !.q = w]
    <1>1. v \in Query
      BY BareTyped DEF Query, Searches
    <1>2. [BareQuery EXCEPT !.q = w, !.page = 2] = [v EXCEPT !.page = 2]
      OBVIOUS
    <1>. HIDE DEF v
    <1>3. \A x \in Query, n \in 1..2 : [x EXCEPT !.page = n] \in Query
      BY DEF Query
    <1>4. 2 \in 1..2
      OBVIOUS
    <1>5. [v EXCEPT !.page = 2] \in Query
      BY <1>1, <1>3, <1>4
    <1>. QED  BY <1>2, <1>5

\* A page opens on a query of its own, with the box and the panel to match.
LEMMA AddressOpens ==
    ASSUME AddressInit
    PROVE  \E u \in Query :
              /\ bar = [address |-> u, held |-> NoQuery, onTheirWay |-> <<>>, going |-> <<>>]
              /\ box = [search |-> u.q, lastSent |-> u.q]
              /\ panelOpen = u.content
              /\ asked = [wanted |-> u, crossed |-> FALSE]
              /\ u.content => Controls.links
    <1>. DEFINE Opens(u) ==
              /\ u.content => Controls.links
              /\ bar = [address |-> u, held |-> NoQuery, onTheirWay |-> <<>>, going |-> <<>>]
              /\ box = [search |-> u.q, lastSent |-> u.q]
              /\ panelOpen = u.content
              /\ asked = [wanted |-> u, crossed |-> FALSE]
    <1>1. \E u \in {BareQuery, WithLink(BareQuery)} \cup
                {[BareQuery EXCEPT !.q = w, !.page = 2] : w \in Words} : Opens(u)
      BY DEF AddressInit
    <1>2. BareQuery \in Query /\ WithLink(BareQuery) \in Query
      BY BareTyped, QueriesMade
    <1>. HIDE DEF Opens
    <1>3. \E u \in Query : Opens(u)
      BY <1>1, <1>2, SearchesOpen, Zenon
    <1>. QED  BY <1>3 DEF Opens

LEMMA AddressStartsTyped ==
    ASSUME AddressInit
    PROVE  AddressTypeOK
    <1>1. PICK u \in Query :
              /\ bar = [address |-> u, held |-> NoQuery, onTheirWay |-> <<>>, going |-> <<>>]
              /\ box = [search |-> u.q, lastSent |-> u.q]
              /\ panelOpen = u.content
              /\ asked = [wanted |-> u, crossed |-> FALSE]
              /\ u.content => Controls.links
      BY AddressOpens, Zenon
    <1>3. <<>> \in Seq(Query) /\ <<>> \in Seq(Navigations) /\ Len(<<>>) = 0
      BY EmptySeq
    <1>4. bar \in Bars /\ Len(bar.going) <= 2
      <2>1. NoQuery \in Query \cup {NoQuery}
        OBVIOUS
      <2>2. [address |-> u, held |-> NoQuery, onTheirWay |-> <<>>, going |-> <<>>] \in Bars
        BY <1>3, <2>1, BarMade
      <2>. QED  BY <1>1, <1>3, <2>2
    <1>5. u.q \in Searches /\ u.content \in BOOLEAN
      BY DEF Query
    <1>6. box \in Boxes /\ asked \in QueryAsked /\ panelOpen \in BOOLEAN
      BY <1>1, <1>5 DEF Boxes, QueryAsked
    <1>7. presses \in 0..MaxPresses
      <2>1. MaxPresses \in Nat
        BY ListAddressAssumption
      <2>2. presses = 0
        BY DEF AddressInit
      <2>. QED  BY <2>1, <2>2
    <1>8. page \in Pages /\ behind \in Seq(Query)
      BY <1>3 DEF AddressInit
    <1>. QED  BY <1>4, <1>6, <1>7, <1>8 DEF AddressTypeOK, Boxes, QueryAsked

LEMMA AddressStaysTyped ==
    ASSUME AddressTypeOK, [AddressNext]_addressVars
    PROVE  AddressTypeOK'
    <1>1. CASE Acts
      BY <1>1, TypeKeeps, StatusTyped, TabTyped, SortTyped, ResetTyped, ResetEmptyTyped, OpenTyped,
         CloseTyped, FollowTyped, BackTyped DEF Acts
    <1>2. CASE UNCHANGED addressVars
      BY <1>2 DEF addressVars, AddressTypeOK
    <1>. QED  BY <1>1, <1>2, PauseTyped, LandStepTyped DEF AddressNext

\* On every page, whatever is pressed, typed and landed
\* (url-query.ts, use-url-filters.ts).
THEOREM AddressTypes == AddressSpec => []AddressTypeOK
    <1>1. AddressInit => AddressTypeOK
      BY AddressStartsTyped
    <1>2. AddressTypeOK /\ [AddressNext]_addressVars => AddressTypeOK'
      BY AddressStaysTyped
    <1>. QED  BY <1>1, <1>2, PTL DEF AddressSpec

-----------------------------------------------------------------------------
(* The pages that build on what was last sent.                             *)

\* The panel's content is in what was last sent, and in nothing Back leads to.
PanelIsNamed ==
    Controls.links =>
        /\ LatestQuery(bar).content = panelOpen
        /\ \A i \in 1..Len(behind) : ~behind[i].content
        /\ bar.held = NoQuery /\ LinkUnderWay(bar) => ~panelOpen

\* The box has sent what is searched for, once the address shows it.
SearchIsSent ==
    bar.address.q = LatestQuery(bar).q => Sought(box.lastSent) = bar.address.q

InStep ==
    /\ BarHolds(bar)
    /\ LatestQuery(bar) = asked.wanted
    /\ PanelIsNamed
    /\ SearchIsSent

AddressInv ==
    /\ AddressTypeOK
    /\ page \in SentPages
    /\ ~asked.crossed => InStep

LEMMA AddressParts ==
    ASSUME AddressInv
    PROVE  /\ AddressTypeOK /\ page \in SentPages
           /\ bar \in Bars /\ Len(bar.going) <= 2
           /\ LatestQuery(bar) \in Query /\ bar.address \in Query
           /\ asked \in QueryAsked /\ asked.crossed \in BOOLEAN
           /\ box \in Boxes
           /\ behind \in Seq(Query)
    BY TypedParts DEF AddressInv

LEMMA Level ==
    ASSUME NEW b, BarHolds(b), b.going = <<>>
    PROVE  b.held = NoQuery /\ b.onTheirWay = <<>> /\ LatestQuery(b) = b.address
    BY DEF BarHolds, HeldIsLast, LevelIsQuiet, LatestQuery

\* A change that is sent, and what it comes to.
LEMMA SentInStep ==
    ASSUME AddressInv, NEW u \in Query, NEW by \in OwnNames, NEW w \in Query, NEW c \in BOOLEAN,
           bar' = ReplaceQuery(bar, u, by),
           asked' = [wanted |-> w, crossed |-> asked.crossed \/ c],
           u = bar.address /\ bar.going # <<>> => c,
           UNCHANGED <<page, behind, panelOpen>>,
           ~asked.crossed /\ ~c =>
               /\ w = u
               /\ Controls.links => u.content = panelOpen
               /\ bar.address.q = u.q => Sought(box'.lastSent) = u.q
    PROVE  ~asked'.crossed => InStep'
    <1>1. SUFFICES ASSUME ~asked'.crossed
                   PROVE  InStep'
      OBVIOUS
    <1>2. ~asked.crossed /\ ~c /\ asked'.wanted = w
      BY <1>1
    <1>3. InStep /\ BarHolds(bar) /\ bar \in Bars
      BY <1>2, AddressParts DEF AddressInv, InStep
    <1>4. /\ BarHolds(bar')
          /\ bar'.held = NoQuery => ~LinkUnderWay(bar')
      BY <1>2, <1>3, ReplacedHolds
    <1>5. bar'.address = bar.address /\ LatestQuery(bar') = u
      BY <1>3, Replaced
    <1>6. Controls' = Controls
      BY DEF Controls
    <1>7. PanelIsNamed'
      BY <1>2, <1>3, <1>4, <1>5, <1>6 DEF PanelIsNamed, InStep
    <1>8. SearchIsSent'
      BY <1>2, <1>5 DEF SearchIsSent
    <1>. QED  BY <1>2, <1>4, <1>5, <1>7, <1>8 DEF InStep

LEMMA TypeInStep ==
    ASSUME AddressInv, NEW s, Type(s)
    PROVE  ~asked'.crossed => InStep'
    <1>1. box'.lastSent = box.lastSent
      BY AddressParts DEF Type, Boxes
    <1>2. /\ asked' = asked /\ bar' = bar /\ behind' = behind /\ panelOpen' = panelOpen
          /\ page' = page
      BY DEF Type
    <1>. QED  BY <1>1, <1>2 DEF AddressInv, InStep, PanelIsNamed, SearchIsSent, Controls

\* What a change of the bar leaves of the panel's link and of the search.
LEMMA ChangesMade ==
    ASSUME NEW u \in Query
    PROVE  /\ \A s \in Searches \cup {Blank} :
                /\ WithSearch(s, u).content = u.content
                /\ WithSearch(s, u).q = Sought(s)
           /\ \A s : WithStatus(s, u).content = u.content /\ WithStatus(s, u).q = u.q
           /\ \A t : AfterTabChange(t, u).content = FALSE /\ AfterTabChange(t, u).q = u.q
           /\ Flipped(u).content = u.content /\ Flipped(u).q = u.q
           /\ Unfiltered(u).content = FALSE /\ Unfiltered(u).q = ""
           /\ WithLink(u).content = TRUE /\ WithLink(u).q = u.q
           /\ WithoutLink(u).content = FALSE /\ WithoutLink(u).q = u.q
    BY DEF Query, WithSearch, Sought, WithStatus, AfterTabChange, Rebuilt, Flipped, SortedBy,
           Unfiltered, BareQuery, WithLink, WithoutLink

LEMMA PauseInStep ==
    ASSUME AddressInv, SearchPauses
    PROVE  ~asked'.crossed => InStep'
    <1>. DEFINE u == WithSearch(box.search, LatestQuery(bar))
                w == WithSearch(box.search, asked.wanted)
                c == u = bar.address /\ bar.going # <<>>
    <1>1. box.search \in Searches \cup {Blank} /\ box'.lastSent = box.search
      BY AddressParts DEF SearchPauses, Boxes
    <1>2. LatestQuery(bar) \in Query /\ asked.wanted \in Query
      BY AddressParts, TypedParts
    <1>3. u \in Query /\ w \in Query /\ "bar" \in OwnNames /\ c \in BOOLEAN
      BY <1>1, <1>2, QueriesMade DEF OwnNames
    <1>4. /\ bar' = ReplaceQuery(bar, u, "bar")
          /\ asked' = [wanted |-> w, crossed |-> asked.crossed \/ c]
          /\ UNCHANGED <<page, behind, panelOpen>>
      BY DEF SearchPauses, Wants
    <1>5. u.content = LatestQuery(bar).content /\ u.q = Sought(box.search)
      <2>1. \A s \in Searches \cup {Blank} :
              /\ WithSearch(s, LatestQuery(bar)).content = LatestQuery(bar).content
              /\ WithSearch(s, LatestQuery(bar)).q = Sought(s)
        BY <1>2, ChangesMade
      <2>. QED  BY <1>1, <2>1, Zenon
    <1>6. ~asked.crossed => w = u /\ (Controls.links => u.content = panelOpen)
      BY <1>5 DEF AddressInv, InStep, PanelIsNamed
    <1>7. u = bar.address /\ bar.going # <<>> => c
      OBVIOUS
    <1>. HIDE DEF u, w, c
    <1>. QED  BY <1>1, <1>3, <1>4, <1>5, <1>6, <1>7, SentInStep

LEMMA StatusInStep ==
    ASSUME AddressInv, NEW s \in {"all", "picked"}, PickStatus(s)
    PROVE  ~asked'.crossed => InStep'
    <1>. DEFINE u == WithStatus(s, LatestQuery(bar))
                w == WithStatus(s, asked.wanted)
                c == u = bar.address /\ bar.going # <<>>
    <1>2. LatestQuery(bar) \in Query /\ asked.wanted \in Query
      BY AddressParts, TypedParts
    <1>3. u \in Query /\ w \in Query /\ "bar" \in OwnNames /\ c \in BOOLEAN
      BY <1>2, QueriesMade DEF OwnNames
    <1>4. /\ bar' = ReplaceQuery(bar, u, "bar")
          /\ asked' = [wanted |-> w, crossed |-> asked.crossed \/ c]
          /\ UNCHANGED <<page, behind, panelOpen, box>>
      BY DEF PickStatus, Wants
    <1>5. u.content = LatestQuery(bar).content /\ u.q = LatestQuery(bar).q
      BY <1>2, ChangesMade
    <1>6. ~asked.crossed => /\ w = u /\ (Controls.links => u.content = panelOpen)
                            /\ bar.address.q = u.q => Sought(box.lastSent) = u.q
      BY <1>5 DEF AddressInv, InStep, PanelIsNamed, SearchIsSent
    <1>7. u = bar.address /\ bar.going # <<>> => c
      OBVIOUS
    <1>. HIDE DEF u, w, c
    <1>. QED  BY <1>3, <1>4, <1>6, <1>7, SentInStep

LEMMA TabInStep ==
    ASSUME AddressInv, NEW t \in {"all", "done"}, SelectTab(t)
    PROVE  ~asked'.crossed => InStep'
    <1>. DEFINE u == AfterTabChange(t, LatestQuery(bar))
                w == AfterTabChange(t, asked.wanted)
                c == u = bar.address /\ bar.going # <<>>
    <1>2. LatestQuery(bar) \in Query /\ asked.wanted \in Query
      BY AddressParts, TypedParts
    <1>3. u \in Query /\ w \in Query /\ "tab" \in OwnNames /\ c \in BOOLEAN
      BY <1>2, QueriesMade DEF OwnNames
    <1>4. /\ bar' = ReplaceQuery(bar, u, "tab")
          /\ asked' = [wanted |-> w, crossed |-> asked.crossed \/ c]
          /\ UNCHANGED <<page, behind, panelOpen, box>>
          /\ ~panelOpen
      BY DEF SelectTab, Wants
    <1>t. panelOpen \in BOOLEAN
      BY DEF AddressInv, AddressTypeOK
    <1>5. u.content = FALSE /\ u.q = LatestQuery(bar).q
      <2>1. ASSUME NEW v \in Query
            PROVE  /\ AfterTabChange(t, v).content = FALSE
                   /\ AfterTabChange(t, v).q = v.q
        BY ChangesMade
      <2>. QED  BY <1>2, <2>1
    <1>6. ~asked.crossed => /\ w = u /\ (Controls.links => u.content = panelOpen)
                            /\ bar.address.q = u.q => Sought(box.lastSent) = u.q
      BY <1>4, <1>5, <1>t DEF AddressInv, InStep, SearchIsSent
    <1>7. u = bar.address /\ bar.going # <<>> => c
      OBVIOUS
    <1>. HIDE DEF u, w, c
    <1>. QED  BY <1>3, <1>4, <1>6, <1>7, SentInStep

\* Here the sort header builds on what was last sent, or there is none.
LEMMA SortInStep ==
    ASSUME AddressInv, ToggleSort
    PROVE  ~asked'.crossed => InStep'
    <1>. DEFINE u == Flipped(LatestQuery(bar))
                w == Flipped(asked.wanted)
                c == u = bar.address /\ bar.going # <<>>
    <1>1. Controls.order = "sent"
      <2>1. page \in SentPages /\ Controls.order # "none"
        BY AddressParts DEF ToggleSort
      <2>2. PlanPage.order = "sent" /\ TasksPage.order = "sent" /\ RosterPage.order = "none"
        BY DEF PlanPage, TasksPage, RosterPage
      <2>. QED  BY <2>1, <2>2, ControlsOf DEF SentPages
    <1>2. LatestQuery(bar) \in Query /\ asked.wanted \in Query
      BY AddressParts, TypedParts
    <1>3. u \in Query /\ w \in Query /\ "sort" \in OwnNames /\ c \in BOOLEAN
      BY <1>2, QueriesMade DEF OwnNames
    <1>4. /\ bar' = ReplaceQuery(bar, u, "sort")
          /\ asked' = [wanted |-> w, crossed |-> asked.crossed \/ c]
          /\ UNCHANGED <<page, behind, panelOpen, box>>
      BY <1>1 DEF ToggleSort, Wants
    <1>5. u.content = LatestQuery(bar).content /\ u.q = LatestQuery(bar).q
      BY <1>2, ChangesMade
    <1>6. ~asked.crossed => /\ w = u /\ (Controls.links => u.content = panelOpen)
                            /\ bar.address.q = u.q => Sought(box.lastSent) = u.q
      BY <1>5 DEF AddressInv, InStep, PanelIsNamed, SearchIsSent
    <1>7. u = bar.address /\ bar.going # <<>> => c
      OBVIOUS
    <1>. HIDE DEF u, w, c
    <1>. QED  BY <1>3, <1>4, <1>6, <1>7, SentInStep

LEMMA SearchedFor ==
    ASSUME NEW q \in Searches
    PROVE  Sought(q) = q
    BY ListAddressAssumption DEF Searches, Sought

LEMMA ResetInStep ==
    ASSUME AddressInv, Reset
    PROVE  ~asked'.crossed => InStep'
    <1>. DEFINE u == Unfiltered(bar.address)
                c == u = bar.address /\ bar.going # <<>>
    <1>2. bar.address \in Query
      BY AddressParts
    <1>3. u \in Query /\ "bar" \in OwnNames /\ c \in BOOLEAN
      BY <1>2, QueriesMade DEF OwnNames
    <1>4. /\ bar' = ReplaceQuery(bar, u, "bar")
          /\ asked' = [wanted |-> u, crossed |-> asked.crossed \/ c]
          /\ UNCHANGED <<page, behind, panelOpen>>
          /\ ~panelOpen /\ box' = [search |-> "", lastSent |-> ""]
      BY DEF Reset, Wants
    <1>t. panelOpen \in BOOLEAN
      BY DEF AddressInv, AddressTypeOK
    <1>5. u.content = FALSE /\ u.q = ""
      BY <1>2, ChangesMade
    <1>6. Sought(box'.lastSent) = ""
      <2>1. box'.lastSent = "" /\ "" \in Searches
        BY <1>4 DEF Searches
      <2>. QED  BY <2>1, SearchedFor
    <1>7. (Controls.links => u.content = panelOpen) /\ Sought(box'.lastSent) = u.q
      BY <1>4, <1>5, <1>6, <1>t
    <1>8. u = bar.address /\ bar.going # <<>> => c
      OBVIOUS
    <1>. HIDE DEF u, c
    <1>. QED  BY <1>3, <1>4, <1>7, <1>8, SentInStep

\* The empty list's reset leaves the box alone: it acts at rest, on a search
\* the box has sent.
LEMMA ResetEmptyInStep ==
    ASSUME AddressInv, ResetEmpty
    PROVE  ~asked'.crossed => InStep'
    <1>. DEFINE u == Unfiltered(bar.address)
                c == bar.going # <<>>
    <1>2. bar.address \in Query
      BY AddressParts
    <1>3. u \in Query /\ "board" \in OwnNames /\ c \in BOOLEAN
      BY <1>2, QueriesMade DEF OwnNames
    <1>4. /\ bar' = ReplaceQuery(bar, u, "board")
          /\ asked' = [wanted |-> u, crossed |-> asked.crossed \/ c]
          /\ UNCHANGED <<page, behind, panelOpen, box>>
          /\ ~panelOpen
      BY DEF ResetEmpty
    <1>t. panelOpen \in BOOLEAN
      BY DEF AddressInv, AddressTypeOK
    <1>5. u.content = FALSE /\ u.q = ""
      BY <1>2, ChangesMade
    <1>6. ASSUME ~asked.crossed, ~c
          PROVE  /\ Controls.links => u.content = panelOpen
                 /\ bar.address.q = u.q => Sought(box'.lastSent) = u.q
      <2>1. InStep /\ bar.going = <<>> /\ BarHolds(bar)
        BY <1>6 DEF AddressInv, InStep
      <2>2. LatestQuery(bar) = bar.address
        BY <2>1, Level
      <2>3. Sought(box.lastSent) = bar.address.q
        BY <2>1, <2>2 DEF InStep, SearchIsSent
      <2>. QED  BY <1>4, <1>5, <1>t, <2>3
    <1>8. u = bar.address /\ bar.going # <<>> => c
      OBVIOUS
    <1>. HIDE DEF u, c
    <1>. QED  BY <1>3, <1>4, <1>6, <1>8, SentInStep

\* A change that goes straight into the address when nothing is ahead of it.
LEMMA QuietInStep ==
    ASSUME AddressInv, NEW u \in Query, NEW w \in Query, NEW c \in BOOLEAN,
           bar' = ReplaceQuietly(bar, u),
           asked' = [wanted |-> w, crossed |-> asked.crossed \/ c],
           u = bar.address /\ bar.going # <<>> => c,
           UNCHANGED <<page, behind, box>>,
           u.q = LatestQuery(bar).q,
           ~asked.crossed => w = u,
           Controls.links => u.content = panelOpen'
    PROVE  ~asked'.crossed => InStep'
    <1>1. SUFFICES ASSUME ~asked'.crossed
                   PROVE  InStep'
      OBVIOUS
    <1>2. ~asked.crossed /\ ~c /\ asked'.wanted = u
      BY <1>1
    <1>3. InStep /\ BarHolds(bar) /\ bar \in Bars /\ Len(bar.going) <= 2
      BY <1>2, AddressParts DEF AddressInv, InStep
    <1>4. bar.held # NoQuery => u # bar.address
      <2>1. bar.held # NoQuery => bar.going # <<>>
        BY <1>3, Level
      <2>. QED  BY <1>2, <2>1
    <1>5. /\ BarHolds(bar')
          /\ bar'.held = NoQuery => ~LinkUnderWay(bar')
          /\ LatestQuery(bar') = u
          /\ bar.held # NoQuery => bar'.address = bar.address
          /\ bar.held = NoQuery => bar'.address = u
      BY <1>3, <1>4, ReplacedQuietly
    <1>6. Controls' = Controls
      BY DEF Controls
    <1>7. PanelIsNamed'
      BY <1>3, <1>5, <1>6 DEF PanelIsNamed, InStep
    <1>8. SearchIsSent'
      <2>1. CASE bar.held # NoQuery
        BY <1>3, <1>5, <2>1 DEF SearchIsSent, InStep
      <2>2. CASE bar.held = NoQuery
        <3>1. LatestQuery(bar) = bar.address
          BY <2>2 DEF LatestQuery
        <3>2. Sought(box.lastSent) = u.q
          BY <1>3, <3>1 DEF SearchIsSent, InStep
        <3>. QED  BY <1>5, <2>2, <3>2 DEF SearchIsSent
      <2>. QED  BY <2>1, <2>2
    <1>. QED  BY <1>2, <1>5, <1>7, <1>8 DEF InStep

\* Where the page has no links a panel leaves the address alone.
LEMMA PanelAside ==
    ASSUME AddressInv, ~Controls.links, UNCHANGED <<page, bar, behind, box, asked>>
    PROVE  ~asked'.crossed => InStep'
    BY DEF AddressInv, InStep, PanelIsNamed, SearchIsSent, Controls

LEMMA OpenInStep ==
    ASSUME AddressInv, OpenPanel
    PROVE  ~asked'.crossed => InStep'
    <1>. DEFINE u == WithLink(LatestQuery(bar))
                w == WithLink(asked.wanted)
                c == u = bar.address /\ bar.going # <<>>
    <1>1. LatestQuery(bar) \in Query /\ asked.wanted \in Query
      BY AddressParts, TypedParts
    <1>2. u \in Query /\ w \in Query /\ c \in BOOLEAN
      BY <1>1, QueriesMade
    <1>3. u.content = TRUE /\ u.q = LatestQuery(bar).q
      BY <1>1, ChangesMade
    <1>4. ~asked.crossed => w = u
      BY DEF AddressInv, InStep
    <1>5. CASE ~Controls.links
      BY <1>5, PanelAside DEF OpenPanel
    <1>6. CASE Controls.links /\ LatestQuery(bar).content
      <2>1. asked' = asked
        BY <1>6 DEF OpenPanel
      <2>2. ~asked.crossed => FALSE
        BY <1>6 DEF AddressInv, InStep, PanelIsNamed, OpenPanel
      <2>. QED  BY <2>1, <2>2
    <1>7. CASE Controls.links /\ ~LatestQuery(bar).content
      <2>1. /\ bar' = ReplaceQuietly(bar, u)
            /\ asked' = [wanted |-> w, crossed |-> asked.crossed \/ c]
            /\ UNCHANGED <<page, behind, box>>
            /\ panelOpen' = TRUE
        BY <1>7 DEF OpenPanel, Wants
      <2>2. u = bar.address /\ bar.going # <<>> => c
        OBVIOUS
      <2>. HIDE DEF u, w, c
      <2>. QED  BY <1>2, <1>3, <1>4, <2>1, <2>2, QuietInStep
    <1>. QED  BY <1>5, <1>6, <1>7

LEMMA CloseInStep ==
    ASSUME AddressInv, ClosePanel
    PROVE  ~asked'.crossed => InStep'
    <1>. DEFINE u == WithoutLink(LatestQuery(bar))
                w == WithoutLink(asked.wanted)
                c == u = bar.address /\ bar.going # <<>>
    <1>1. LatestQuery(bar) \in Query /\ asked.wanted \in Query
      BY AddressParts, TypedParts
    <1>2. u \in Query /\ w \in Query /\ c \in BOOLEAN
      BY <1>1, QueriesMade
    <1>3. u.content = FALSE /\ u.q = LatestQuery(bar).q
      BY <1>1, ChangesMade
    <1>4. ~asked.crossed => w = u
      BY DEF AddressInv, InStep
    <1>5. CASE ~Controls.links
      BY <1>5, PanelAside DEF ClosePanel
    <1>7. CASE Controls.links
      <2>1. /\ bar' = ReplaceQuietly(bar, u)
            /\ asked' = [wanted |-> w, crossed |-> asked.crossed \/ c]
            /\ UNCHANGED <<page, behind, box>>
            /\ panelOpen' = FALSE
        BY <1>7 DEF ClosePanel, Wants
      <2>2. u = bar.address /\ bar.going # <<>> => c
        OBVIOUS
      <2>. HIDE DEF u, w, c
      <2>. QED  BY <1>2, <1>3, <1>4, <2>1, <2>2, QuietInStep
    <1>. QED  BY <1>5, <1>7

\* A link is one more navigation, and the only one unless something is crossed.
LEMMA FollowInStep ==
    ASSUME AddressInv, NEW u \in LinkTargets, FollowLink(u)
    PROVE  ~asked'.crossed => InStep'
    <1>1. SUFFICES ASSUME ~asked'.crossed
                   PROVE  InStep'
      OBVIOUS
    <1>. DEFINE n == Navigation(u, "link")
    <1>2. ~asked.crossed /\ bar.going = <<>> /\ asked'.wanted = asked.wanted
      BY <1>1, AddressParts DEF FollowLink, QueryAsked
    <1>3. InStep /\ BarHolds(bar) /\ bar \in Bars
      BY <1>2, AddressParts DEF AddressInv, InStep
    <1>4. bar.held = NoQuery /\ bar.onTheirWay = <<>> /\ LatestQuery(bar) = bar.address
      BY <1>2, <1>3, Level
    <1>5. u \in Query /\ ~u.content
      BY LinksLead, AddressParts
    <1>6. n \in Navigations /\ ~Own(n) /\ n.query = u
      BY <1>5, NavigationMade
    <1>7. UnderWay(bar.going, n) = <<n>>
      BY <1>2 DEF UnderWay
    <1>8. bar' = [bar EXCEPT !.going = UnderWay(bar.going, n)]
      BY DEF FollowLink
    <1>9. bar' = [bar EXCEPT !.going = <<n>>]
      BY <1>7, <1>8
    <1>. HIDE DEF n
    <1>10. <<n>> \in Seq(Navigations) /\ Len(<<n>>) = 1
      BY <1>6
    <1>11. <<n>> \in Seq([query : Query, by : {"bar", "tab", "sort", "panel", "board", "link"}])
      BY <1>10 DEF Navigations, OwnNames
    <1>12. /\ bar' \in Bars /\ bar'.going = <<n>> /\ bar'.address = bar.address
           /\ bar'.held = bar.held /\ bar'.onTheirWay = bar.onTheirWay
      BY <1>3, <1>9, <1>11 DEF Bars
    <1>13. BarHolds(bar')
      BY <1>4, <1>5, <1>6, <1>10, <1>12 DEF BarHolds, HeldIsLast, LevelIsQuiet, LinksAreBare
    <1>14. LatestQuery(bar') = LatestQuery(bar)
      BY <1>12 DEF LatestQuery
    <1>15. UNCHANGED <<page, behind, box, panelOpen>> /\ ~panelOpen
      BY DEF FollowLink
    <1>16. PanelIsNamed'
      BY <1>3, <1>14, <1>15 DEF InStep, PanelIsNamed, Controls
    <1>17. SearchIsSent'
      BY <1>3, <1>12, <1>14, <1>15 DEF InStep, SearchIsSent
    <1>. QED  BY <1>2, <1>3, <1>13, <1>14, <1>16, <1>17 DEF InStep

\* The box follows the address, and stays where the two say the same.
LEMMA BoxFollowsSearch ==
    ASSUME NEW old \in Query, NEW new \in Query, box \in Boxes, BoxFollows(old, new),
           new.q = old.q => Sought(box.lastSent) = new.q
    PROVE  Sought(box'.lastSent) = new.q
    <1>1. new.q \in Searches
      BY DEF Query
    <1>2. Sought(new.q) = new.q
      BY <1>1, SearchedFor
    <1>3. CASE new.q # old.q /\ new.q # box.lastSent
      BY <1>2, <1>3 DEF BoxFollows
    <1>4. CASE new.q = old.q \/ new.q = box.lastSent
      <2>1. box' = box
        BY <1>4 DEF BoxFollows
      <2>. QED  BY <1>2, <1>4, <2>1
    <1>. QED  BY <1>3, <1>4

LEMMA LandInStep ==
    ASSUME AddressInv, NEW i \in 1..Len(bar.going), Land(i)
    PROVE  ~asked'.crossed => InStep'
    <1>. DEFINE n == bar.going[i]
                A == bar.address
    <1>1. SUFFICES ASSUME ~asked'.crossed
                   PROVE  InStep'
      OBVIOUS
    <1>2. PICK left \in Bars :
             /\ left = [bar EXCEPT !.going = SubSeq(@, i + 1, Len(@))]
             /\ left.address = bar.address /\ left.held = bar.held
             /\ left.onTheirWay = bar.onTheirWay
             /\ left.going = SubSeq(bar.going, i + 1, Len(bar.going))
             /\ Len(left.going) <= 2
             /\ AddressMoves(left, bar.going[i].query)
             /\ bar.going[i] \in Navigations /\ bar.going[i].query \in Query
      BY AddressParts, LandParts, Zenon
    <1>. DEFINE r == Landed(left, n.query)
    <1>3. n.query \in Query /\ A \in Query
      BY <1>2, AddressParts
    <1>4. /\ Own(n) => asked' = asked /\ behind' = behind
          /\ ~Own(n) => /\ behind' = behind \/ behind' = Append(behind, A)
                        /\ asked'.wanted = IF i = Len(bar.going) THEN LatestQuery(bar')
                                           ELSE asked.wanted
                        /\ asked'.crossed = (asked.crossed \/ i < Len(bar.going))
          /\ UNCHANGED <<page, panelOpen, presses>>
      <2>1. asked' = IF Own(n) THEN asked
                     ELSE [wanted |-> IF i = Len(bar.going) THEN LatestQuery(bar')
                                      ELSE asked.wanted,
                           crossed |-> asked.crossed \/ i < Len(bar.going)]
        BY DEF Land
      <2>2. Own(n) => behind' = behind
        BY DEF Land
      <2>3. ~Own(n) => behind' = behind \/ behind' = Append(behind, A)
        BY DEF Land
      <2>4. UNCHANGED <<page, panelOpen, presses>>
        BY DEF Land
      <2>. QED  BY <2>1, <2>2, <2>3, <2>4
    <1>5. ~asked.crossed /\ (Own(n) \/ i = Len(bar.going))
      <2>1. Len(bar.going) \in Nat
        BY AddressParts, BarParts, LenProperties
      <2>2. ~asked.crossed
        BY <1>1, <1>4
      <2>3. ~Own(n) => ~(i < Len(bar.going))
        BY <1>1, <1>4
      <2>4. ~(i < Len(bar.going)) => i = Len(bar.going)
        <3>. DEFINE N == Len(bar.going)
        <3>1. N \in Nat /\ i \in 1..N
          BY <2>1
        <3>. HIDE DEF N
        <3>2. ~(i < N) => i = N
          BY <3>1
        <3>. QED  BY <3>2 DEF N
      <2>. QED  BY <2>2, <2>3, <2>4
    <1>6. InStep /\ BarHolds(bar) /\ LatestQuery(bar) = asked.wanted /\ PanelIsNamed /\ SearchIsSent
      BY <1>5 DEF AddressInv, InStep
    <1>7. /\ BarHolds(r) /\ ~LinkUnderWay(r)
          /\ Own(n) => LatestQuery(r) = LatestQuery(bar)
          /\ ~Own(n) => LatestQuery(r) = n.query /\ bar.held = NoQuery /\ Len(bar.going) = 1
      BY <1>2, <1>5, <1>6, LandHolds
    <1>8. r.address = n.query
      BY <1>2, <1>3, LandedTyped
    <1>9. /\ bar' = Relinked(r, A)
          /\ BoxFollows(A, n.query)
      BY <1>2 DEF AddressMoves
    <1>10. ~Own(n) => ~n.query.content /\ LinkUnderWay(bar)
      BY <1>6 DEF BarHolds, LinksAreBare, LinkUnderWay
    <1>. HIDE DEF r, n, A
    <1>11. Controls.links => LatestQuery(r).content = panelOpen
      <2>. SUFFICES ASSUME Controls.links
                    PROVE  LatestQuery(r).content = panelOpen
        OBVIOUS
      <2>1. CASE Own(n)
        BY <1>6, <1>7, <2>1 DEF PanelIsNamed
      <2>2. CASE ~Own(n)
        <3>1. ~panelOpen
          BY <1>6, <1>7, <1>10, <2>2 DEF PanelIsNamed
        <3>2. LatestQuery(r).content \in BOOLEAN /\ panelOpen \in BOOLEAN
          BY <1>3, <1>7, <2>2 DEF AddressInv, AddressTypeOK, Query
        <3>. QED  BY <1>7, <1>10, <2>2, <3>1, <3>2
      <2>. QED  BY <2>1, <2>2
    <1>12. bar' = r
      <2>1. ~(Controls.links /\ panelOpen /\ ~LatestQuery(r).content)
        BY <1>11
      <2>. QED  BY <1>9, <2>1, RelinkedCases
    <1>13. LatestQuery(bar') = asked'.wanted
      BY <1>4, <1>5, <1>6, <1>7, <1>12
    <1>14. PanelIsNamed'
      <2>. SUFFICES ASSUME Controls.links
                    PROVE  /\ LatestQuery(bar').content = panelOpen'
                           /\ \A k \in 1..Len(behind') : ~behind'[k].content
                           /\ ~LinkUnderWay(bar')
        BY <1>4 DEF PanelIsNamed, Controls
      <2>1. LatestQuery(bar').content = panelOpen'
        BY <1>4, <1>11, <1>12
      <2>2. ~LinkUnderWay(bar')
        BY <1>7, <1>12
      <2>3. \A k \in 1..Len(behind) : ~behind[k].content
        BY <1>6 DEF PanelIsNamed
      <2>4. \A k \in 1..Len(behind') : ~behind'[k].content
        <3>1. CASE behind' = behind
          BY <2>3, <3>1
        <3>2. CASE ~Own(n) /\ behind' = Append(behind, A)
          <4>1. ~A.content
            <5>1. LatestQuery(bar) = A
              BY <1>7, <3>2 DEF LatestQuery, A
            <5>2. ~panelOpen /\ LatestQuery(bar).content = panelOpen
              BY <1>6, <1>7, <1>10, <3>2 DEF PanelIsNamed
            <5>. QED  BY <5>1, <5>2
          <4>2. /\ Len(Append(behind, A)) = Len(behind) + 1 /\ Len(behind) \in Nat
                /\ \A k \in 1..Len(behind) : Append(behind, A)[k] = behind[k]
                /\ Append(behind, A)[Len(behind) + 1] = A
            BY <1>3, AddressParts, AppendProperties, LenProperties
          <4>3. ASSUME NEW k \in 1..Len(Append(behind, A))
                PROVE  k \in 1..Len(behind) \/ k = Len(behind) + 1
            <5>. DEFINE N == Len(behind)
            <5>1. k \in 1..(N + 1) /\ N \in Nat
              BY <4>2, <4>3
            <5>. HIDE DEF N
            <5>2. k \in 1..N \/ k = N + 1
              BY <5>1
            <5>. QED  BY <5>2 DEF N
          <4>. QED  BY <2>3, <3>2, <4>1, <4>2, <4>3
        <3>. QED  BY <1>4, <3>1, <3>2
      <2>. QED  BY <2>1, <2>2, <2>4
    <1>15. SearchIsSent'
      <2>1. ASSUME n.query.q = LatestQuery(bar').q
            PROVE  Sought(box'.lastSent) = n.query.q
        <3>1. n.query.q = A.q => Sought(box.lastSent) = n.query.q
          <4>1. CASE Own(n)
            <5>1. LatestQuery(bar') = LatestQuery(bar)
              BY <1>7, <1>12, <4>1
            <5>. QED  BY <1>6, <2>1, <5>1 DEF SearchIsSent, A
          <4>2. CASE ~Own(n)
            <5>1. LatestQuery(bar) = A
              BY <1>7, <4>2 DEF LatestQuery, A
            <5>. QED  BY <1>6, <5>1 DEF SearchIsSent, A
          <4>. QED  BY <4>1, <4>2
        <3>. QED  BY <1>3, <1>9, <3>1, AddressParts, BoxFollowsSearch
      <2>. QED  BY <1>8, <1>12, <2>1 DEF SearchIsSent
    <1>. QED  BY <1>7, <1>12, <1>13, <1>14, <1>15 DEF InStep

\* Back acts at rest unless something is crossed, and takes the panel's link with it.
LEMMA BackInStep ==
    ASSUME AddressInv, GoBack
    PROVE  ~asked'.crossed => InStep'
    <1>. DEFINE A == bar.address
    <1>1. SUFFICES ASSUME ~asked'.crossed
                   PROVE  InStep'
      OBVIOUS
    <1>2. PICK left \in Bars, to \in Query :
             /\ left.address = bar.address /\ left.held = bar.held
             /\ left.onTheirWay = bar.onTheirWay /\ left.going = <<>>
             /\ to = behind[Len(behind)] /\ Len(behind) \in 1..Len(behind)
             /\ AddressMoves(left, to)
      BY AddressParts, BackParts, Zenon
    <1>3. /\ asked' = [wanted |-> LatestQuery(bar'),
                       crossed |-> asked.crossed \/ bar.going # <<>>]
          /\ behind' = SubSeq(behind, 1, Len(behind) - 1)
          /\ UNCHANGED <<page, panelOpen>>
      BY DEF GoBack
    <1>4. ~asked.crossed /\ bar.going = <<>> /\ asked'.wanted = LatestQuery(bar')
      BY <1>1, <1>3
    <1>5. BarHolds(bar) /\ PanelIsNamed /\ SearchIsSent
      BY <1>4 DEF AddressInv, InStep
    <1>6. bar.held = NoQuery /\ bar.onTheirWay = <<>> /\ LatestQuery(bar) = A
      BY <1>4, <1>5, Level
    <1>. DEFINE r == Landed(left, to)
    <1>7. /\ r \in Bars /\ r.address = to /\ r.held = NoQuery /\ r.going = <<>>
          /\ r.onTheirWay = <<>>
      <2>1. /\ r \in Bars /\ r.address = to /\ r.held = NoQuery /\ r.going = <<>>
        BY <1>2, <1>6, LandedTyped
      <2>2. r.onTheirWay = <<>>
        BY <1>2, <1>6, LandedCases
      <2>. QED  BY <2>1, <2>2
    <1>8. /\ bar' = Relinked(r, A) /\ BoxFollows(A, to) /\ A \in Query
      BY <1>2, AddressParts DEF AddressMoves
    <1>. HIDE DEF r, A
    <1>9. Len(<<>>) = 0
      BY EmptySeq
    <1>10. BarHolds(r) /\ ~LinkUnderWay(r) /\ LatestQuery(r) = to /\ Len(r.going) <= 2
      BY <1>7, <1>9 DEF BarHolds, HeldIsLast, LevelIsQuiet, LinksAreBare, LinkUnderWay, LatestQuery
    <1>11. Controls.links => ~to.content
      BY <1>2, <1>5 DEF PanelIsNamed
    <1>12. /\ BarHolds(bar') /\ ~LinkUnderWay(bar')
           /\ bar'.address = LatestQuery(bar') /\ LatestQuery(bar').q = to.q
           /\ Controls.links => LatestQuery(bar').content = panelOpen
      <2>t. panelOpen \in BOOLEAN /\ to.content \in BOOLEAN
        BY DEF AddressInv, AddressTypeOK, Query
      <2>1. CASE Controls.links /\ panelOpen
        <3>1. A.content = TRUE
          BY <1>5, <1>6, <2>1, <2>t DEF PanelIsNamed
        <3>2. r.address.content # A.content /\ ~LatestQuery(r).content
          BY <1>7, <1>10, <1>11, <2>1, <3>1
        <3>3. bar' = ReplaceQuietly(r, WithLink(to))
          BY <1>8, <1>10, <2>1, <3>2 DEF Relinked
        <3>4. WithLink(to) \in Query /\ WithLink(to).content = TRUE /\ WithLink(to).q = to.q
          BY QueriesMade, ChangesMade
        <3>5. /\ BarHolds(bar') /\ LatestQuery(bar') = WithLink(to)
              /\ bar'.address = WithLink(to) /\ bar'.going = <<>>
          BY <1>7, <1>10, <3>3, <3>4, ReplacedQuietly
        <3>6. ~LinkUnderWay(bar')
          BY <1>9, <3>5 DEF LinkUnderWay
        <3>. QED  BY <2>1, <2>t, <3>4, <3>5, <3>6
      <2>2. CASE ~(Controls.links /\ panelOpen)
        <3>1. bar' = r
          BY <1>8, <2>2 DEF Relinked
        <3>. QED  BY <1>7, <1>10, <1>11, <2>2, <2>t, <3>1
      <2>. QED  BY <2>1, <2>2
    <1>13. \A k \in 1..Len(behind') : Controls.links => ~behind'[k].content
      <2>. DEFINE N == Len(behind)
      <2>1. behind \in Seq(Query) /\ N \in 1..N /\ N \in Nat
        BY <1>2, AddressParts, LenProperties
      <2>2. \A k \in 1 .. N - 1 : behind[k] \in Query
        <3>1. \A k \in 1..N : behind[k] \in Query
          BY <2>1, ElementOfSeq
        <3>2. \A k \in 1 .. N - 1 : k \in 1..N
          <4>. HIDE DEF N
          <4>. QED  BY <2>1
        <3>. QED  BY <3>1, <3>2
      <2>3. N - 1 \in Int /\ 1 \in Int
        BY <2>1
      <2>4. /\ Len(SubSeq(behind, 1, N - 1)) = (IF 1 <= N - 1 THEN N - 1 - 1 + 1 ELSE 0)
            /\ \A k \in 1 .. N - 1 - 1 + 1 : SubSeq(behind, 1, N - 1)[k] = behind[1 + k - 1]
        BY <2>2, <2>3, SubSeqProperties
      <2>. DEFINE t == SubSeq(behind, 1, N - 1)
      <2>. HIDE DEF t
      <2>5. behind' = t
        BY <1>3 DEF t
      <2>6. ASSUME NEW k \in 1..Len(t)
            PROVE  k \in 1..N /\ t[k] = behind[k]
        <3>1. N \in Nat /\ 1 <= N /\ Len(t) = IF 1 <= N - 1 THEN N - 1 - 1 + 1 ELSE 0
          BY <2>1, <2>4 DEF t
        <3>2. k \in 1 .. N - 1 - 1 + 1 /\ k \in 1..N /\ 1 + k - 1 = k
          <4>. HIDE DEF N
          <4>. QED  BY <3>1
        <3>3. t[k] = behind[1 + k - 1]
          BY <2>4, <3>2 DEF t
        <3>. QED  BY <3>2, <3>3
      <2>. QED  BY <1>5, <2>5, <2>6 DEF PanelIsNamed
    <1>14. PanelIsNamed'
      BY <1>3, <1>12, <1>13 DEF PanelIsNamed, Controls
    <1>15. SearchIsSent'
      <2>1. Sought(box.lastSent) = A.q
        BY <1>5, <1>6 DEF SearchIsSent, A
      <2>2. Sought(box'.lastSent) = to.q
        BY <1>8, <2>1, AddressParts, BoxFollowsSearch
      <2>. QED  BY <1>12, <2>2 DEF SearchIsSent
    <1>. QED  BY <1>4, <1>12, <1>14, <1>15 DEF InStep

LEMMA AddressStarts ==
    ASSUME AddressInit, page \in SentPages
    PROVE  AddressInv
    <1>1. PICK u \in Query :
              /\ bar = [address |-> u, held |-> NoQuery, onTheirWay |-> <<>>, going |-> <<>>]
              /\ box = [search |-> u.q, lastSent |-> u.q]
              /\ panelOpen = u.content
              /\ asked = [wanted |-> u, crossed |-> FALSE]
              /\ u.content => Controls.links
      BY AddressOpens, Zenon
    <1>2. AddressTypeOK /\ bar \in Bars
      BY AddressStartsTyped, TypedParts
    <1>3. bar.address = u /\ bar.held = NoQuery /\ bar.onTheirWay = <<>> /\ bar.going = <<>>
      BY <1>1
    <1>4. Len(<<>>) = 0
      BY EmptySeq
    <1>5. LatestQuery(bar) = u
      BY <1>3 DEF LatestQuery
    <1>6. BarHolds(bar)
      BY <1>2, <1>3, <1>4 DEF BarHolds, HeldIsLast, LevelIsQuiet, LinksAreBare
    <1>7. behind = <<>>
      BY DEF AddressInit
    <1>8. PanelIsNamed
      BY <1>1, <1>3, <1>4, <1>5, <1>7 DEF PanelIsNamed, LinkUnderWay
    <1>9. SearchIsSent
      <2>1. u.q \in Searches
        BY DEF Query
      <2>. QED  BY <1>1, <1>3, <2>1, SearchedFor DEF SearchIsSent
    <1>. QED  BY <1>1, <1>2, <1>5, <1>6, <1>8, <1>9 DEF AddressInv, InStep

LEMMA AddressGoesOn ==
    ASSUME AddressInv, [AddressNext]_addressVars
    PROVE  AddressInv'
    <1>1. AddressTypeOK'
      BY AddressStaysTyped DEF AddressInv
    <1>2. page' = page
      BY DEF AddressNext, Acts, Type, PickStatus, SelectTab, ToggleSort, Reset, ResetEmpty, OpenPanel,
             ClosePanel, FollowLink, GoBack, SearchPauses, Land, addressVars
    <1>3. ~asked'.crossed => InStep'
      <2>1. CASE Acts
        BY <2>1, TypeInStep, StatusInStep, TabInStep, SortInStep, ResetInStep, ResetEmptyInStep,
           OpenInStep, CloseInStep, FollowInStep, BackInStep DEF Acts
      <2>2. CASE UNCHANGED addressVars
        BY <2>2 DEF addressVars, AddressInv, InStep, PanelIsNamed, SearchIsSent, Controls
      <2>. QED  BY <2>1, <2>2, PauseInStep, LandInStep DEF AddressNext
    <1>. QED  BY <1>1, <1>2, <1>3 DEF AddressInv

\* On Content Plan, Task Saya and the roster of creators, whatever order presses,
\* pauses, links and landings come in, what was last sent, the address, the box
\* and the panel stay in step (url-query.ts, use-url-filters.ts).
THEOREM AddressInvariant == AddressSpec /\ page \in SentPages => []AddressInv
    <1>1. AddressInit /\ page \in SentPages => AddressInv
      BY AddressStarts
    <1>2. AddressInv /\ [AddressNext]_addressVars => AddressInv'
      BY AddressGoesOn
    <1>. QED  BY <1>1, <1>2, PTL DEF AddressSpec

\* On those pages, for any searches and any number of presses, each change
\* builds on the one before: none is lost, whatever lands when
\* (url-query.ts, replaceQuery and useUrlQuery).
THEOREM ChangesAdd == AddressSpec /\ page \in SentPages => []ChangesAddUp
    <1>1. AddressInv => ChangesAddUp
      BY DEF AddressInv, InStep, ChangesAddUp
    <1>. QED  BY <1>1, AddressInvariant, PTL

\* And once nothing is under way, the controls hold nothing the address does
\* not show, the list is searched for what the box says, and the open panel's
\* content, and no other, is in the address (url-query.ts, use-url-filters.ts,
\* my-task-board.tsx).
THEOREM ControlsAgreeAtRest == AddressSpec /\ page \in SentPages => []ControlsAgree
    <1>1. ASSUME AddressInv
          PROVE  ControlsAgree
      <2>1. ASSUME AtRest, ~asked.crossed
            PROVE  /\ bar.held = NoQuery /\ bar.onTheirWay = <<>>
                   /\ bar.address = LatestQuery(bar) /\ InStep
        BY <1>1, <2>1, Level DEF AddressInv, InStep, AtRest
      <2>2. AgreesAtRest
        BY <2>1 DEF AgreesAtRest, InStep
      <2>3. BoxShowsTheSearch
        BY <2>1 DEF BoxShowsTheSearch, InStep, SearchIsSent, Sought
      <2>4. LinkNamesThePanel
        BY <2>1 DEF LinkNamesThePanel, InStep, PanelIsNamed
      <2>. QED  BY <1>1, <2>2, <2>3, <2>4 DEF ControlsAgree, AddressInv
    <1>. QED  BY <1>1, AddressInvariant, PTL
=================================================================================
