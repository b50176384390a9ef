--------------------------- MODULE ContentScreens ---------------------------
(***************************************************************************)
(* What admins and a creator see of contents, and what they send from it.  *)
(*                                                                         *)
(* A screen holds at most one detail panel.  The panel reads the content   *)
(* over the network, shows the answer until it is read again, and offers   *)
(* the commands of that answer while the stored row moves on.  An admin's  *)
(* panel sends decisions; it may be closed, and another one opened, while  *)
(* a decision is under way.  The creator's panel and the rows of the task  *)
(* list open a submit form, which stays until its request is answered.     *)
(*                                                                         *)
(* The server takes a request in one step: how requests race inside it is  *)
(* the matter of ContentReview.                                            *)
(***************************************************************************)
EXTENDS ContentLifecycle, FiniteSets

CONSTANTS
    Contents,       \* ids of content rows, all with the same deadline
    Nowhere,        \* what a closed panel shows
    Admins, Creator,
    Slots,          \* bound: requests a screen may have under way
    Deadline, LastDay,
    MaxDrafts       \* bound: drafts a content may have

ASSUME ContentScreensAssumption ==
    /\ Nowhere \notin Contents
    /\ Creator \notin Admins
    /\ Deadline \in Nat /\ LastDay \in Nat /\ MaxDrafts \in Nat

VARIABLES
    rows,       \* the stored contents
    today,
    panel,      \* the detail panel of each screen
    sent,       \* the requests each screen has under way
    modal       \* the creator's submit form

vars == <<rows, today, panel, sent, modal>>

Screens == Admins \cup {Creator}

Role(s) == IF s = Creator THEN "creator" ELSE "admin"

-----------------------------------------------------------------------------
(* The server.  moves counts what was committed on a row, so two readings  *)
(* of it can be told apart and ordered.                                    *)

\* A draft sent back still counts as the admin's.
WAITING_ON_KeptByAdmin ==
    [s \in CONTENT_STATUSES |->
        CASE s \in {"pending", "draft_review", "draft_revision"} -> "admin"
          [] s = "link_submitted" -> "nobody"
          [] OTHER                -> "creator"]

WAITING_ON ==
    [s \in CONTENT_STATUSES |->
        CASE s \in {"pending", "draft_review"} -> "admin"
          [] s = "link_submitted"              -> "nobody"
          [] OTHER                             -> "creator"]

TaskActions(status, day) ==
    {a \in {"submit_draft", "resubmit_draft", "submit_video"} :
        IF a = "submit_video"
        THEN CanSubmitVideo(status, Deadline, day)
        ELSE CanSubmitDraft(status) /\ (a = "submit_draft") = (status = "scheduled")}

\* latestSubmissionId is the number of the last draft, or 0; the events come to
\* the note of the last revision request, named by the draft it sent back.
ToContentDetail(row, day) ==
    [status |-> row.status, drafts |-> row.drafts, moves |-> row.moves,
     actions |-> TaskActions(row.status, day)]

\* was: every answer the row has ever been good for, which is what a list drawn
\* at some earlier moment shows.
Shown(row, day) ==
    IF row.status = "removed" THEN [row EXCEPT !.was = {}]
    ELSE [row EXCEPT !.was = row.was \cup {ToContentDetail(row, day)}]

Moved(row, status) ==
    Shown([row EXCEPT !.status = status, !.moves = row.moves + 1], today)

\* The rows as any request finds them: due proposals are scheduled before it.
Swept ==
    [c \in Contents |->
        IF rows[c].status = "pending" /\ Deadline <= SchedulingCutoff(today)
        THEN Moved(rows[c], "scheduled")
        ELSE rows[c]]

NoDetail == [status |-> "removed", drafts |-> 0, moves |-> 0, actions |-> {}]

RevisionNotes(detail) ==
    IF detail.status = "draft_revision" THEN detail.drafts ELSE 0

\* Whether the server takes request q on a row, and what the row becomes.
Accepts(q, row) ==
    CASE q.kind \in {"approve", "revise"} ->
            row.status \in REVIEWABLE_STATUSES /\ q.draft = row.drafts
      [] q.kind \in {"approve_proposal", "reject_proposal"} ->
            row.status = "pending"
      [] q.kind = "submit_video" ->
            row.status # "removed" /\ CanSubmitVideo(row.status, Deadline, today)
      [] OTHER ->
            row.status \in COMMITTED_STATUSES /\ CanSubmitDraft(row.status)

Outcome ==
    [approve |-> "draft_approved", revise |-> "draft_revision",
     approve_proposal |-> "scheduled", reject_proposal |-> "removed",
     submit_draft |-> "draft_review", resubmit_draft |-> "draft_review",
     submit_video |-> "link_submitted"]

Applied(q, row) ==
    IF q.kind \in {"submit_draft", "resubmit_draft"}
    THEN Moved([row EXCEPT !.drafts = row.drafts + 1], Outcome[q.kind])
    ELSE Moved(row, Outcome[q.kind])

-----------------------------------------------------------------------------
(* What a panel offers.                                                    *)

ActionsFor(role, detail) ==
    IF WAITING_ON[detail.status] = "nobody" THEN {}
    ELSE IF role = "creator" THEN detail.actions
    ELSE IF detail.status = "pending" THEN {"reject_proposal", "approve_proposal"}
    ELSE IF WAITING_ON[detail.status] = "admin" /\ detail.drafts > 0
         THEN {"revise", "approve"}
    ELSE {}

OPENS_FORM == {"revise", "reject_proposal"}

\* reading: the reads under way that somebody waits for.  about: the draft on
\* screen when the note form was opened, 0 while the panel was being read again.
\* since: how far the row had moved by then.  owed: how far it had moved when a
\* decision was last refused, until a re-read has failed.
Closed ==
    [content |-> Nowhere, kind |-> "closed", shown |-> NoDetail, reading |-> {},
     form |-> "none", about |-> 0, since |-> 0,
     busy |-> "none", owed |-> 0]

Asked == [phase |-> "asked", detail |-> NoDetail]

Loading(c) == [Closed EXCEPT !.content = c, !.kind = "loading", !.reading = {Asked}]

Commands(s) ==
    IF panel[s].kind = "loaded" /\ panel[s].form = "none" /\ panel[s].busy = "none"
    THEN ActionsFor(Role(s), panel[s].shown)
    ELSE {}

IdleSlot ==
    [kind |-> "none", content |-> Nowhere, draft |-> 0, about |-> 0, seen |-> 0,
     mine |-> FALSE, phase |-> "idle", at |-> 0]

NoModal == [content |-> Nowhere, action |-> "none", seen |-> 0, note |-> 0, asked |-> 0]

\* Requests of a panel that is gone are nobody's.
Orphaned(slots) == [k \in Slots |-> [slots[k] EXCEPT !.mine = FALSE]]

Sending(s) == \E k \in Slots : sent[s][k].mine

-----------------------------------------------------------------------------
(* Opening, reading and closing a panel.                                   *)

Open(s, c) ==
    /\ panel[s].kind = "closed"
    /\ s = Creator => modal = NoModal
    /\ panel' = [panel EXCEPT ![s] = Loading(c)]
    /\ UNCHANGED <<rows, today, sent, modal>>

\* The panel may be closed at any time, also with a decision under way.
Close(s) ==
    /\ panel[s].kind # "closed"
    /\ panel' = [panel EXCEPT ![s] = Closed]
    /\ sent' = [sent EXCEPT ![s] = Orphaned(sent[s])]
    /\ UNCHANGED <<rows, today, modal>>

Retry(s) ==
    /\ panel[s].kind = "failed"
    /\ panel' = [panel EXCEPT ![s] = Loading(panel[s].content)]
    /\ UNCHANGED <<rows, today, sent, modal>>

GetDetail(s) ==
    /\ Asked \in panel[s].reading
    /\ rows' = Swept
    /\ LET row == Swept[panel[s].content]
           answer == IF row.status = "removed"
                     THEN [phase |-> "gone", detail |-> NoDetail]
                     ELSE [phase |-> "answered", detail |-> ToContentDetail(row, today)]
       IN panel' = [panel EXCEPT ![s].reading = (@ \ {Asked}) \cup {answer}]
    /\ UNCHANGED <<today, sent, modal>>

DetailLands(s) ==
    \E r \in panel[s].reading :
        /\ r.phase = "answered"
        /\ panel' = [panel EXCEPT ![s].kind = "loaded", ![s].shown = r.detail,
                                  ![s].reading = @ \ {r}]
        /\ UNCHANGED <<rows, today, sent, modal>>

\* A read that fails: the panel's own says so, a re-read keeps what is shown.
DetailFails(s) ==
    \E r \in panel[s].reading :
        /\ panel' = [panel EXCEPT
              ![s].reading = @ \ {r},
              ![s].owed = 0,
              ![s].kind = IF @ = "loaded" THEN @
                          ELSE IF r.phase = "gone" THEN "not_found" ELSE "failed"]
        /\ UNCHANGED <<rows, today, sent, modal>>

\* A re-read that lets the ones before it go on, and listens to all of them.
ReadAgain_Beside(p) == [p EXCEPT !.reading = @ \cup {Asked}]

\* A re-read that is left out while an earlier one is under way.
ReadAgain_Once(p) == [p EXCEPT !.reading = IF @ = {} THEN {Asked} ELSE @]

\* The re-read before this one is aborted: its answer is not listened to.
ReadAgain(p) == [p EXCEPT !.reading = {Asked}]

-----------------------------------------------------------------------------
(* An admin's decisions.                                                   *)

OpenForm(a, command) ==
    /\ command \in OPENS_FORM \cap Commands(a)
    /\ panel' = [panel EXCEPT
          ![a].form = command,
          ![a].since = panel[a].shown.moves,
          ![a].about = IF panel[a].reading = {} THEN panel[a].shown.drafts ELSE 0]
    /\ UNCHANGED <<rows, today, sent, modal>>

FormClosed(p) == [p EXCEPT !.form = "none", !.about = 0, !.since = 0]

CancelForm(a) ==
    /\ panel[a].form # "none" /\ panel[a].busy = "none"
    /\ panel' = [panel EXCEPT ![a] = FormClosed(@)]
    /\ UNCHANGED <<rows, today, sent, modal>>

\* A free slot of screen s takes the request.
Send(s, kind, content, draft, about, seen) ==
    \E k \in Slots :
        /\ sent[s][k] = IdleSlot
        /\ sent' = [sent EXCEPT ![s][k] =
              [kind |-> kind, content |-> content, draft |-> draft, about |-> about,
               seen |-> seen, mine |-> TRUE, phase |-> "asked", at |-> 0]]

Decide(a, kind, about, seen) ==
    /\ panel' = [panel EXCEPT ![a].busy = kind]
    /\ Send(a, kind, panel[a].content, panel[a].shown.drafts, about, seen)
    /\ UNCHANGED <<rows, today, modal>>

PressDecision(a, command) ==
    /\ command \in Commands(a) \ OPENS_FORM
    /\ Decide(a, command, 0, panel[a].shown.moves)

\* A revision goes to the latest hand-in of what is shown at the press.
SubmitRevision(a) ==
    LET p == panel[a] IN
    /\ p.form = "revise" /\ p.busy = "none" /\ p.shown.drafts > 0
    /\ Decide(a, "revise", p.about, p.since)

SubmitRejection(a) ==
    LET p == panel[a] IN
    /\ p.form = "reject_proposal" /\ p.busy = "none"
    /\ Decide(a, "reject_proposal", 0, p.since)

-----------------------------------------------------------------------------
(* The creator's submit form.                                              *)

\* row is the task list's row for the content, however old the list is; it
\* gives the form its facts.  asked: the note on the screen the press was made.
OpenModal(c, action, row, screen) ==
    modal' = [content |-> c, action |-> action, seen |-> screen.moves,
              note |-> RevisionNotes(row), asked |-> RevisionNotes(screen)]

PressRow(c, action) ==
    /\ modal = NoModal /\ panel[Creator] = Closed
    /\ \E row \in rows[c].was :
         /\ action \in row.actions
         /\ OpenModal(c, action, row, row)
    /\ UNCHANGED <<rows, today, panel, sent>>

\* From the panel, which closes.  The list, where no proposal is, gives the row;
\* for a content it does not hold the panel's answer, in "was" as well, is used.
OpenSubmitFromPanel(action) ==
    LET p == panel[Creator] IN
    /\ action \in Commands(Creator)
    /\ \E row \in rows[p.content].was :
         row.status # "pending" /\ OpenModal(p.content, action, row, p.shown)
    /\ panel' = [panel EXCEPT ![Creator] = Closed]
    /\ UNCHANGED <<rows, today, sent>>

CloseModal ==
    /\ modal # NoModal /\ ~Sending(Creator)
    /\ modal' = NoModal
    /\ UNCHANGED <<rows, today, panel, sent>>

HandleSubmit ==
    /\ modal # NoModal /\ ~Sending(Creator)
    /\ modal.action = "submit_video" \/ rows[modal.content].drafts < MaxDrafts
    /\ Send(Creator, modal.action, modal.content, 0, 0, modal.seen)
    /\ UNCHANGED <<rows, today, panel, modal>>

-----------------------------------------------------------------------------
(* Requests and their answers.                                             *)

\* Phase "deaf": the sender has given up and the request is still on its way.
RequestArrives(s, k) ==
    LET q   == sent[s][k]
        row == Swept[q.content]
        ok  == Accepts(q, row)
        answered == [q EXCEPT !.at = row.moves,
                       !.phase = IF ok THEN "ok"
                                 ELSE IF row.status = "removed" THEN "missing"
                                 ELSE "conflict"]
    IN
    /\ q.phase \in {"asked", "deaf"}
    /\ rows' = IF ok THEN [Swept EXCEPT ![q.content] = Applied(q, row)] ELSE Swept
    /\ sent' = [sent EXCEPT ![s][k] = IF q.phase = "deaf" THEN IdleSlot ELSE answered]
    /\ UNCHANGED <<today, panel, modal>>

\* onDecided closes whatever panel the board has open by now.
DecisionConfirmed(a, k) ==
    /\ sent[a][k].phase = "ok"
    /\ sent' = [sent EXCEPT ![a] = Orphaned([@ EXCEPT ![k] = IdleSlot])]
    /\ panel' = [panel EXCEPT ![a] = Closed]
    /\ UNCHANGED <<rows, today, modal>>

\* The form and its note are left for another try.
DecisionRefused_KeepsForm(a, k) ==
    LET q == sent[a][k] IN
    /\ q.phase = "conflict"
    /\ sent' = [sent EXCEPT ![a][k] = IdleSlot]
    /\ panel' = IF q.mine
                THEN [panel EXCEPT ![a] =
                        [ReadAgain(@) EXCEPT !.busy = "none", !.owed = q.at]]
                ELSE panel
    /\ UNCHANGED <<rows, today, modal>>

\* A 409: the form closes and the content is read again.
DecisionRefused(a, k) ==
    LET q == sent[a][k] IN
    /\ q.phase = "conflict"
    /\ sent' = [sent EXCEPT ![a][k] = IdleSlot]
    /\ panel' = IF q.mine
                THEN [panel EXCEPT ![a] =
                        [ReadAgain(FormClosed(@)) EXCEPT
                            !.busy = "none", !.owed = q.at]]
                ELSE panel
    /\ UNCHANGED <<rows, today, modal>>

\* The request or its answer is lost, or the answer is an error.
Unanswered(s, k) ==
    /\ sent[s][k].phase \notin {"idle", "deaf"}
    /\ \/ sent' = [sent EXCEPT ![s][k] = IdleSlot]
       \/ /\ sent[s][k].phase = "asked"
          /\ sent' = [sent EXCEPT ![s][k].phase = "deaf", ![s][k].mine = FALSE]

\* Everything stays for another try.
DecisionFails(a, k) ==
    /\ Unanswered(a, k)
    /\ panel' = IF sent[a][k].mine
                THEN [panel EXCEPT ![a].busy = "none"]
                ELSE panel
    /\ UNCHANGED <<rows, today, modal>>

HandInConfirmed(k) ==
    /\ sent[Creator][k].phase = "ok"
    /\ sent' = [sent EXCEPT ![Creator][k] = IdleSlot]
    /\ modal' = NoModal
    /\ UNCHANGED <<rows, today, panel>>

\* Refused or failed, the form stays and may be sent again.
HandInFails(k) ==
    /\ Unanswered(Creator, k)
    /\ UNCHANGED <<rows, today, panel, modal>>

DayPasses ==
    /\ today < LastDay
    /\ today' = today + 1
    /\ rows' = [c \in Contents |-> Shown(rows[c], today + 1)]
    /\ UNCHANGED <<panel, sent, modal>>

-----------------------------------------------------------------------------

\* A content an admin added is to every screen a proposal approved already.
Init ==
    /\ today = 0
    /\ rows = [c \in Contents |->
                 Shown([status |-> "pending", drafts |-> 0, moves |-> 0, was |-> {}], 0)]
    /\ panel = [s \in Screens |-> Closed]
    /\ sent = [s \in Screens |-> [k \in Slots |-> IdleSlot]]
    /\ modal = NoModal

Reads(s) == GetDetail(s) \/ DetailLands(s) \/ DetailFails(s)

Answers(s, k) ==
    \/ RequestArrives(s, k)
    \/ s # Creator /\ (\/ DecisionConfirmed(s, k)
                       \/ DecisionRefused(s, k)
                       \/ DecisionFails(s, k))
    \/ s = Creator /\ (HandInConfirmed(k) \/ HandInFails(k))

Presses(s) ==
    \/ \E c \in Contents : Open(s, c)
    \/ Close(s)
    \/ Retry(s)

Decides(a) ==
    \/ \E command \in OPENS_FORM : OpenForm(a, command)
    \/ CancelForm(a)
    \/ \E command \in {"approve", "approve_proposal"} : PressDecision(a, command)
    \/ SubmitRevision(a)
    \/ SubmitRejection(a)

HandsIn ==
    \/ \E c \in Contents, action \in {"submit_draft", "resubmit_draft", "submit_video"} :
         PressRow(c, action)
    \/ \E action \in {"submit_draft", "resubmit_draft", "submit_video"} :
         OpenSubmitFromPanel(action)
    \/ CloseModal
    \/ HandleSubmit

Next ==
    \/ \E s \in Screens : Presses(s) \/ Reads(s)
    \/ \E a \in Admins : Decides(a)
    \/ HandsIn
    \/ \E s \in Screens, k \in Slots : Answers(s, k)
    \/ DayPasses

Spec == Init /\ [][Next]_vars
-----------------------------------------------------------------------------
(* Properties.                                                             *)

Details ==
    [status : CONTENT_STATUSES \cup {"removed"}, drafts : Nat, moves : Nat,
     actions : SUBSET {"submit_draft", "resubmit_draft", "submit_video"}]

Panels ==
    [content : Contents \cup {Nowhere},
     kind : {"closed", "loading", "loaded", "not_found", "failed"},
     shown : Details,
     reading : SUBSET [phase : {"asked", "answered", "gone"}, detail : Details],
     form : {"none"} \cup OPENS_FORM, about : Nat, since : Nat,
     busy : {"none"} \cup DOMAIN Outcome, owed : Nat]

Requests ==
    [kind : {"none"} \cup DOMAIN Outcome, content : Contents \cup {Nowhere},
     draft : Nat, about : Nat, seen : Nat, mine : BOOLEAN, at : Nat,
     phase : {"idle", "asked", "deaf", "ok", "conflict", "missing"}]

\* Every variable holds what the code can store; a form is only open over a
\* content, and only one read of it is listened to.
TypeOK ==
    /\ rows \in [Contents -> [status : CONTENT_STATUSES \cup {"removed"},
                              drafts : Nat, moves : Nat, was : SUBSET Details]]
    /\ today \in 0..LastDay
    /\ \A s \in Screens :
         /\ panel[s] \in Panels
         /\ Cardinality(panel[s].reading) <= 1
         /\ panel[s].form # "none" => panel[s].kind = "loaded" /\ s # Creator
    /\ sent \in [Screens -> [Slots -> Requests]]
    /\ modal \in [content : Contents \cup {Nowhere}, action : {"none"} \cup DOMAIN Outcome,
                  seen : Nat, note : Nat, asked : Nat]

\* A panel that stays open never goes back to an older state of the row, though
\* several refused decisions each read it again and answers come in any order
\* (content-detail-panel.tsx, readAgain).
ScreensNeverGoBack ==
    [][\A s \in Screens :
          panel[s].kind = "loaded" /\ panel'[s].kind = "loaded"
              => panel[s].shown.moves <= panel'[s].shown.moves]_vars

\* After a refusal, once nothing is being read and no re-read has failed, the
\* panel shows the state the decision was refused for, or a later one: "the
\* content is read again to show where it stands now" (content-detail-panel.tsx).
RefusalShowsWhereItStands ==
    \A a \in Admins :
        panel[a].reading = {} => panel[a].owed <= panel[a].shown.moves

\* The buttons of the browser and the rules of the server agree: a request is
\* refused only when the row has moved since the screen it was begun on
\* (panel-actions.ts and task-actions.ts against the services).
RefusalsHaveACause ==
    \A s \in Screens, k \in Slots :
        sent[s][k].phase \in {"conflict", "missing"} => sent[s][k].seen < sent[s][k].at

\* A revision note goes to the draft that was on screen when its form was
\* opened, though the panel may come to show a newer draft, and never lands on
\* another one, unless the form was opened while the panel was being read again
\* (content-detail-panel.tsx, decide and the send command).
NotesReachTheirDraft ==
    \A a \in Admins, k \in Slots :
        LET q == sent[a][k] IN
        q.kind = "revise" /\ q.about # 0 => q.draft = q.about

\* Nothing on screen waits for an answer that cannot come: a panel loads while
\* it is read, and is locked exactly while the one decision it sent is under
\* way, whatever became of earlier panels and their requests; a submit form is
\* open while its one hand-in is under way (content-detail-panel.tsx, pending;
\* submit-draft-modal.tsx, isSubmitting).
WaitsHaveARequest ==
    /\ \A s \in Screens :
         LET own == Cardinality({k \in Slots : sent[s][k].mine}) IN
         /\ panel[s].kind = "loading" => panel[s].reading # {}
         /\ IF s = Creator THEN own <= 1
            ELSE own = IF panel[s].busy = "none" THEN 0 ELSE 1
    /\ Sending(Creator) => modal # NoModal

\* Whatever state the work reaches, somebody can go on: the side a fresh answer
\* says the content waits on is offered a command the server would take.
TurnIsPlayable ==
    \A c \in Contents :
        LET row == Swept[c] IN
        row.status \in CONTENT_STATUSES /\ WAITING_ON[row.status] # "nobody" =>
            \E command \in ActionsFor(WAITING_ON[row.status], ToContentDetail(row, today)) :
                Accepts([kind |-> command, draft |-> row.drafts], row)

\* A resubmit form opened from a panel shows the note that panel showed, the one
\* the resubmit answers (my-task-board.tsx, contentOfDetail).
ResubmitShowsTheNote ==
    modal.action = "resubmit_draft" => modal.note = modal.asked

\* What a screen waits for is under way, what it was refused had a reason, and
\* the reason is what it shows.
RefusalsAreExplained ==
    /\ TypeOK
    /\ RefusalShowsWhereItStands
    /\ RefusalsHaveACause
    /\ WaitsHaveARequest
=============================================================================
