--------------------------- MODULE ContentReview ---------------------------
(***************************************************************************)
(* Content items on their way from a proposal to a published link, worked  *)
(* on by several HTTP requests at once.                                    *)
(*                                                                         *)
(* A request is a slot that is idle or in flight.  What it does is cut     *)
(* where another request's committed work can come between two of its own  *)
(* database statements: it arrives (the scheduling middleware runs), a     *)
(* video link takes the time, it reads the content, and it commits.  A     *)
(* commit is one transaction whose first statement is an UPDATE that names *)
(* the status it expects; PostgreSQL re-evaluates that WHERE on the locked *)
(* row and the lock is held to the end, so the statements that follow it   *)
(* belong to the same step.                                                *)
(*                                                                         *)
(* Drafts are numbered in the order of their created_at, which is stamped  *)
(* under that same row lock: the latest draft is the last number.          *)
(***************************************************************************)
EXTENDS ContentLifecycle, Sequences

CONSTANTS
    Contents,       \* ids of content rows
    Requests,       \* slots for requests in flight
    NoContent,      \* what an idle slot works on
    Deadline,       \* the deadline of each content
    BufferDays,     \* how far ahead a new deadline has to be
    LastDay,        \* bound: the last day the clock reaches
    MaxDrafts,      \* bound: hand-ins per content
    MaxComments     \* bound: comments per content

ASSUME ContentReviewAssumption ==
    /\ NoContent \notin Contents
    /\ Deadline \in [Contents -> Nat]
    /\ BufferDays \in Nat
    /\ LastDay \in Nat
    /\ MaxDrafts \in Nat
    /\ MaxComments \in Nat

VARIABLES
    status,     \* contents.status, or "absent" / "removed" when there is no row
    video,      \* contents.video_submitted_at and approval_bypassed
    drafts,     \* how many submissions a content has; they are numbered from 1
    noted,      \* the submissions that carry revision_notes
    history,    \* content_events, in commit order, but for the comments
    comments,   \* how many Creator Comment events a content has
    today,      \* the calendar day
    requests    \* the requests in flight

contentVars == <<status, video, drafts, noted, history, comments>>
vars == <<contentVars, today, requests>>

-----------------------------------------------------------------------------
(* The stored rows.                                                        *)

RowStatuses == CONTENT_STATUSES \cup {"absent", "removed"}

Days  == 0..LastDay
NoDay == -1

NoVideo == [handedIn |-> NoDay, bypassed |-> FALSE]

\* What an event of each type says the content became.
ResultOf ==
    [t \in {"Scheduled", "Proposal Approved", "Auto Scheduled",
            "Draft Submitted", "Revision Requested", "Draft Approved",
            "Link Submitted"} |->
        CASE t = "Draft Submitted"    -> "draft_review"
          [] t = "Revision Requested" -> "draft_revision"
          [] t = "Draft Approved"     -> "draft_approved"
          [] t = "Link Submitted"     -> "link_submitted"
          [] OTHER                    -> "scheduled"]

EventTypes == DOMAIN ResultOf

\* draft: the version a hand-in stores; for a decision, the draft its request
\* named (the row does not keep it).  since: how many events had happened when
\* occurred_at was taken.
Events == [type : EventTypes, draft : Nat, since : Nat]

Event(t, d, n) == [type |-> t, draft |-> d, since |-> n]

-----------------------------------------------------------------------------
(* Requests.                                                               *)

Decisions == {"approve", "revise"}
Kinds     == {"create", "approve_proposal", "reject_proposal",
              "draft", "video"} \cup Decisions

Idle == [kind |-> "none", phase |-> "idle", content |-> NoContent,
         draft |-> 0, seen |-> "absent", day |-> 0, clock |-> 0, since |-> 0]

\* day: when it arrived.  clock and since: the day a video link is handed in on,
\* and how many events had happened when its handler took the time.
RequestStates ==
    [kind : Kinds, phase : {"arrived", "timed", "read"}, content : Contents,
     draft : Nat, seen : RowStatuses, day : Days, clock : Days, since : Nat]

InFlight(r, kind, phase) ==
    /\ requests[r].kind = kind
    /\ requests[r].phase = phase

Finish(r) == requests' = [requests EXCEPT ![r] = Idle]

\* The read found the content as `seen` and the request goes on.
Proceed(r, seen) ==
    requests' = [requests EXCEPT ![r] =
                   [requests[r] EXCEPT !.phase = "read", !.seen = seen]]

Committed(c) == status[c] \in COMMITTED_STATUSES

-----------------------------------------------------------------------------
(* The middleware: before a request reaches its handler, every proposal    *)
(* whose H-1 has come is scheduled, in one transaction.                    *)

DueProposals ==
    {c \in Contents : /\ status[c] = "pending"
                      /\ Deadline[c] <= SchedulingCutoff(today)}

ScheduleDue ==
    /\ status' = [c \in Contents |->
                    IF c \in DueProposals THEN "scheduled" ELSE status[c]]
    /\ history' = [c \in Contents |->
                    IF c \in DueProposals
                    THEN Append(history[c], Event("Auto Scheduled", 0, Len(history[c])))
                    ELSE history[c]]
    /\ UNCHANGED <<video, drafts, noted, comments>>

\* A request arrives.  The admin of a decision names a draft that exists.
Arrive(r, kind, c, d) ==
    /\ requests[r] = Idle
    /\ ScheduleDue
    /\ requests' = [requests EXCEPT ![r] =
                      [kind |-> kind, phase |-> "arrived", content |-> c,
                       draft |-> d, seen |-> "absent", day |-> today,
                       clock |-> 0, since |-> 0]]
    /\ UNCHANGED today

\* A request that only reads (a list, a detail) still runs the middleware.
ReadOnlyRequest ==
    /\ DueProposals # {}
    /\ ScheduleDue
    /\ UNCHANGED <<today, requests>>

\* A request ends and changes nothing: its read or its guarded write matched no
\* row (404, 409), a later statement failed and rolled it back, or it was cut.
GiveUp(r) ==
    /\ requests[r] # Idle
    /\ Finish(r)
    /\ UNCHANGED <<contentVars, today>>

-----------------------------------------------------------------------------
(* Contents come to be, and proposals are decided.                         *)

\* The row c of a committed transaction: its new status, and its event.
Moves(c, from, e) ==
    /\ status[c] = from
    /\ status' = [status EXCEPT ![c] = ResultOf[e.type]]
    /\ history' = [history EXCEPT ![c] = Append(history[c], e)]

\* An admin adds a content, or onboards a creator with it.
Create(r) ==
    LET c == requests[r].content IN
    /\ InFlight(r, "create", "arrived")
    /\ Deadline[c] >= today + BufferDays
    /\ Moves(c, "absent", Event("Scheduled", 0, 0))
    /\ Finish(r)
    /\ UNCHANGED <<video, drafts, noted, comments, today>>

ApproveProposal(r) ==
    LET c == requests[r].content IN
    /\ InFlight(r, "approve_proposal", "arrived")
    /\ Moves(c, "pending", Event("Proposal Approved", 0, Len(history[c])))
    /\ Finish(r)
    /\ UNCHANGED <<video, drafts, noted, comments, today>>

ReadProposal(r) ==
    LET c == requests[r].content IN
    /\ InFlight(r, "reject_proposal", "arrived")
    /\ status[c] = "pending"
    /\ Proceed(r, status[c])
    /\ UNCHANGED <<contentVars, today>>

\* Deleting the row deletes its submissions and events with it.
Discard(r, c) ==
    /\ status' = [status EXCEPT ![c] = "removed"]
    /\ video' = [video EXCEPT ![c] = NoVideo]
    /\ drafts' = [drafts EXCEPT ![c] = 0]
    /\ noted' = [noted EXCEPT ![c] = {}]
    /\ history' = [history EXCEPT ![c] = <<>>]
    /\ comments' = [comments EXCEPT ![c] = 0]
    /\ Finish(r)
    /\ UNCHANGED today

RejectProposal(r) ==
    LET c == requests[r].content IN
    /\ InFlight(r, "reject_proposal", "read")
    /\ status[c] = "pending"
    /\ Discard(r, c)

-----------------------------------------------------------------------------
(* The creator hands in.                                                   *)

ReadForDraft(r) ==
    LET c == requests[r].content IN
    /\ InFlight(r, "draft", "arrived")
    /\ Committed(c)
    /\ CanSubmitDraft(status[c])
    /\ Proceed(r, status[c])
    /\ UNCHANGED <<contentVars, today>>

SubmitDraft(r) ==
    LET c == requests[r].content
        version == drafts[c] + 1
    IN
    /\ InFlight(r, "draft", "read")
    /\ version <= MaxDrafts
    /\ Moves(c, requests[r].seen, Event("Draft Submitted", version, Len(history[c])))
    /\ drafts' = [drafts EXCEPT ![c] = drafts[c] + 1]
    /\ Finish(r)
    /\ UNCHANGED <<video, noted, comments, today>>

\* One reading of the clock, past the middleware and the guards.
TakeTheTime(r) ==
    LET c == requests[r].content IN
    /\ InFlight(r, "video", "arrived")
    /\ requests' = [requests EXCEPT ![r] =
                      [requests[r] EXCEPT !.phase = "timed", !.clock = today,
                                          !.since = Len(history[c])]]
    /\ UNCHANGED <<contentVars, today>>

\* Judged by the day its handler started on.
ReadForVideo(r) ==
    LET c == requests[r].content IN
    /\ InFlight(r, "video", "timed")
    /\ Committed(c)
    /\ CanSubmitVideo(status[c], Deadline[c], requests[r].clock)
    /\ Proceed(r, status[c])
    /\ UNCHANGED <<contentVars, today>>

\* A guard that lets any status with an arrow to link_submitted match, not the
\* one that was read.
SubmitVideo_AnyLinkable(r) ==
    LET c == requests[r].content IN
    /\ InFlight(r, "video", "read")
    /\ CanTransition(status[c], "link_submitted")
    /\ Moves(c, status[c], Event("Link Submitted", 0, requests[r].since))
    /\ video' = [video EXCEPT ![c] =
                   [handedIn |-> requests[r].clock,
                    bypassed |-> requests[r].seen # "draft_approved"]]
    /\ Finish(r)
    /\ UNCHANGED <<drafts, noted, comments, today>>

SubmitVideo(r) ==
    LET c == requests[r].content IN
    /\ InFlight(r, "video", "read")
    /\ Moves(c, requests[r].seen, Event("Link Submitted", 0, requests[r].since))
    /\ video' = [video EXCEPT ![c] =
                   [handedIn |-> requests[r].clock,
                    bypassed |-> requests[r].seen # "draft_approved"]]
    /\ Finish(r)
    /\ UNCHANGED <<drafts, noted, comments, today>>

\* No row lock, and committed contents are never deleted: one step.
AddComment(c) ==
    /\ Committed(c)
    /\ comments[c] < MaxComments
    /\ comments' = [comments EXCEPT ![c] = comments[c] + 1]
    /\ UNCHANGED <<status, video, drafts, noted, history, today, requests>>

-----------------------------------------------------------------------------
(* An admin decides on a draft.                                            *)

IsLatest(c, d) == d = drafts[c]

CheckReviewable(c, d) ==
    /\ status[c] \in REVIEWABLE_STATUSES
    /\ IsLatest(c, d)

FindUnderReview(r, kind) ==
    LET c == requests[r].content IN
    /\ InFlight(r, kind, "arrived")
    /\ CheckReviewable(c, requests[r].draft)
    /\ Proceed(r, status[c])
    /\ UNCHANGED <<contentVars, today>>

\* The status is not in the UPDATE, only in the check made before it.
ApproveDraft_TrustsRead(r) ==
    LET c == requests[r].content IN
    /\ InFlight(r, "approve", "read")
    /\ Moves(c, status[c], Event("Draft Approved", requests[r].draft, Len(history[c])))
    /\ Finish(r)
    /\ UNCHANGED <<video, drafts, noted, comments, today>>

\* The UPDATE's guard names the reviewable status, and not the draft.
ApproveDraft(r) ==
    LET c == requests[r].content IN
    /\ InFlight(r, "approve", "read")
    /\ status[c] \in REVIEWABLE_STATUSES
    /\ Moves(c, status[c], Event("Draft Approved", requests[r].draft, Len(history[c])))
    /\ Finish(r)
    /\ UNCHANGED <<video, drafts, noted, comments, today>>

RequestRevision(r) ==
    LET c == requests[r].content
        d == requests[r].draft
    IN
    /\ InFlight(r, "revise", "read")
    /\ status[c] \in REVIEWABLE_STATUSES
    /\ Moves(c, status[c], Event("Revision Requested", d, Len(history[c])))
    /\ noted' = [noted EXCEPT ![c] = noted[c] \cup {d}]
    /\ Finish(r)
    /\ UNCHANGED <<video, drafts, comments, today>>

-----------------------------------------------------------------------------

DayPasses ==
    /\ today < LastDay
    /\ today' = today + 1
    /\ UNCHANGED <<contentVars, requests>>

\* Nothing in this code makes a proposal: they are there when it starts.
Init ==
    /\ status \in [Contents -> {"absent", "pending"}]
    /\ video = [c \in Contents |-> NoVideo]
    /\ drafts = [c \in Contents |-> 0]
    /\ noted = [c \in Contents |-> {}]
    /\ history = [c \in Contents |-> <<>>]
    /\ comments = [c \in Contents |-> 0]
    /\ today = 0
    /\ requests = [r \in Requests |-> Idle]

Begin(r) ==
    \/ \E c \in Contents, kind \in Kinds \ Decisions : Arrive(r, kind, c, 0)
    \/ \E c \in Contents, kind \in Decisions :
         \E d \in 1..drafts[c] : Arrive(r, kind, c, d)

Step(r) ==
    \/ Create(r)
    \/ ApproveProposal(r)
    \/ ReadProposal(r)
    \/ RejectProposal(r)
    \/ ReadForDraft(r)
    \/ SubmitDraft(r)
    \/ TakeTheTime(r)
    \/ ReadForVideo(r)
    \/ SubmitVideo(r)
    \/ \E kind \in Decisions : FindUnderReview(r, kind)
    \/ ApproveDraft(r)
    \/ RequestRevision(r)
    \/ GiveUp(r)

Next ==
    \/ \E r \in Requests : Begin(r)
    \/ \E r \in Requests : Step(r)
    \/ \E c \in Contents : AddComment(c)
    \/ ReadOnlyRequest
    \/ DayPasses

Spec == Init /\ [][Next]_vars
-----------------------------------------------------------------------------
(* Properties.                                                             *)

\* Every variable holds the rows and requests the code can store.
TypeOK ==
    /\ status \in [Contents -> RowStatuses]
    /\ video \in [Contents -> [handedIn : Days \cup {NoDay}, bypassed : BOOLEAN]]
    /\ drafts \in [Contents -> Nat]
    /\ noted \in [Contents -> SUBSET Nat]
    /\ history \in [Contents -> Seq(Events)]
    /\ comments \in [Contents -> Nat]
    /\ today \in Days
    /\ requests \in [Requests -> RequestStates \cup {Idle}]

\* The history of a content is a walk along the lifecycle's arrows, one event
\* per move, that begins when the content is scheduled and ends in the status
\* the row has now: no move is recorded twice, lost, or made from a status it
\* is not allowed from, whatever requests race (every guarded updateMany).
IsWalkTo(h, s) ==
    /\ (h = <<>>) = (s \in {"absent", "pending", "removed"})
    /\ h # <<>> => /\ ResultOf[h[1].type] = "scheduled"
                   /\ ResultOf[h[Len(h)].type] = s
    /\ \A i \in 1..(Len(h) - 1) :
         CanTransition(ResultOf[h[i].type], ResultOf[h[i + 1].type])

HistoryTellsStatus == \A c \in Contents : IsWalkTo(history[c], status[c])

\* The hand-ins in a content's history carry the versions 1, 2, ... in order
\* and there is one for each submission row (draft-submission.service.ts).
IsHandIn(e) == e.type = "Draft Submitted"

NumbersHandIns(h, n) ==
    /\ \A v \in 1..n : \E i \in 1..Len(h) : IsHandIn(h[i]) /\ h[i].draft = v
    /\ \A i \in 1..Len(h) : IsHandIn(h[i]) => h[i].draft \in 1..n
    /\ \A i, j \in 1..Len(h) :
         i < j /\ IsHandIn(h[i]) /\ IsHandIn(h[j]) => h[i].draft < h[j].draft

VersionsCountHandIns == \A c \in Contents : NumbersHandIns(history[c], drafts[c])

\* approval_bypassed says exactly that no approval came before the link, and a
\* bypass was handed in inside the grace window; the link's columns are set
\* exactly in the final status (video-submission.service.ts, the approval may
\* commit while the link is being handed in).
WasApproved(c) ==
    \E i \in 1..Len(history[c]) : history[c][i].type = "Draft Approved"

BypassFlagTellsTheTruth ==
    \A c \in Contents :
        LET v == video[c] IN
        /\ (status[c] = "link_submitted") = (v.handedIn # NoDay)
        /\ status[c] = "link_submitted" =>
             /\ v.bypassed = ~WasApproved(c)
             /\ v.bypassed => InGraceWindow(Deadline[c], v.handedIn)

\* A request past the middleware never meets a proposal whose grace window was
\* open on the day it arrived (proposal-scheduling.middleware.ts: every list,
\* detail and hand-in sees the same status without a scheduler).
NoProposalInGraceWindow ==
    \A r \in Requests, c \in Contents :
        requests[r] # Idle /\ status[c] = "pending"
            => ~InGraceWindow(Deadline[c], requests[r].day)

\* Discarding a proposal never takes committed work with it, though the reject
\* read the row before it deletes it and a promotion, an approval and a hand-in
\* may commit in between (proposal-review.service.ts, reject).
CommittedWorkIsKept ==
    [][\A c \in Contents : Committed(c) => Committed(c)']_vars

\* Of two decisions on the same draft exactly one is recorded: "of two
\* decisions racing on the same draft ... exactly one matches the row and the
\* other gets count 0" (submission-review.service.ts).
IsDecision(e) == e.type \in {"Draft Approved", "Revision Requested"}

OneDecisionPerDraft ==
    \A c \in Contents :
        \A i, j \in 1..Len(history[c]) :
            LET a == history[c][i]
                b == history[c][j]
            IN IsDecision(a) /\ IsDecision(b) /\ a.draft = b.draft => i = j

\* A creator who owes a revision is shown what to change: the notes of the
\* latest hand-in (my-contents.service.ts).
OwedRevisionIsExplained ==
    \A c \in Contents :
        status[c] = "draft_revision" => drafts[c] \in noted[c]

\* Events are shown in the order of their occurred_at; that is the order in
\* which they happened, a link after the draft and the approval it follows
\* (video-submission.service.ts).
HistoryIsShownInOrder ==
    \A c \in Contents :
        \A i \in 1..Len(history[c]) : history[c][i].since = i - 1
-----------------------------------------------------------------------------
(* What the steps above rely on, for the proofs.                           *)

\* A hand-in past its read saw a status that allowed it.
ReadsAllow ==
    \A r \in Requests :
        LET q == requests[r] IN
        q.phase = "read" =>
            /\ q.kind = "draft" =>
                 q.seen \in COMMITTED_STATUSES /\ CanSubmitDraft(q.seen)
            /\ q.kind = "video" =>
                 /\ q.seen \in COMMITTED_STATUSES
                 /\ CanSubmitVideo(q.seen, Deadline[q.content], q.clock)

\* A request in flight arrived, and took the time, on a day that has come.
RequestsArePast ==
    \A r \in Requests :
        requests[r] # Idle => requests[r].day <= today /\ requests[r].clock <= today

\* An approval is recorded exactly from the moment it holds, and is final.
ApprovalIsFinal ==
    \A c \in Contents :
        /\ status[c] = "draft_approved" => WasApproved(c)
        /\ WasApproved(c) => status[c] \in {"draft_approved", "link_submitted"}

ReviewInv ==
    /\ TypeOK
    /\ ReadsAllow
    /\ RequestsArePast
    /\ HistoryTellsStatus
    /\ ApprovalIsFinal
    /\ BypassFlagTellsTheTruth
    /\ VersionsCountHandIns
    /\ NoProposalInGraceWindow

-----------------------------------------------------------------------------
(* Whose turn it is, as the rows tell it.                                  *)

TurnOf ==
    [s \in RowStatuses |->
        CASE s = "absent"         -> "unborn"
          [] s = "pending"        -> "proposed"
          [] s = "removed"        -> "discarded"
          [] s = "draft_review"   -> "admin"
          [] s = "draft_approved" -> "cleared"
          [] s = "link_submitted" -> "done"
          [] OTHER                -> "creator"]

Rounds == INSTANCE ContentRounds WITH
    turn   <- [c \in Contents |-> TurnOf[status[c]]],
    rounds <- drafts,
    late   <- [c \in Contents |-> InGraceWindow(Deadline[c], today)]

\* The rows move as the rounds between creator and admin promise, though every
\* decision and hand-in acts on a status it read in an earlier step.
ImplementsRounds == Rounds!Spec
=============================================================================
