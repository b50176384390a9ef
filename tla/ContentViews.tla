---------------------------- MODULE ContentViews ----------------------------
(***************************************************************************)
(* What the lists, the review queue and the detail panel make of the rows: *)
(* the admin's Content Plan, the creator's Task Saya, the queue of drafts  *)
(* to review and the journey of a content.  Each is a read of its own, with *)
(* rules of its own about whose turn it is, what is late and what happened. *)
(*                                                                         *)
(* A list is the set of contents it shows; how it is sorted, searched and  *)
(* cut into pages is left out.                                             *)
(***************************************************************************)
EXTENDS ContentReview, FiniteSets

CONSTANTS
    NoLimit,        \* an end of a period that is not given
    Periods         \* the deadline periods a list is asked for

ASSUME ContentViewsAssumption ==
    /\ NoLimit \notin Nat
    /\ Periods \subseteq [from : Nat \cup {NoLimit}, to : Nat \cup {NoLimit}]

VARIABLE draftDay   \* the day of each content's latest hand-in

viewVars == <<vars, draftDay>>

-----------------------------------------------------------------------------
(* The rows, and what is said of them.                                     *)

\* A hand-in after the deadline day, or an open content past it.
IsOverdue_OpenOnly(c) ==
    /\ Committed(c) /\ status[c] # "link_submitted"
    /\ Deadline[c] < today

LateHandIn(c) == draftDay[c] > Deadline[c] \/ video[c].handedIn > Deadline[c]

IsOverdue(c) ==
    \/ LateHandIn(c)
    \/ /\ Committed(c) /\ status[c] # "link_submitted"
       /\ video[c].handedIn = NoDay
       /\ Deadline[c] < today

Stored == {c \in Contents : status[c] \in CONTENT_STATUSES}

\* Either end of a period may be open.
WithinPeriod(period, day) ==
    /\ period.from # NoLimit => period.from <= day
    /\ period.to # NoLimit => day <= period.to

-----------------------------------------------------------------------------
(* The Content Plan of the admins.                                         *)

TAB_STATUSES ==
    [needs_approval  |-> {"pending", "draft_review"},
     waiting_creator |-> {"scheduled", "draft_revision", "draft_approved"},
     done            |-> {"link_submitted"}]

PERIOD_FREE_TAB == "needs_approval"

TabOf ==
    [s \in CONTENT_STATUSES |->
        CHOOSE tab \in DOMAIN TAB_STATUSES : s \in TAB_STATUSES[tab]]

\* What the query fetches: the period keeps every status of the free tab.
Narrowing(period) ==
    {c \in Stored : \/ WithinPeriod(period, Deadline[c])
                    \/ status[c] \in TAB_STATUSES[PERIOD_FREE_TAB]}

\* The rows of a tab; "all" holds a row inside the period only.
PlanTab(period, tab) ==
    {c \in Narrowing(period) :
        LET dated == WithinPeriod(period, Deadline[c]) IN
        IF tab = "all" THEN dated
        ELSE tab = TabOf[status[c]] /\ (dated \/ tab = PERIOD_FREE_TAB)}

\* Hand-ins an admin answered with a revision request.
PlanRevisions(c) == Cardinality(noted[c])

-----------------------------------------------------------------------------
(* The Task Saya of the creator.                                           *)

TaskActions(c) ==
    {a \in {"submit_draft", "resubmit_draft", "submit_video"} :
        IF a = "submit_video"
        THEN CanSubmitVideo(status[c], Deadline[c], today)
        ELSE /\ CanSubmitDraft(status[c])
             /\ (a = "submit_draft") = (status[c] = "scheduled")}

MY_TASK_TAB_STATUSES ==
    [to_do         |-> TAB_STATUSES.waiting_creator \ {"pending"},
     waiting_admin |-> TAB_STATUSES.needs_approval \ {"pending"},
     done          |-> TAB_STATUSES.done \ {"pending"}]

PERIOD_FREE_MY_TAB == "to_do"

MyTabOf ==
    [s \in COMMITTED_STATUSES |->
        CHOOSE tab \in DOMAIN MY_TASK_TAB_STATUSES : s \in MY_TASK_TAB_STATUSES[tab]]

\* A button makes it the creator's turn.
MyTab(c) == IF TaskActions(c) # {} THEN "to_do" ELSE MyTabOf[status[c]]

LastGraceDeadline(day) == day + GRACE_DAYS

\* The period keeps the statuses of the free tab and nothing else.
MyNarrowing_StatusesOnly(period) ==
    {c \in Contents :
        /\ Committed(c)
        /\ \/ WithinPeriod(period, Deadline[c])
           \/ status[c] \in MY_TASK_TAB_STATUSES[PERIOD_FREE_MY_TAB]}

MyNarrowing(period) ==
    {c \in Contents :
        /\ Committed(c)
        /\ \/ WithinPeriod(period, Deadline[c])
           \/ status[c] \in MY_TASK_TAB_STATUSES[PERIOD_FREE_MY_TAB]
           \/ status[c] = "draft_review" /\ Deadline[c] <= LastGraceDeadline(today)}

TaskTab(period, tab) ==
    {c \in MyNarrowing(period) :
        LET dated == WithinPeriod(period, Deadline[c]) IN
        IF tab = "all" THEN dated
        ELSE tab = MyTab(c) /\ (dated \/ tab = PERIOD_FREE_MY_TAB)}

-----------------------------------------------------------------------------
(* The review queue.  A row names the latest hand-in.                      *)

QueueWhere == {c \in Contents : status[c] \in REVIEWABLE_STATUSES /\ drafts[c] > 0}

ToQueued(c) == [submission |-> drafts[c], revisionCount |-> drafts[c] - 1]

IsResubmit(item) == item.revisionCount > 0

-----------------------------------------------------------------------------
(* The journey a panel shows, as a set of steps.  The step a content       *)
(* starts with is left out: every account has one.                         *)

JourneyStep(type, n) == [type |-> type, draft |-> n]

\* The panel's step for each stored kind of event.
STEP_FOR ==
    [t \in EventTypes |->
        CASE t = "Scheduled"          -> "scheduled"
          [] t = "Proposal Approved"  -> "proposal_approved"
          [] t = "Auto Scheduled"     -> "auto_scheduled"
          [] t = "Draft Submitted"    -> "draft_submitted"
          [] t = "Revision Requested" -> "revision_requested"
          [] t = "Draft Approved"     -> "draft_approved"
          [] t = "Link Submitted"     -> "link_submitted"]

\* A stored revision keeps its note and not the draft it was written on, so the
\* revisions of a journey are told apart by their order alone.
IsRevision(e) == e.type = "Revision Requested"

Revisions(c) == {i \in 1..Len(history[c]) : IsRevision(history[c][i])}

RevisionSteps(n) == {JourneyStep("revision_requested", k) : k \in 1..n}

\* Of the other events only a hand-in belongs to a draft.
FromStoredHistory(c) ==
    {JourneyStep(STEP_FOR[e.type], IF IsHandIn(e) THEN e.draft ELSE 0) :
        e \in {history[c][i] : i \in (2..Len(history[c])) \ Revisions(c)}}
    \cup RevisionSteps(Cardinality(Revisions(c)))

HandIns(c) ==
    {JourneyStep("draft_submitted", d) : d \in 1..drafts[c]}
        \cup RevisionSteps(Cardinality(noted[c]))

TheLink(c) == IF video[c].handedIn = NoDay THEN {} ELSE {JourneyStep("link_submitted", 0)}

\* Derived from the rows of a content nothing was recorded for.
BuildEvents(c) ==
    HandIns(c) \cup TheLink(c)
        \cup (IF status[c] = "draft_approved" THEN {JourneyStep("draft_approved", 0)} ELSE {})

ProvesApproval(c) ==
    \/ status[c] = "draft_approved"
    \/ status[c] = "link_submitted" /\ ~video[c].bypassed /\ drafts[c] > 0

\* What the migration stores for a content that was there before the history.
Backfilled(c) ==
    HandIns(c) \cup TheLink(c)
        \cup (IF ProvesApproval(c) THEN {JourneyStep("draft_approved", 0)} ELSE {})

-----------------------------------------------------------------------------

ViewInit == Init /\ draftDay = [c \in Contents |-> NoDay]

\* created_at of the latest hand-in, of a row that is there.
DraftDays ==
    draftDay' = [c \in Contents |->
                   CASE drafts'[c] > drafts[c] -> today
                     [] drafts'[c] = 0         -> NoDay
                     [] OTHER                  -> draftDay[c]]

ViewNext == Next /\ DraftDays

ViewSpec == ViewInit /\ [][ViewNext]_viewVars
-----------------------------------------------------------------------------
(* Properties.                                                             *)

\* "Nothing that waits for an admin can be hidden behind a date range", nor "work
\* the creator still has to do" (content-list.ts, my-task-query.ts): whatever the
\* period, the tab of the one whose turn it is holds the content, though the
\* database narrows by statuses before the rows are judged by their buttons.
PeriodsHideNoWork ==
    /\ \A c \in Stored :
         status[c] = "pending" \/ status[c] \in REVIEWABLE_STATUSES
             => \A period \in Periods : c \in PlanTab(period, "needs_approval")
    /\ \A c \in Contents :
         Committed(c) /\ TaskActions(c) # {}
             => \A period \in Periods : c \in TaskTab(period, "to_do")

\* The queue holds exactly the drafts the admin's tab waits for, each row names
\* the draft an approval would be taken for, and it calls a draft a resubmit
\* exactly when the plan counts a revision (review-queue.service.ts,
\* content-list.service.ts: one counts hand-ins, the other notes).
QueueMatchesThePlan ==
    LET everyDay == [from |-> NoLimit, to |-> NoLimit] IN
    /\ QueueWhere = {c \in PlanTab(everyDay, "needs_approval") : status[c] # "pending"}
    /\ \A c \in QueueWhere :
         /\ CheckReviewable(c, ToQueued(c).submission)
         /\ IsResubmit(ToQueued(c)) = (PlanRevisions(c) > 0)

\* The two lists tell the same turn: what the plan has waiting for the creator is
\* on the creator's to-do list with a button, and only a draft in its grace
\* window is on both sides' lists (my-contents.service.ts, tabOf).
ListsTellTheSameTurn ==
    \A c \in Stored \ {x \in Contents : status[x] = "pending"} :
        /\ TabOf[status[c]] = "waiting_creator" => TaskActions(c) # {}
        /\ MyTab(c) = "to_do" /\ TabOf[status[c]] = "needs_approval"
             => InGraceWindow(Deadline[c], today)
        /\ (MyTab(c) = "done") = (TabOf[status[c]] = "done")

\* A content that reads as overdue keeps doing so, "so a finished content keeps
\* saying it was late" (content-tags.ts); only a link whose request came in on
\* time and was committed after midnight takes it back.
OverdueIsKept ==
    [][\A c \in Contents :
          IsOverdue(c) => \/ IsOverdue(c)'
                          \/ /\ status'[c] = "link_submitted"
                             /\ video'[c].handedIn <= Deadline[c]]_viewVars

\* The three accounts of a content tell the same journey: neither what the
\* migration stores from the rows nor what the panel derives from them tells a
\* step that was not recorded as it happened.  What they may lack is the approval
\* a link overwrote, which only the panel forgets, and a revision, which both lose
\* where a note was written on a draft that had been replaced, over the note that
\* draft already had (content-detail.ts, stored-history.ts, the content_events
\* backfill, submission-revision.repository.ts).
NotedAReplacedDraft(c) ==
    \E i \in Revisions(c) : \E k \in 1..(i - 1) :
        /\ IsHandIn(history[c][k])
        /\ history[c][k].draft > history[c][i].draft

JourneysAgree ==
    \A c \in Stored :
        LET recorded == FromStoredHistory(c) IN
        /\ Backfilled(c) \subseteq recorded
        /\ BuildEvents(c) \subseteq recorded
        /\ \A step \in recorded \ Backfilled(c) :
             step.type = "revision_requested" /\ NotedAReplacedDraft(c)
        /\ \A step \in recorded \ BuildEvents(c) :
             \/ step.type = "draft_approved" /\ status[c] = "link_submitted"
             \/ step.type = "revision_requested" /\ NotedAReplacedDraft(c)

\* Whoever looks, the lists, the queue and the journeys tell one story of a row.
ViewsAgree ==
    /\ PeriodsHideNoWork
    /\ QueueMatchesThePlan
    /\ ListsTellTheSameTurn
    /\ JourneysAgree
-----------------------------------------------------------------------------
(* What the agreement relies on, for the proofs.                           *)

\* The rows tell how far the rounds have come: a content nobody handed a draft
\* in for has no note, a second draft follows a note, and a note a draft.
RoundsAreTold ==
    \A c \in Contents :
        /\ status[c] \in {"absent", "pending", "removed", "scheduled"}
             => drafts[c] = 0 /\ noted[c] = {}
        /\ status[c] = "draft_review"
             => drafts[c] > 0 /\ (drafts[c] > 1) = (noted[c] # {})
        /\ status[c] = "draft_revision" => drafts[c] > 0 /\ noted[c] # {}
        /\ status[c] = "draft_approved" => drafts[c] > 0

\* The journeys with every revision traced to the draft it was written on, which
\* the events of the model keep and those of the code do not.
TracedHistory(c) ==
    {JourneyStep(STEP_FOR[e.type],
           IF e.type \in {"Draft Submitted", "Revision Requested"} THEN e.draft ELSE 0) :
        e \in {history[c][i] : i \in 2..Len(history[c])}}

TracedHandIns(c) ==
    {JourneyStep("draft_submitted", d) : d \in 1..drafts[c]}
        \cup {JourneyStep("revision_requested", d) : d \in noted[c]}

TracedPast(c) ==
    TracedHandIns(c) \cup TheLink(c)
        \cup (IF ProvesApproval(c) THEN {JourneyStep("draft_approved", 0)} ELSE {})

\* What the rows prove of a content's past is what was recorded of it.
RowsTellTheJourney == \A c \in Contents : TracedPast(c) = TracedHistory(c)

\* A decision names a draft that was handed in, and so does a recorded revision.
DecisionsNameDrafts ==
    \A r \in Requests :
        requests[r].kind \in Decisions
            => requests[r].draft \in 1..drafts[requests[r].content]

RevisionsFollowDrafts ==
    \A c \in Contents : \A i \in Revisions(c) :
        \E k \in 1..(i - 1) : /\ IsHandIn(history[c][k])
                              /\ history[c][k].draft = history[c][i].draft

\* The latest hand-in was on a day that has come, if there was one.
HandInDaysArePast ==
    /\ draftDay \in [Contents -> Days \cup {NoDay}]
    /\ \A c \in Contents : /\ draftDay[c] <= today
                           /\ drafts[c] = 0 => draftDay[c] = NoDay

ViewInv ==
    /\ ReviewInv
    /\ \A c \in Contents : IsFiniteSet(noted[c])
    /\ RoundsAreTold
    /\ RowsTellTheJourney
    /\ DecisionsNameDrafts
    /\ RevisionsFollowDrafts
    /\ HandInDaysArePast
=============================================================================
