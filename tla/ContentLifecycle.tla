-------------------------- MODULE ContentLifecycle --------------------------
(***************************************************************************)
(* The statuses a content item can be in, the moves between them and the   *)
(* rules that decide when a creator may hand something in.  Days are       *)
(* integers (calendar days in Jakarta); the code compares ISO days as      *)
(* strings, which order the same way.                                      *)
(***************************************************************************)
EXTENDS Integers

CONTENT_STATUSES ==
    {"pending", "scheduled", "draft_review", "draft_revision",
     "draft_approved", "link_submitted"}

COMMITTED_STATUSES == CONTENT_STATUSES \ {"pending"}

\* The statuses in which a draft waits for an admin's decision.
REVIEWABLE_STATUSES == {"draft_review"}

NEXT_STATUSES ==
    [s \in CONTENT_STATUSES |->
        CASE s = "pending"        -> {"scheduled"}
          [] s = "scheduled"      -> {"draft_review"}
          [] s = "draft_review"   -> {"draft_approved", "draft_revision",
                                      "link_submitted"}
          [] s = "draft_revision" -> {"draft_review"}
          [] s = "draft_approved" -> {"link_submitted"}
          [] s = "link_submitted" -> {}]

CanTransition(from, to) == to \in NEXT_STATUSES[from]

-----------------------------------------------------------------------------
(* When a creator may act.  The grace window opens GRACE_DAYS before the   *)
(* deadline and never closes: a late link is still a link.                 *)

GRACE_DAYS == 1

InGraceWindow(deadline, today) == today >= deadline - GRACE_DAYS

CanSubmitDraft(s) == CanTransition(s, "draft_review")

CanSubmitVideo(s, deadline, today) ==
    /\ CanTransition(s, "link_submitted")
    /\ s = "draft_approved" \/ InGraceWindow(deadline, today)

-----------------------------------------------------------------------------
(* When a proposal nobody decided on counts as scheduled.                  *)

\* A cutoff of today: the proposal would be promoted on the deadline itself.
SchedulingCutoff_DeadlineDay(today) == today

\* The newest deadline a still-pending proposal can have and be promoted.
SchedulingCutoff(today) == today + GRACE_DAYS
=============================================================================
