---------------------------- MODULE InvoiceScreens ----------------------------
(***************************************************************************)
(* The two sides of an invoice on their screens.  They share nothing but   *)
(* the server, which each sees move under it at any moment, so a behaviour *)
(* follows one of them: the admin's board, or the creator's page with the  *)
(* admin's end of its thread.                                              *)
(***************************************************************************)
EXTENDS InvoicePanels, CreatorInvoicePage

VARIABLE side       \* whose screen this behaviour follows

screenVars == <<deskVars, panelVars, pageVars, side>>

Sides == {"admin", "creator"}

ScreensTypeOK ==
    /\ side \in Sides
    /\ DeskTypeOK /\ PanelsTypeOK /\ PageTypeOK

ScreensInit ==
    /\ side \in Sides
    /\ DeskInit
    /\ IF side = "admin" THEN periods = Contracts ELSE filter = 0..LastStep
    /\ PageInit
    /\ PanelsInit

AdminSide == side = "admin" /\ PanelsNext /\ UNCHANGED <<pageVars, side>>
CreatorSide == side = "creator" /\ PageNext /\ UNCHANGED <<panelVars, side>>

ScreensNext == AdminSide \/ CreatorSide

\* A read of the table or of the page that is under way is answered.
ScreensSpec ==
    /\ ScreensInit /\ [][ScreensNext]_screenVars
    /\ WF_screenVars(AdminSide /\ RefreshLands)
    /\ WF_screenVars(CreatorSide /\ RereadReads)
    /\ WF_screenVars(CreatorSide /\ RereadLands)

(* What a move was answered to have come to is, in the end, what its       *)
(* screen shows: no accepted move is left looking undone.                  *)
ScreensCatchUp == []<>(BoardCaughtUp /\ PageCaughtUp)

(* Threads and moves are single: no comment stands twice or out of order   *)
(* and no move of the current period is under way twice, whichever side    *)
(* is looked at.                                                           *)
NothingTwice ==
    /\ ScreensTypeOK
    /\ CommentShownOnce
    /\ NeverSentTwice
    /\ ThreadReadsInOrder
=============================================================================
