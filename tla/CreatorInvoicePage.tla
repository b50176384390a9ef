-------------------------- MODULE CreatorInvoicePage --------------------------
(***************************************************************************)
(* The creator's Pembayaran page: the latest contract's invoice in full,   *)
(* an earlier one in a side sheet, and in each of these two views the      *)
(* creator's move, asked about in a dialog, and the comment form.  After a *)
(* move the page reads every invoice again; a comment the server sent back *)
(* is shown at once, and from the next read that brings it, only once.     *)
(* Beside it stands the admin's end of the same thread, which is read when *)
(* its tab is opened and then only grows by what the admin writes.         *)
(***************************************************************************)
EXTENDS InvoiceDesk, FiniteSets, SequencesExt

CONSTANT MaxAsks    \* bound: the creator's requests under way at once

ASSUME PageAssumption == MaxAsks \in Nat

VARIABLES
    page,           \* the invoices as the page was last given them
    reread,         \* the page being read again: whether it is, and what was read
    views,          \* the state of each view: [tab, sent, asking]
    opened,         \* the period in the side sheet, or 0
    detail,         \* whether a content's detail stands in the sheet's place
    asks,           \* the creator's requests under way
    heard,          \* what the page was told: which invoice reached which step
    thread          \* the admin's end of a thread, or NoThread

pageVars == <<page, reread, views, opened, detail, asks, heard, thread>>

Views == {"current", "sheet"}
Tabs == {"rincian", "aktivitas"}
CreatorMoves == {"acknowledge", "confirm"}

NewView == [tab |-> "rincian", sent |-> <<>>, asking |-> FALSE]

\* Every invoice the creator has, as one read of the page answers them.
Read == [c \in periods |-> [step |-> invoices[c].step, thread |-> comments[c]]]

NoRead == <<>>
NoThread == [c |-> 0]

Threads == [c : Contracts, state : {"loading", "failed", "loaded"},
            shown : Seq(1..MaxComments), sending : {"no", "sent", "saved", "failed"},
            saved : 0..MaxComments]

PageTypeOK ==
    /\ DOMAIN page \subseteq Contracts
    /\ reread.going \in BOOLEAN /\ DOMAIN reread.read \subseteq Contracts
    /\ views \in [Views -> [tab : Tabs, sent : Seq(1..MaxComments), asking : BOOLEAN]]
    /\ opened \in Contracts \cup {0} /\ detail \in BOOLEAN
    /\ asks \subseteq [id : 1..MaxAsks, view : Views, what : CreatorMoves \cup {"comment"},
                       c : Contracts, at : {"form", "view", "gone"},
                       answer : {"sent", "ok", "failed"}, saved : 0..MaxComments]
    /\ heard \subseteq Contracts \X {2, 4}
    /\ thread \in Threads \cup {NoThread}

-----------------------------------------------------------------------------
(* What is on screen *)

current == Max(DOMAIN page)

Sheet == opened # 0 /\ ~detail

InView(v) == IF v = "current" THEN current ELSE opened

\* The creator's turn, and the move that is due.
nextAction(step) ==
    CASE step = 1 -> "acknowledge"
      [] step = 3 -> "confirm"
      [] OTHER    -> "none"

Due(v) == nextAction(page[InView(v)].step)

\* The view the creator can reach: what lies over it takes every press.
Reach(v) ==
    IF v = "sheet" THEN Sheet
    ELSE opened = 0 /\ ~detail

Waiting(v, what) == \E a \in asks : a.view = v /\ a.what \in what /\ a.at = "form"

\* The comments of a list that are not known yet, in its order.
Unread(sent, known) ==
    LET kept[n \in 0..Len(sent)] ==
            IF n = 0 THEN <<>>
            ELSE IF sent[n] \in known THEN kept[n - 1]
            ELSE Append(kept[n - 1], sent[n])
    IN  kept[Len(sent)]

\* Comments sent from a view are shown until a read brings them back with the invoice.
Thread(v) ==
    LET brought == page[InView(v)].thread
    IN  brought \o Unread(views[v].sent, Range(brought))

\* The requests whose form, or whose whole view, has left the screen.
FormLeft(as, v, what) ==
    {IF a.view = v /\ a.what \in what /\ a.at = "form" THEN [a EXCEPT !.at = "view"] ELSE a : a \in as}
ViewLeft(v) == {IF a.view = v THEN [a EXCEPT !.at = "gone"] ELSE a : a \in asks}

-----------------------------------------------------------------------------
(* The layers *)

OpenSheet(c) ==
    /\ Press
    /\ Reach("current") /\ ~views["current"].asking
    /\ c \in DOMAIN page \ {current}
    /\ opened' = c
    /\ UNCHANGED <<held, page, reread, views, detail, asks, heard, thread>>

\* The sheet closes, or makes way for a content's detail: what it held is lost.
LeaveSheet(into) ==
    /\ Press
    /\ Sheet /\ ~views["sheet"].asking
    /\ IF into = "detail" THEN detail' = TRUE /\ opened' = opened
                          ELSE detail' = FALSE /\ opened' = 0
    /\ views' = [views EXCEPT !["sheet"] = NewView]
    /\ asks' = ViewLeft("sheet")
    /\ UNCHANGED <<held, page, reread, heard, thread>>

OpenDetail ==
    /\ Press
    /\ Reach("current") /\ ~views["current"].asking
    /\ detail' = TRUE
    /\ UNCHANGED <<held, page, reread, views, opened, asks, heard, thread>>

CloseDetail ==
    /\ Press
    /\ detail
    /\ detail' = FALSE
    /\ UNCHANGED <<held, page, reread, views, opened, asks, heard, thread>>

\* Leaving Aktivitas & Komentar takes the comment form with it.
SelectTab(v, tab) ==
    /\ Press
    /\ Reach(v) /\ ~views[v].asking
    /\ views[v].tab # tab
    /\ views' = [views EXCEPT ![v].tab = tab]
    /\ asks' = IF tab = "rincian" THEN FormLeft(asks, v, {"comment"}) ELSE asks
    /\ UNCHANGED <<held, page, reread, opened, detail, heard, thread>>

-----------------------------------------------------------------------------
(* The creator's moves and comments *)

Ask(v, what) ==
    /\ Cardinality(asks) < MaxAsks
    /\ asks' = asks \cup
          {[id |-> Min((1..MaxAsks) \ {a.id : a \in asks}), view |-> v, what |-> what,
            c |-> InView(v), at |-> "form", answer |-> "sent", saved |-> 0]}

AskFirst(v) ==
    /\ Press
    /\ Reach(v) /\ ~views[v].asking
    /\ Due(v) # "none"
    /\ views' = [views EXCEPT ![v].asking = TRUE]
    /\ UNCHANGED <<held, page, reread, opened, detail, asks, heard, thread>>

\* Escape closes the question while its answer is under way; the control stays busy.
BusyStill_DialogsOwn(v) == FormLeft(asks, v, CreatorMoves)
BusyStill(v) == asks

TakeBack(v) ==
    /\ Press
    /\ Reach(v) /\ views[v].asking
    /\ views' = [views EXCEPT ![v].asking = FALSE]
    /\ asks' = BusyStill(v)
    /\ UNCHANGED <<held, page, reread, opened, detail, heard, thread>>

SendMove(v) ==
    /\ Press
    /\ Reach(v) /\ views[v].asking
    /\ ~Waiting(v, CreatorMoves)
    /\ Ask(v, Due(v))
    /\ UNCHANGED <<held, page, reread, views, opened, detail, heard, thread>>

SendComment(v) ==
    /\ Press
    /\ Reach(v) /\ ~views[v].asking
    /\ views[v].tab = "aktivitas"
    /\ ~Waiting(v, {"comment"})
    /\ Ask(v, "comment")
    /\ UNCHANGED <<held, page, reread, views, opened, detail, heard, thread>>

\* The server takes the request, and its answer may get lost; or refuses it, or never sees it.
Answered(a, answer, saved) ==
    asks' = (asks \ {a}) \cup {[a EXCEPT !.answer = answer, !.saved = saved]}

TurnReaches(a) ==
    /\ a.what # "comment" /\ a.answer = "sent"
    /\ \/ /\ Takes(a.what, a.c)
          /\ invoices' = Moved(a.what, a.c)
          /\ \E answer \in {"ok", "failed"} : Answered(a, answer, 0)
       \/ /\ Answered(a, "failed", 0)
          /\ UNCHANGED invoices
    /\ UNCHANGED <<comments, periods, elsewhere, presses, page, reread, views, opened, detail, heard, thread>>

\* A comment is open at every status; its answer may come without the comment it saved.
CommentReaches(a) ==
    /\ a.what = "comment" /\ a.answer = "sent"
    /\ \/ /\ Said < MaxComments
          /\ comments' = Commented(a.c)
          /\ \/ \E saved \in {0, Said + 1} : Answered(a, "ok", saved)
             \/ Answered(a, "failed", 0)
       \/ /\ Answered(a, "failed", 0)
          /\ UNCHANGED comments
    /\ UNCHANGED <<invoices, periods, elsewhere, presses, page, reread, views, opened, detail, heard, thread>>

readAgain == reread' = [going |-> TRUE, read |-> NoRead]

TurnLands(a) ==
    /\ a.what # "comment" /\ a.answer = "ok"
    /\ asks' = asks \ {a}
    /\ views' = IF a.at = "form" THEN [views EXCEPT ![a.view].asking = FALSE] ELSE views
    /\ heard' = heard \cup {<<a.c, AsksFor[a.what] + 1>>}
    /\ readAgain
    /\ UNCHANGED <<deskVars, page, opened, detail, thread>>

\* The saved comment is shown at once; an answer without one asks for the page again.
CommentLands(a) ==
    /\ a.what = "comment" /\ a.answer = "ok"
    /\ asks' = asks \ {a}
    /\ IF a.saved = 0
       THEN readAgain /\ UNCHANGED views
       ELSE /\ views' = IF a.at = "gone" THEN views
                        ELSE [views EXCEPT ![a.view].sent = Append(@, a.saved)]
            /\ UNCHANGED reread
    /\ UNCHANGED <<deskVars, page, opened, detail, heard, thread>>

\* A refusal or a failure is kept to show, in the form if it is still there.
AskFails(a) ==
    /\ a.answer = "failed"
    /\ asks' = asks \ {a}
    /\ UNCHANGED <<deskVars, page, reread, views, opened, detail, heard, thread>>

-----------------------------------------------------------------------------
(* The page read again *)

RereadReads ==
    /\ reread.going /\ reread.read = NoRead
    /\ reread' = [reread EXCEPT !.read = Read]
    /\ UNCHANGED <<deskVars, page, views, opened, detail, asks, heard, thread>>

\* A view whose turn is over loses its move's control, dialog and all; what it sent it keeps.
TurnOver_SentForgotten(view, over) ==
    [view EXCEPT !.asking = @ /\ ~over, !.sent = <<>>]
TurnOver(view, over) == [view EXCEPT !.asking = @ /\ ~over]

RereadLands ==
    /\ reread.going /\ reread.read # NoRead
    /\ page' = reread.read
    /\ reread' = [going |-> FALSE, read |-> NoRead]
    /\ UNCHANGED <<deskVars, opened, detail, heard, thread>>
    /\ LET over == {v \in Views : (v = "current" \/ Sheet) /\ Due(v)' = "none"}
       IN /\ views' = [v \in Views |-> TurnOver(views[v], v \in over)]
          /\ asks' = {IF a.view \in over /\ a.what # "comment" /\ a.at = "form"
                      THEN [a EXCEPT !.at = "view"] ELSE a : a \in asks}

-----------------------------------------------------------------------------
(* The admin's end of the thread *)

OpenThread(c) ==
    /\ Press
    /\ thread = NoThread
    /\ c \in periods
    /\ thread' = [c |-> c, state |-> "loading", shown |-> <<>>, sending |-> "no", saved |-> 0]
    /\ UNCHANGED <<held, page, reread, views, opened, detail, asks, heard>>

ThreadRead(c) == comments[c]

ThreadLoads ==
    /\ thread # NoThread /\ thread.state = "loading"
    /\ thread' \in {[thread EXCEPT !.state = "loaded", !.shown = ThreadRead(thread.c)],
                    [thread EXCEPT !.state = "failed"]}
    /\ UNCHANGED <<deskVars, page, reread, views, opened, detail, asks, heard>>

\* A comment that is on its way when its thread closes goes on to the server:
\* it is saved as one that was written elsewhere.
CloseThread ==
    /\ Press
    /\ thread # NoThread
    /\ thread' = NoThread
    /\ UNCHANGED <<held, page, reread, views, opened, detail, asks, heard>>

SendInThread ==
    /\ Press
    /\ thread # NoThread /\ thread.state = "loaded" /\ thread.sending = "no"
    /\ thread' = [thread EXCEPT !.sending = "sent"]
    /\ UNCHANGED <<held, page, reread, views, opened, detail, asks, heard>>

\* The comment is saved with its answer under way, or it fails, saved or not.
ThreadReaches ==
    /\ thread # NoThread /\ thread.sending = "sent"
    /\ \/ /\ Said < MaxComments
          /\ comments' = Commented(thread.c)
          /\ thread' \in {[thread EXCEPT !.sending = "saved", !.saved = Said + 1],
                          [thread EXCEPT !.sending = "failed"]}
       \/ /\ thread' = [thread EXCEPT !.sending = "failed"]
          /\ UNCHANGED comments
    /\ UNCHANGED <<invoices, periods, elsewhere, presses, page, reread, views, opened, detail, asks, heard>>

\* The saved comment goes after the ones already shown.
withSaved(shown, comment) == Append(shown, comment)

ThreadAnswers ==
    /\ thread # NoThread /\ thread.sending \in {"saved", "failed"}
    /\ thread' = [thread EXCEPT !.sending = "no", !.saved = 0,
                     !.shown = IF thread.sending = "saved" THEN withSaved(@, thread.saved) ELSE @]
    /\ UNCHANGED <<deskVars, page, reread, views, opened, detail, asks, heard>>

-----------------------------------------------------------------------------
PageElsewhere ==
    /\ \E c \in periods :
          \/ \E move \in DOMAIN AsksFor \ {"adjust"} : MovedElsewhere(move, c)
          \/ CommentedElsewhere(c)
          \/ Renewed(c + 1)
    /\ UNCHANGED pageVars

PageInit ==
    /\ periods \in {1..n : n \in Contracts}
    /\ page = Read
    /\ reread = [going |-> FALSE, read |-> NoRead]
    /\ views = [v \in Views |-> NewView]
    /\ opened = 0 /\ detail = FALSE
    /\ asks = {} /\ heard = {}
    /\ thread = NoThread

Creator ==
    \/ \E c \in Contracts : OpenSheet(c)
    \/ \E into \in {"page", "detail"} : LeaveSheet(into)
    \/ OpenDetail \/ CloseDetail
    \/ \E v \in Views : \/ \E tab \in Tabs : SelectTab(v, tab)
                        \/ AskFirst(v) \/ TakeBack(v) \/ SendMove(v) \/ SendComment(v)

PageAnswers ==
    \/ \E a \in asks : TurnReaches(a) \/ CommentReaches(a) \/ TurnLands(a) \/ CommentLands(a) \/ AskFails(a)
    \/ RereadReads \/ RereadLands

AdminThread ==
    \/ \E c \in Contracts : OpenThread(c)
    \/ ThreadLoads \/ CloseThread \/ SendInThread \/ ThreadReaches \/ ThreadAnswers

PageNext == Creator \/ PageAnswers \/ AdminThread \/ PageElsewhere

-----------------------------------------------------------------------------
(* A comment stands once in a thread, whether the page's own answer or a   *)
(* read of the page brought it first.                                      *)
CommentShownOnce ==
    \A v \in Views : (v = "current" \/ Sheet) => IsInjective(Thread(v))

(* A comment the creator has seen in a thread stays in it while the view   *)
(* shows the same invoice, though the read that replaces the page may be   *)
(* older than the comment.                                                 *)
ShownStaysShown ==
    [][\A v \in Views :
          (v = "current" \/ (Sheet /\ Sheet')) /\ InView(v)' = InView(v)
          => Range(Thread(v)) \subseteq Range(Thread(v)')]_<<deskVars, pageVars>>

(* A move on the invoice of the current period is never under way twice:   *)
(* its control stays busy when the question is taken back and asked again, *)
(* and the page read in between offers the next move, not the same one.    *)
NeverSentTwice ==
    \A c \in Contracts, what \in CreatorMoves :
        Cardinality({a \in asks : a.view = "current" /\ a.what = what /\ a.c = c}) <= 1

\* The page shows all it was told its moves came to.
PageCaughtUp == \A h \in heard : h[1] \in DOMAIN page /\ page[h[1]].step >= h[2]

(* The admin's end of a thread holds comments of its own invoice only, each*)
(* once and oldest first.                                                  *)
ThreadReadsInOrder ==
    thread # NoThread =>
        /\ Range(thread.shown) \subseteq Range(comments[thread.c])
        /\ \A i, j \in DOMAIN thread.shown : i < j => thread.shown[i] < thread.shown[j]
=============================================================================
