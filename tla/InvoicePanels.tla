---------------------------- MODULE InvoicePanels ----------------------------
(***************************************************************************)
(* The admin's Rate & Invoicing board: the table, the one popup held over  *)
(* it (a money column's breakdown or the whole Rincian panel), and the     *)
(* forms inside the panel.  A breakdown is read when a popup opens and     *)
(* kept under the amounts its row showed; a move keeps the panel open,     *)
(* forgets what was read and asks for everything again.  Requests are      *)
(* answered in any order, and a form that is gone when its answer comes    *)
(* back no longer hears it, though the board does.                         *)
(***************************************************************************)
EXTENDS InvoiceDesk, FiniteSets

CONSTANTS
    Filters,        \* the sets of steps the table may be filtered to
    MaxLoads,       \* bound: breakdowns being read at once
    MaxCalls        \* bound: moves under way at once

ASSUME PanelsAssumption == {MaxLoads, MaxCalls} \subseteq Nat

VARIABLES
    filter,         \* the steps the table shows
    rows,           \* the table as it was last read
    refreshing,     \* whether the table is being read again
    popup,          \* the popup on screen, or Closed
    content,        \* whether a content's detail stands in the popup's place
    forms,          \* the panel's forms: [adjusting, finalizing, proof]
    cache,          \* the breakdowns kept: [key, lines]
    loads,          \* the breakdowns being read
    calls,          \* the moves under way
    told            \* what the board was told: which invoice reached which step

panelVars == <<filter, rows, refreshing, popup, content, forms, cache, loads, calls, told>>

Closed == [kind |-> "none"]
Gone == [c |-> 0]
Nothing == -1       \* no lines: not arrived, or none to show

Kinds == {"money", "all"}
RowSet == [c : Contracts, step : 0..LastStep, lines : 0..MaxLines]
LineSet == 0..MaxLines \cup {Nothing}
Popups == [kind : Kinds, row : RowSet, lines : LineSet, status : {"loading", "ready", "failed", "missing"}]
Moves == {"adjust", "finalize", "upload"}
ProofStates == {"idle", "picked", "uploading", "failed", "uploaded"}

PanelsTypeOK ==
    /\ filter \in Filters
    /\ rows \in [Contracts -> RowSet \cup {Gone}]
    /\ refreshing \in BOOLEAN /\ content \in BOOLEAN
    /\ popup \in Popups \cup {Closed}
    /\ forms \in [adjusting : BOOLEAN, finalizing : BOOLEAN, proof : ProofStates]
    /\ cache \subseteq [key : Contracts \X (0..MaxLines), lines : 0..MaxLines]
    /\ loads \subseteq [latest : BOOLEAN, popup : Popups]
    /\ calls \subseteq [id : 1..MaxCalls, what : Moves, row : RowSet,
                        at : {"form", "panel", "gone"}, answer : {"sent", "ok", "refused", "lost"}]
    /\ told \subseteq Contracts \X {1, 3}

RowOf(c) == [c |-> c, step |-> invoices[c].step, lines |-> invoices[c].lines]

Table == [c \in Contracts |-> IF invoices[c].step \in filter THEN RowOf(c) ELSE Gone]

-----------------------------------------------------------------------------
(* What is on screen *)

Panel == popup # Closed /\ ~content /\ popup.kind = "all"
Body == Panel /\ popup.status = "ready"

\* The table's fresh row while it shows one; the one the panel opened with otherwise.
Row == IF rows[popup.row.c] = Gone THEN popup.row ELSE rows[popup.row.c]

canAdjust(row) == row.step = 0
canUploadProof(row) == row.step = 2

FinalizeDialog == Panel /\ forms.finalizing /\ canAdjust(Row)

Busy(what) == \E k \in calls : k.what = what /\ k.at = "form"

NoForms == [adjusting |-> FALSE, finalizing |-> FALSE, proof |-> "idle"]
BodyLeft(f) == [f EXCEPT !.proof = "idle"]

\* What a request still has on screen once its form, its panel's body or its panel has gone.
FormGone(what) == {IF k.what = what /\ k.at = "form" THEN [k EXCEPT !.at = "panel"] ELSE k : k \in calls}
BodyGone(cs) == {IF k.what # "finalize" THEN [k EXCEPT !.at = "gone"] ELSE k : k \in cs}
PanelGone == {[k EXCEPT !.at = "gone"] : k \in calls}

-----------------------------------------------------------------------------
(* The breakdowns *)

readKey(row) == <<row.c, row.lines>>

Outdated == {[l EXCEPT !.latest = FALSE] : l \in loads}

Loading(kind, row) == [kind |-> kind, row |-> row, lines |-> Nothing, status |-> "loading"]

fetchFor(kind, row) ==
    /\ Cardinality(loads) < MaxLoads
    /\ loads' = Outdated \cup {[latest |-> TRUE, popup |-> Loading(kind, row)]}
    /\ popup' = Loading(kind, row)

\* The admin presses a money cell or a row's Rincian.
Open(kind, c) ==
    /\ Press
    /\ popup = Closed
    /\ rows[c] # Gone
    /\ LET known == {e \in cache : e.key = readKey(rows[c])}
       IN IF known = {}
          THEN fetchFor(kind, rows[c])
          ELSE /\ loads' = Outdated
               /\ \E e \in known :
                     popup' = [kind |-> kind, row |-> rows[c], lines |-> e.lines, status |-> "ready"]
    /\ forms' = NoForms
    /\ UNCHANGED <<held, filter, rows, refreshing, content, cache, calls, told>>

\* The server reads the breakdown, has none to show, or fails.
LoadReads(l) ==
    /\ l.popup.status = "loading"
    /\ \E status \in {"ready", "failed", "missing"} :
          loads' = (loads \ {l}) \cup
              {[l EXCEPT !.popup.status = status,
                         !.popup.lines = IF status = "ready" THEN invoices[l.popup.row.c].lines ELSE Nothing]}
    /\ UNCHANGED <<deskVars, filter, rows, refreshing, popup, content, forms, cache, calls, told>>

\* Only the latest request may fill the popup and the cache.
Counts_Any(l) == TRUE
Counts(l) == l.latest

Kept(p) == {e \in cache : e.key # readKey(p.row)} \cup {[key |-> readKey(p.row), lines |-> p.lines]}

LoadLands(l) ==
    /\ l.popup.status # "loading"
    /\ loads' = loads \ {l}
    /\ popup' = IF Counts(l) THEN l.popup ELSE popup
    /\ cache' = IF Counts(l) /\ l.popup.status = "ready" THEN Kept(l.popup) ELSE cache
    /\ UNCHANGED <<deskVars, filter, rows, refreshing, content, forms, calls, told>>

Retry ==
    /\ Press
    /\ popup # Closed /\ ~content /\ ~FinalizeDialog
    /\ popup.status = "failed"
    /\ fetchFor(popup.kind, IF popup.kind = "all" THEN Row ELSE popup.row)
    /\ UNCHANGED <<held, filter, rows, refreshing, content, forms, cache, calls, told>>

closeAll ==
    /\ popup' = Closed
    /\ content' = FALSE
    /\ forms' = NoForms
    /\ loads' = Outdated
    /\ calls' = PanelGone

\* Tutup, Escape or a press outside; none of them waits for a move under way.
Close ==
    /\ Press
    /\ popup # Closed /\ ~content /\ ~FinalizeDialog
    /\ closeAll
    /\ UNCHANGED <<held, filter, rows, refreshing, cache, told>>

\* A content's name swaps its detail in; the form being adjusted is asked for again on return.
OpenContent ==
    /\ Press
    /\ popup # Closed /\ ~content /\ ~FinalizeDialog
    /\ popup.status = "ready"
    /\ content' = TRUE
    /\ forms' = [BodyLeft(forms) EXCEPT !.finalizing = FALSE]
    /\ calls' = PanelGone
    /\ UNCHANGED <<held, filter, rows, refreshing, popup, cache, loads, told>>

CloseContent ==
    /\ Press
    /\ content
    /\ content' = FALSE
    /\ UNCHANGED <<held, filter, rows, refreshing, popup, forms, cache, loads, calls, told>>

\* A decision taken there may move the amounts; it closes both and forgets what was read.
Decided ==
    /\ Press
    /\ content
    /\ LET c == popup.row.c
       IN invoices' \in {invoices} \cup
             IF invoices[c].step = 0 /\ invoices[c].lines < MaxLines
             THEN {[invoices EXCEPT ![c].lines = @ + 1]} ELSE {}
    /\ cache' = {}
    /\ closeAll
    /\ refreshing' = TRUE
    /\ UNCHANGED <<comments, periods, filter, rows, told>>

-----------------------------------------------------------------------------
(* The moves *)

Ids == {k.id : k \in calls}

Call(what) ==
    /\ Cardinality(calls) < MaxCalls
    /\ calls' = calls \cup {[id |-> Min((1..MaxCalls) \ Ids), what |-> what, row |-> Row,
                             at |-> "form", answer |-> "sent"]}

AskAdjust ==
    /\ Press
    /\ Panel /\ ~FinalizeDialog
    /\ canAdjust(Row)
    /\ forms' = [forms EXCEPT !.adjusting = TRUE]
    /\ UNCHANGED <<held, filter, rows, refreshing, popup, content, cache, loads, calls, told>>

CancelAdjust ==
    /\ Press
    /\ Body /\ forms.adjusting /\ ~FinalizeDialog
    /\ ~Busy("adjust")
    /\ forms' = [forms EXCEPT !.adjusting = FALSE]
    /\ UNCHANGED <<held, filter, rows, refreshing, popup, content, cache, loads, calls, told>>

MayAdjust == Body /\ forms.adjusting /\ ~FinalizeDialog /\ ~Busy("adjust")

SubmitAdjust ==
    /\ Press
    /\ MayAdjust
    /\ Call("adjust")
    /\ UNCHANGED <<held, filter, rows, refreshing, popup, content, forms, cache, loads, told>>

\* The contract has ended and no part waits for data: the rows on this board are such.
AskFinalize ==
    /\ Press
    /\ Panel /\ ~forms.finalizing
    /\ canAdjust(Row)
    /\ forms' = [forms EXCEPT !.finalizing = TRUE]
    /\ UNCHANGED <<held, filter, rows, refreshing, popup, content, cache, loads, calls, told>>

\* Escape closes the dialog while its answer is under way, and only Batal waits for it.
CancelFinalize ==
    /\ Press
    /\ FinalizeDialog
    /\ forms' = [forms EXCEPT !.finalizing = FALSE]
    /\ calls' = FormGone("finalize")
    /\ UNCHANGED <<held, filter, rows, refreshing, popup, content, cache, loads, told>>

MayFinalize == FinalizeDialog /\ ~Busy("finalize")

ConfirmFinalize ==
    /\ Press
    /\ MayFinalize
    /\ Call("finalize")
    /\ UNCHANGED <<held, filter, rows, refreshing, popup, content, forms, cache, loads, told>>

UploadShown == Body /\ canUploadProof(Row) /\ forms.proof # "uploaded"

MayPick_WhileUploading == UploadShown
MayPick == UploadShown /\ forms.proof # "uploading"

\* Cancelling the picker leaves no file, and a wrong one is named and never sent.
Pick(found) ==
    /\ Press
    /\ MayPick
    /\ forms' = [forms EXCEPT !.proof = found]
    /\ UNCHANGED <<held, filter, rows, refreshing, popup, content, cache, loads, calls, told>>

\* The question before it is answered yes: it holds nothing of its own.
SendProof ==
    /\ Press
    /\ UploadShown
    /\ forms.proof \in {"picked", "failed"}
    /\ Call("upload")
    /\ forms' = [forms EXCEPT !.proof = "uploading"]
    /\ UNCHANGED <<held, filter, rows, refreshing, popup, content, cache, loads, told>>

\* The server takes the move, and its answer may get lost; or refuses it; or never sees it.
Reaches(k) ==
    /\ k.answer = "sent"
    /\ \E a \in {"ok", "refused", "lost"}, took \in BOOLEAN :
          /\ took => Takes(k.what, k.row.c)
          /\ a = "ok" => took
          /\ a = "refused" => ~took /\ ~Takes(k.what, k.row.c)
          /\ invoices' = IF took THEN Moved(k.what, k.row.c) ELSE invoices
          /\ calls' = (calls \ {k}) \cup {[k EXCEPT !.answer = a]}
    /\ UNCHANGED <<comments, periods, elsewhere, presses, filter, rows, refreshing, popup, content, forms, cache, loads, told>>

MoveReaches(k) == k.what \in {"adjust", "finalize"} /\ Reaches(k)

UploadReaches(k) == k.what = "upload" /\ Reaches(k)

moved_KeepsTheCache(k, left, f) ==
    /\ cache' = cache
    /\ fetchFor("all", k.row)
    /\ forms' = [BodyLeft(f) EXCEPT !.adjusting = FALSE]
    /\ calls' = BodyGone(left)
    /\ refreshing' = TRUE

\* What was read is forgotten and the breakdown is read again, in the panel of the row the
\* move was made on, whatever is on screen by now.
moved(k, left, f) ==
    /\ cache' = {}
    /\ fetchFor("all", k.row)
    /\ forms' = [BodyLeft(f) EXCEPT !.adjusting = FALSE]
    /\ calls' = BodyGone(left)
    /\ refreshing' = TRUE

AdjustLands(k) ==
    /\ k.what = "adjust" /\ k.answer = "ok"
    /\ moved(k, calls \ {k}, forms)
    /\ UNCHANGED <<deskVars, filter, rows, content, told>>

FinalizeLands(k) ==
    /\ k.what = "finalize" /\ k.answer = "ok"
    /\ IF k.at = "gone"
       THEN moved(k, calls \ {k}, forms)
       ELSE moved(k, FormGone("finalize") \ {k, [k EXCEPT !.at = "panel"]},
                  [forms EXCEPT !.finalizing = FALSE])
    /\ told' = told \cup {<<k.row.c, 1>>}
    /\ UNCHANGED <<deskVars, filter, rows, content>>

uploaded_TableLeftAsItIs(k) ==
    /\ cache' = {}
    /\ refreshing' = refreshing
    /\ told' = told \cup {<<k.row.c, 3>>}

\* An upload keeps the panel on the uploaded file; the table is read again.
uploaded(k) ==
    /\ cache' = {}
    /\ refreshing' = TRUE
    /\ told' = told \cup {<<k.row.c, 3>>}

UploadLands(k) ==
    /\ k.what = "upload" /\ k.answer = "ok"
    /\ uploaded(k)
    /\ forms' = IF k.at = "form" THEN [forms EXCEPT !.proof = "uploaded"] ELSE forms
    /\ calls' = calls \ {k}
    /\ UNCHANGED <<deskVars, filter, rows, popup, content, loads>>

\* A refusal or a failure is said in the form that asked, if it is still there.
MoveFails(k) ==
    /\ k.answer \in {"refused", "lost"}
    /\ forms' = IF k.what = "upload" /\ k.at = "form" THEN [forms EXCEPT !.proof = "failed"] ELSE forms
    /\ calls' = calls \ {k}
    /\ UNCHANGED <<deskVars, filter, rows, refreshing, popup, content, cache, loads, told>>

\* The table read again.  A frozen row takes the panel's two moves with it.
RefreshLands ==
    /\ refreshing
    /\ rows' = Table
    /\ refreshing' = FALSE
    /\ UNCHANGED <<deskVars, filter, popup, content, forms, cache, loads, told>>
    /\ calls' = IF FinalizeDialog /\ ~FinalizeDialog' THEN FormGone("finalize") ELSE calls

\* A press on a header writes the order into the address, which reads the table again.
SortBy ==
    /\ Press
    /\ popup = Closed
    /\ refreshing' = TRUE
    /\ UNCHANGED <<held, filter, rows, popup, content, forms, cache, loads, calls, told>>

BoardElsewhere ==
    /\ \E c \in Contracts : AmountsMove(c) \/ \E move \in {"finalize", "acknowledge", "upload"} : MovedElsewhere(move, c)
    /\ UNCHANGED panelVars

-----------------------------------------------------------------------------
PanelsInit ==
    /\ filter \in Filters
    /\ rows = Table
    /\ refreshing = FALSE
    /\ popup = Closed
    /\ content = FALSE
    /\ forms = NoForms
    /\ cache = {} /\ loads = {} /\ calls = {}
    /\ told = {}

Admin ==
    \/ \E kind \in Kinds, c \in Contracts : Open(kind, c)
    \/ Retry \/ Close \/ OpenContent \/ CloseContent \/ Decided
    \/ AskAdjust \/ CancelAdjust \/ SubmitAdjust
    \/ AskFinalize \/ CancelFinalize \/ ConfirmFinalize
    \/ \E found \in {"idle", "picked"} : Pick(found)
    \/ SendProof
    \/ SortBy

Answers ==
    \/ \E l \in loads : LoadReads(l) \/ LoadLands(l)
    \/ \E k \in calls : \/ MoveReaches(k) \/ UploadReaches(k)
                       \/ AdjustLands(k) \/ FinalizeLands(k) \/ UploadLands(k) \/ MoveFails(k)
    \/ RefreshLands

PanelsNext == Admin \/ Answers \/ BoardElsewhere

-----------------------------------------------------------------------------
(* A breakdown that arrives fills the popup it was asked for: it never     *)
(* brings back one that was closed, nor takes the place of another.        *)
AnswersNeverReopen ==
    [][\A l \in loads : LoadLands(l) =>
          popup' = popup
          \/ /\ popup # Closed
             /\ popup'.row.c = popup.row.c
             /\ popup'.kind = popup.kind]_<<deskVars, panelVars>>

(* Once the board has frozen an invoice, neither the popup nor     *)
(* anything kept for the next one holds lines read before the freeze.      *)
FrozenIsShownFrozen ==
    \A c \in Contracts : <<c, 1>> \in told =>
        /\ \A e \in cache : e.key[1] = c => e.lines = invoices[c].lines
        /\ popup # Closed /\ popup.row.c = c /\ popup.status = "ready" => popup.lines = invoices[c].lines

(* A form on screen never has two requests under way: its buttons wait for *)
(* the answer to the first.                                                *)
OneCallPerForm ==
    \A what \in Moves : Cardinality({k \in calls : k.what = what /\ k.at = "form"}) <= 1

\* The table shows all the board was told, unless its filter has let the row go.
BoardCaughtUp == \A t \in told : rows[t[1]] = Gone \/ rows[t[1]].step >= t[2]
=============================================================================
