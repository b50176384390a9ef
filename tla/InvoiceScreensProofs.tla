------------------------- MODULE InvoiceScreensProofs -------------------------
(***************************************************************************)
(* The screens of an invoice, for any contracts, any number of presses and *)
(* any number of requests under way.                                       *)
(*                                                                         *)
(* The admin's board: a breakdown that arrives late never changes what     *)
(* stands on screen, a form never has two requests under way, and a frozen *)
(* invoice is never shown with lines read before the freeze.  Only one     *)
(* breakdown is the latest, and it is the one the popup waits for; a       *)
(* request outlives its form only as one that is no longer the form's; and *)
(* a freeze the board was told of had already reached the server, where it *)
(* stopped the lines for good.                                             *)
(*                                                                         *)
(* The creator's page: no comment stands twice in a thread or leaves it,   *)
(* and no move is under way twice.  What one read brought is no newer than *)
(* the server and no older than the page it replaces (PageIsRead); a       *)
(* comment saved in one view is in no other's list (SentOnce); and a move  *)
(* under way is one the page offered at its step, so that its control is   *)
(* lost only to a page that no longer offers it (MovesOnce).               *)
(***************************************************************************)
EXTENDS InvoiceScreens, FiniteSetTheorems, TLAPS

CallShape(k) ==
    /\ k = [id |-> k.id, what |-> k.what, row |-> k.row, at |-> k.at, answer |-> k.answer]
    /\ k.what \in Moves
    /\ k.row \in RowSet
    /\ k.at \in {"form", "panel", "gone"}
    /\ k.answer \in {"sent", "ok", "refused", "lost"}

BoardTyped ==
    /\ invoices \in [Contracts -> Invoices]
    /\ rows \in [Contracts -> RowSet \cup {Gone}]
    /\ popup \in Popups \cup {Closed} /\ (content => popup # Closed)
    /\ forms \in [adjusting : BOOLEAN, finalizing : BOOLEAN, proof : ProofStates]
    /\ cache \subseteq [key : Contracts \X (0..MaxLines), lines : LineSet]
    /\ loads \subseteq [latest : BOOLEAN, popup : Popups]
    /\ \A k \in calls : CallShape(k)

\* The latest breakdown is the one the popup on screen waits for.
LatestIsOnScreen ==
    \A l \in loads : l.latest =>
        popup # Closed /\ popup.row = l.popup.row /\ popup.kind = l.popup.kind

\* A request is its form's only while the panel stands, and once.
NothingBehind == popup = Closed \/ content => \A k \in calls : k.at = "gone"

UploadIsShown == \A k \in calls : k.what = "upload" /\ k.at = "form" => forms.proof = "uploading"

OneEach == \A j, k \in calls : j.what = k.what /\ j.at = "form" /\ k.at = "form" => j = k

\* A freeze that was answered had reached the server.
FreezeHappened ==
    /\ \A k \in calls : k.what = "finalize" /\ k.answer = "ok" => invoices[k.row.c].step # 0
    /\ \A c \in Contracts : <<c, 1>> \in told => invoices[c].step # 0

\* What was read, kept or is about to land for a frozen invoice are its frozen lines.
NothingStale ==
    \A c \in Contracts : <<c, 1>> \in told =>
        /\ \A e \in cache : e.key[1] = c => e.lines = invoices[c].lines
        /\ popup # Closed /\ popup.row.c = c /\ popup.status = "ready" => popup.lines = invoices[c].lines
        /\ \A l \in loads : l.latest /\ l.popup.row.c = c /\ l.popup.status = "ready"
                            => l.popup.lines = invoices[c].lines

FormsInv == NothingBehind /\ UploadIsShown /\ OneEach
FrozenInv == FreezeHappened /\ NothingStale

BoardInv == BoardTyped /\ LatestIsOnScreen /\ FormsInv /\ FrozenInv

\* On the creator's side the board stands untouched.
ScreensInv ==
    /\ side \in Sides
    /\ side = "admin" => BoardInv
    /\ side = "creator" => calls = {} /\ loads = {} /\ told = {}
-----------------------------------------------------------------------------
(* What the board is built from.                                           *)

LEMMA PopupShape ==
    ASSUME BoardTyped, popup # Closed
    PROVE  /\ popup \in Popups /\ popup.kind \in Kinds
           /\ popup.row \in RowSet /\ popup.row.c \in Contracts
           /\ Row \in RowSet
    <1>1. popup \in Popups /\ popup.kind \in Kinds /\ popup.row \in RowSet
      BY DEF BoardTyped, Popups
    <1>2. popup.row.c \in Contracts
      BY <1>1 DEF RowSet
    <1>. QED  BY <1>1, <1>2 DEF BoardTyped, Row

LEMMA PopupIsNotClosed ==
    ASSUME NEW p \in Popups
    PROVE  p # Closed
    <1>1. p.kind \in Kinds
      BY DEF Popups
    <1>. QED  BY <1>1 DEF Closed, Kinds

\* Asked for again, a breakdown is the only latest one, and it is not there yet.
LEMMA Fetched ==
    ASSUME BoardTyped, NEW kind \in Kinds, NEW row \in RowSet, fetchFor(kind, row)
    PROVE  /\ loads' \subseteq [latest : BOOLEAN, popup : Popups]
           /\ popup' \in Popups /\ popup' # Closed
           /\ popup'.status = "loading"
           /\ \A l \in loads' : l.latest => l.popup = popup'
    <1>1. Loading(kind, row) \in Popups /\ Loading(kind, row).status = "loading"
      BY DEF Loading, Popups, LineSet
    <1>2. Outdated \subseteq [latest : BOOLEAN, popup : Popups] /\ \A l \in Outdated : ~l.latest
      BY DEF BoardTyped, Outdated
    <1>3. popup' = Loading(kind, row)
          /\ loads' = Outdated \cup {[latest |-> TRUE, popup |-> Loading(kind, row)]}
      BY DEF fetchFor
    <1>4. popup' # Closed
      BY <1>1, <1>3, PopupIsNotClosed
    <1>5. [latest |-> TRUE, popup |-> popup'] \in [latest : BOOLEAN, popup : Popups]
      BY <1>1, <1>3
    <1>6. loads' \subseteq [latest : BOOLEAN, popup : Popups]
      BY <1>2, <1>3, <1>5
    <1>7. \A l \in loads' : l.latest => l.popup = popup'
      BY <1>2, <1>3
    <1>. QED  BY <1>1, <1>3, <1>4, <1>6, <1>7

LEMMA AllOutdated ==
    ASSUME BoardTyped
    PROVE  /\ Outdated \subseteq [latest : BOOLEAN, popup : Popups]
           /\ \A l \in Outdated : ~l.latest
    BY DEF BoardTyped, Outdated

\* What becomes of the requests under way when something leaves the screen.
LEMMA CallsLeft ==
    ASSUME NEW S, \A k \in S : CallShape(k), NEW k \in S
    PROVE  /\ CallShape([k EXCEPT !.at = "gone"]) /\ [k EXCEPT !.at = "gone"].at = "gone"
           /\ CallShape([k EXCEPT !.at = "panel"]) /\ [k EXCEPT !.at = "panel"].at = "panel"
           /\ [k EXCEPT !.at = "gone"].what = k.what /\ [k EXCEPT !.at = "panel"].what = k.what
           /\ [k EXCEPT !.at = "gone"].answer = k.answer /\ [k EXCEPT !.at = "panel"].answer = k.answer
           /\ [k EXCEPT !.at = "gone"].row = k.row /\ [k EXCEPT !.at = "panel"].row = k.row
    BY DEF CallShape

\* A set of requests that adds none to a form, and takes none further.
Fewer(S) ==
    \A k \in S : /\ CallShape(k)
                 /\ k.at = "form" => k \in calls
                 /\ \E j \in calls : /\ j.what = k.what /\ j.answer = k.answer /\ j.row = k.row
                                     /\ j.at = "gone" => k.at = "gone"

LEMMA FormGoneIsFewer ==
    ASSUME BoardTyped, NEW what
    PROVE  /\ Fewer(FormGone(what))
           /\ \A k \in FormGone(what) : k.what = what => k.at # "form"
    <1>1. \A k \in calls : CallShape(k)
      BY DEF BoardTyped
    <1>2. ASSUME NEW k \in FormGone(what)
          PROVE  /\ CallShape(k)
                 /\ k.at = "form" => k \in calls
                 /\ k.what = what => k.at # "form"
                 /\ \E j \in calls : /\ j.what = k.what /\ j.answer = k.answer /\ j.row = k.row
                                     /\ j.at = "gone" => k.at = "gone"
      <2>1. PICK j \in calls : k = IF j.what = what /\ j.at = "form" THEN [j EXCEPT !.at = "panel"] ELSE j
        BY DEF FormGone
      <2>2. CallShape(j)
        BY <1>1
      <2>3. CASE j.what = what /\ j.at = "form"
        <3>1. k = [j EXCEPT !.at = "panel"]
          BY <2>1, <2>3
        <3>2. /\ CallShape(k) /\ k.at = "panel" /\ k.what = j.what /\ k.answer = j.answer /\ k.row = j.row
          BY <1>1, <3>1, CallsLeft
        <3>. QED  BY <2>3, <3>2
      <2>4. CASE ~(j.what = what /\ j.at = "form")
        BY <2>1, <2>2, <2>4
      <2>. QED  BY <2>3, <2>4
    <1>. QED  BY <1>2 DEF Fewer

LEMMA PanelGoneIsFewer ==
    ASSUME BoardTyped
    PROVE  Fewer(PanelGone) /\ \A k \in PanelGone : k.at = "gone"
    <1>1. \A k \in calls : CallShape(k)
      BY DEF BoardTyped
    <1>2. ASSUME NEW k \in PanelGone
          PROVE  /\ CallShape(k) /\ k.at = "gone"
                 /\ \E j \in calls : j.what = k.what /\ j.answer = k.answer /\ j.row = k.row
      <2>1. PICK j \in calls : k = [j EXCEPT !.at = "gone"]
        BY DEF PanelGone
      <2>. QED  BY <1>1, <2>1, CallsLeft
    <1>3. \A k \in PanelGone : k.at = "gone" /\ k.at # "form"
      BY <1>2
    <1>4. Fewer(PanelGone)
      BY <1>2, <1>3 DEF Fewer
    <1>. QED  BY <1>3, <1>4

LEMMA BodyGoneIsFewer ==
    ASSUME BoardTyped, NEW S, Fewer(S)
    PROVE  /\ Fewer(BodyGone(S))
           /\ \A k \in BodyGone(S) : k.what # "finalize" => k.at = "gone"
           /\ (\A k \in S : k.at = "gone") => \A k \in BodyGone(S) : k.at = "gone"
           /\ \A k \in BodyGone(S) : k.at = "form" => k \in S
    <1>1. \A k \in S : CallShape(k)
      BY DEF Fewer
    <1>2. ASSUME NEW k \in BodyGone(S)
          PROVE  /\ CallShape(k)
                 /\ k.at = "form" => k \in S
                 /\ k.what # "finalize" => k.at = "gone"
                 /\ \E j \in S : /\ j.what = k.what /\ j.answer = k.answer /\ j.row = k.row
                                 /\ j.at = "gone" => k.at = "gone"
      <2>1. PICK j \in S : k = IF j.what # "finalize" THEN [j EXCEPT !.at = "gone"] ELSE j
        BY DEF BodyGone
      <2>2. CallShape(j)
        BY <1>1
      <2>3. CASE j.what # "finalize"
        <3>1. k = [j EXCEPT !.at = "gone"]
          BY <2>1, <2>3
        <3>2. /\ CallShape(k) /\ k.at = "gone"
              /\ k.what = j.what /\ k.answer = j.answer /\ k.row = j.row
          BY <1>1, <3>1, CallsLeft
        <3>. QED  BY <3>2
      <2>4. CASE j.what = "finalize"
        BY <2>1, <2>2, <2>4
      <2>. QED  BY <2>3, <2>4
    <1>3. \A k \in BodyGone(S) : k.at = "form" => k \in calls
      BY <1>2 DEF Fewer
    <1>4. ASSUME NEW k \in BodyGone(S)
          PROVE  \E j \in calls : /\ j.what = k.what /\ j.answer = k.answer /\ j.row = k.row
                                  /\ j.at = "gone" => k.at = "gone"
      <2>1. PICK i \in S : /\ i.what = k.what /\ i.answer = k.answer /\ i.row = k.row
                           /\ i.at = "gone" => k.at = "gone"
        BY <1>2
      <2>2. PICK j \in calls : /\ j.what = i.what /\ j.answer = i.answer /\ j.row = i.row
                               /\ j.at = "gone" => i.at = "gone"
        BY DEF Fewer
      <2>3. /\ j.what = k.what /\ j.answer = k.answer /\ j.row = k.row
            /\ j.at = "gone" => k.at = "gone"
        BY <2>1, <2>2
      <2>. QED  BY <2>3
    <1>5. (\A k \in S : k.at = "gone") => \A k \in BodyGone(S) : k.at = "gone"
      BY <1>2
    <1>6. Fewer(BodyGone(S))
      BY <1>2, <1>3, <1>4 DEF Fewer
    <1>7. \A k \in BodyGone(S) : (k.what # "finalize" => k.at = "gone") /\ (k.at = "form" => k \in S)
      BY <1>2
    <1>. QED  BY <1>5, <1>6, <1>7

LEMMA FewerStays ==
    ASSUME NEW S, NEW T, Fewer(S), T \subseteq S
    PROVE  Fewer(T)
    BY DEF Fewer

LEMMA AllIsFewer ==
    ASSUME BoardTyped
    PROVE  Fewer(calls)
    BY DEF BoardTyped, Fewer

-----------------------------------------------------------------------------
(* What a step may not do: move the lines of a frozen invoice.             *)

FrozenStays ==
    \A c \in Contracts : invoices[c].step # 0 =>
        invoices'[c].step # 0 /\ invoices'[c].lines = invoices[c].lines

LEMMA MovedStays ==
    ASSUME invoices \in [Contracts -> Invoices],
           NEW move \in Moves \cup {"acknowledge"}, NEW c \in Contracts,
           Takes(move, c), invoices' = Moved(move, c)
    PROVE  /\ invoices' \in [Contracts -> Invoices] /\ FrozenStays
           /\ move = "finalize" => invoices'[c].step # 0
    <1>1. invoices[c].step \in 0..2 /\ invoices[c].lines \in 0..MaxLines
      BY DEF Invoices, Takes, AsksFor, Moves
    <1>2. CASE move = "adjust"
      BY <1>2 DEF Moved, FrozenStays
    <1>3. CASE move # "adjust"
      <2>1. invoices' = [invoices EXCEPT ![c].step = @ + 1]
        BY <1>3 DEF Moved
      <2>2. \A d \in Contracts : invoices[d].step \in 0..4 /\ invoices[d].lines \in 0..MaxLines
        BY DEF Invoices, LastStep
      <2>3. /\ invoices'[c].step = invoices[c].step + 1
            /\ invoices'[c].lines = invoices[c].lines
            /\ \A d \in Contracts \ {c} : invoices'[d] = invoices[d]
        BY <2>1 DEF Invoices
      <2>4. invoices' \in [Contracts -> Invoices]
        BY <1>1, <2>1 DEF Invoices, LastStep
      <2>. QED  BY <1>1, <2>2, <2>3, <2>4 DEF FrozenStays
    <1>. QED  BY <1>2, <1>3

LEMMA LinesStay ==
    ASSUME invoices \in [Contracts -> Invoices], NEW c \in Contracts,
           invoices[c].step = 0, invoices[c].lines < MaxLines,
           invoices' = [invoices EXCEPT ![c].lines = @ + 1]
    PROVE  invoices' \in [Contracts -> Invoices] /\ FrozenStays
    <1>1. invoices[c].lines + 1 \in 0..MaxLines
      BY DeskAssumption DEF Invoices
    <1>2. \A d \in Contracts \ {c} : invoices'[d] = invoices[d]
      OBVIOUS
    <1>3. invoices' \in [Contracts -> Invoices]
      BY <1>1 DEF Invoices
    <1>. QED  BY <1>2, <1>3 DEF FrozenStays

-----------------------------------------------------------------------------
(* Steps that leave the popup and what was read as they are.               *)

FinalizedOk ==
    \A k \in calls : k.what = "finalize" /\ k.answer = "ok" => invoices[k.row.c].step # 0

CallsInv == FormsInv /\ (\A k \in calls : CallShape(k)) /\ FinalizedOk

LEMMA PopupStays ==
    ASSUME BoardInv, CallsInv', FrozenStays,
           invoices' \in [Contracts -> Invoices],
           rows' \in [Contracts -> RowSet \cup {Gone}],
           forms' \in [adjusting : BOOLEAN, finalizing : BOOLEAN, proof : ProofStates],
           UNCHANGED <<popup, cache, loads, told>>, content' => popup' # Closed
    PROVE  BoardInv'
    <1>1. BoardTyped'
      BY DEF BoardInv, BoardTyped, CallsInv
    <1>2. LatestIsOnScreen'
      BY DEF BoardInv, LatestIsOnScreen
    <1>3. FreezeHappened'
      BY DEF BoardInv, FrozenInv, FreezeHappened, CallsInv, FinalizedOk, FrozenStays
    <1>4. NothingStale'
      BY DEF BoardInv, FrozenInv, FreezeHappened, NothingStale, FrozenStays
    <1>5. FormsInv'
      BY DEF CallsInv
    <1>6. FrozenInv'
      BY <1>3, <1>4 DEF FrozenInv
    <1>. QED  BY <1>1, <1>2, <1>5, <1>6 DEF BoardInv

\* A step that adds no request and takes none back to its form.
LEMMA FewerCalls ==
    ASSUME BoardInv, Fewer(calls'), FrozenStays, invoices' \in [Contracts -> Invoices],
           popup' = Closed \/ content' => \A k \in calls' : k.at = "gone",
           \A k \in calls' : k.what = "upload" /\ k.at = "form" => forms'.proof = "uploading"
    PROVE  CallsInv'
    <1>1. \A k \in calls' : CallShape(k) /\ (k.at = "form" => k \in calls)
      BY DEF Fewer
    <1>2. OneEach'
      BY <1>1 DEF BoardInv, FormsInv, OneEach
    <1>3. FinalizedOk'
      <2>. SUFFICES ASSUME NEW k \in calls', k.what = "finalize", k.answer = "ok"
                    PROVE  invoices'[k.row.c].step # 0
        BY DEF FinalizedOk
      <2>1. PICK j \in calls : j.what = k.what /\ j.answer = k.answer /\ j.row = k.row
        BY DEF Fewer
      <2>2. invoices[j.row.c].step # 0 /\ j.row \in RowSet
        BY <2>1 DEF BoardInv, BoardTyped, CallShape, FrozenInv, FreezeHappened
      <2>3. j.row.c \in Contracts
        BY <2>2 DEF RowSet
      <2>. QED  BY <2>1, <2>2, <2>3 DEF FrozenStays
    <1>4. (\A k \in calls : CallShape(k))'
      BY <1>1 DEF CallShape
    <1>. QED  BY <1>2, <1>3, <1>4 DEF CallsInv, FormsInv, NothingBehind, UploadIsShown

LEMMA NothingMoves ==
    ASSUME invoices' = invoices
    PROVE  FrozenStays
    BY DEF FrozenStays

LEMMA CallMade ==
    ASSUME BoardInv, NEW what \in Moves, Call(what), Panel, ~Busy(what),
           UNCHANGED <<invoices, popup, content>>,
           forms'.proof = IF what = "upload" THEN "uploading" ELSE forms.proof
    PROVE  CallsInv'
    <1>. DEFINE new == [id |-> Min((1..MaxCalls) \ Ids), what |-> what, row |-> Row,
                        at |-> "form", answer |-> "sent"]
    <1>1. calls' = calls \cup {new}
      BY DEF Call
    <1>2. popup # Closed /\ ~content /\ Row \in RowSet
      BY PopupShape DEF BoardInv, Panel
    <1>3. CallShape(new) /\ new.what = what /\ new.at = "form" /\ new.answer = "sent"
      BY <1>2 DEF CallShape
    <1>. HIDE DEF new
    <1>4. \A k \in calls : k.what = what => k.at # "form"
      BY DEF Busy
    <1>5. (\A k \in calls : CallShape(k))'
      BY <1>1, <1>3 DEF BoardInv, BoardTyped, CallShape
    <1>6. NothingBehind'
      BY <1>2 DEF NothingBehind
    <1>7. UploadIsShown'
      BY <1>1, <1>3, <1>4 DEF BoardInv, FormsInv, UploadIsShown
    <1>8. OneEach'
      BY <1>1, <1>3, <1>4 DEF BoardInv, FormsInv, OneEach
    <1>9. FinalizedOk'
      BY <1>1, <1>3 DEF BoardInv, FrozenInv, FreezeHappened, FinalizedOk
    <1>. QED  BY <1>5, <1>6, <1>7, <1>8, <1>9 DEF CallsInv, FormsInv

FormSteps ==
    \/ AskAdjust \/ CancelAdjust \/ SubmitAdjust
    \/ AskFinalize \/ CancelFinalize \/ ConfirmFinalize
    \/ \E found \in {"idle", "picked"} : Pick(found)
    \/ SendProof
    \/ SortBy \/ RefreshLands
    \/ \E k \in calls : MoveFails(k)

LEMMA TableTyped ==
    ASSUME BoardTyped
    PROVE  Table \in [Contracts -> RowSet \cup {Gone}]
    <1>1. \A c \in Contracts : RowOf(c) \in RowSet
      BY DEF BoardTyped, Invoices, RowOf, RowSet
    <1>. QED  BY <1>1 DEF Table

LEMMA FormStepsKeep ==
    ASSUME BoardInv, FormSteps
    PROVE  BoardInv'
    <1>0. BoardTyped /\ forms \in [adjusting : BOOLEAN, finalizing : BOOLEAN, proof : ProofStates]
      BY DEF BoardInv, BoardTyped
    <1>1. /\ UNCHANGED <<invoices, popup, content, cache, loads, told>>
          /\ FrozenStays /\ invoices' \in [Contracts -> Invoices]
          /\ content' => popup' # Closed
      BY <1>0 DEF FormSteps, AskAdjust, CancelAdjust, SubmitAdjust, AskFinalize, CancelFinalize,
         ConfirmFinalize, Pick, SendProof, SortBy, RefreshLands, MoveFails, held, deskVars,
         FrozenStays, BoardTyped
    <1>2. rows' \in [Contracts -> RowSet \cup {Gone}]
      <2>1. CASE RefreshLands
        BY <1>0, <2>1, TableTyped DEF RefreshLands
      <2>2. CASE ~RefreshLands
        BY <1>0, <2>2 DEF FormSteps, AskAdjust, CancelAdjust, SubmitAdjust, AskFinalize,
           CancelFinalize, ConfirmFinalize, Pick, SendProof, SortBy, MoveFails, BoardTyped
      <2>. QED  BY <2>1, <2>2
    <1>3. forms' \in [adjusting : BOOLEAN, finalizing : BOOLEAN, proof : ProofStates]
      BY <1>0 DEF FormSteps, AskAdjust, CancelAdjust, SubmitAdjust, AskFinalize, CancelFinalize,
         ConfirmFinalize, Pick, SendProof, SortBy, RefreshLands, MoveFails, ProofStates
    <1>4. CASE AskAdjust \/ CancelAdjust \/ AskFinalize \/ SortBy
      <2>1. calls' = calls /\ forms'.proof = forms.proof
        BY <1>0, <1>4 DEF AskAdjust, CancelAdjust, AskFinalize, SortBy
      <2>. QED  BY <1>0, <1>1, <2>1, AllIsFewer, FewerCalls, <1>2, <1>3, PopupStays
                DEF BoardInv, FormsInv, NothingBehind, UploadIsShown
    <1>5. CASE CancelFinalize \/ RefreshLands
      <2>1. Fewer(calls') /\ \A k \in calls' : k.at = "form" => k \in calls
        BY <1>0, <1>5, AllIsFewer, FormGoneIsFewer DEF CancelFinalize, RefreshLands, Fewer
      <2>2. forms'.proof = forms.proof
        BY <1>0, <1>5 DEF CancelFinalize, RefreshLands
      <2>3. popup' = Closed \/ content' => \A k \in calls' : k.at = "gone"
        BY <1>1, <2>1 DEF BoardInv, FormsInv, NothingBehind, Fewer
      <2>4. \A k \in calls' : k.what = "upload" /\ k.at = "form" => forms'.proof = "uploading"
        BY <2>1, <2>2 DEF BoardInv, FormsInv, UploadIsShown
      <2>. QED  BY <1>1, <2>1, <2>3, <2>4, FewerCalls, <1>2, <1>3, PopupStays
    <1>6. CASE SubmitAdjust
      BY <1>1, <1>2, <1>3, <1>6, CallMade, PopupStays
         DEF SubmitAdjust, MayAdjust, Body, Moves
    <1>7. CASE ConfirmFinalize
      BY <1>1, <1>2, <1>3, <1>7, CallMade, PopupStays
         DEF ConfirmFinalize, MayFinalize, FinalizeDialog, Moves
    <1>8. CASE SendProof
      <2>1. ~Busy("upload")
        BY <1>8 DEF SendProof, BoardInv, FormsInv, UploadIsShown, Busy
      <2>2. forms'.proof = "uploading" /\ Panel /\ Call("upload")
        BY <1>0, <1>8 DEF SendProof, UploadShown, Body
      <2>. QED  BY <1>1, <1>2, <1>3, <2>1, <2>2, CallMade, PopupStays DEF Moves
    <1>9. CASE \E found \in {"idle", "picked"} : Pick(found)
      <2>1. calls' = calls /\ forms.proof # "uploading"
        BY <1>9 DEF Pick, MayPick
      <2>2. \A k \in calls' : k.what = "upload" /\ k.at = "form" => forms'.proof = "uploading"
        BY <2>1 DEF BoardInv, FormsInv, UploadIsShown
      <2>. QED  BY <1>0, <1>1, <2>1, <2>2, AllIsFewer, FewerCalls, <1>2, <1>3, PopupStays
                DEF BoardInv, FormsInv, NothingBehind
    <1>10. ASSUME NEW k \in calls, MoveFails(k)
           PROVE  BoardInv'
      <2>1. calls' = calls \ {k} /\ Fewer(calls')
        BY <1>0, <1>10, AllIsFewer, FewerStays DEF MoveFails
      <2>2. \A j \in calls' : j.what = "upload" /\ j.at = "form" => forms'.proof = "uploading"
        <3>. SUFFICES ASSUME NEW j \in calls', j.what = "upload", j.at = "form"
                      PROVE  forms'.proof = "uploading"
          OBVIOUS
        <3>1. ~(k.what = "upload" /\ k.at = "form")
          BY <2>1 DEF BoardInv, FormsInv, OneEach
        <3>. QED  BY <1>10, <2>1, <3>1 DEF MoveFails, BoardInv, FormsInv, UploadIsShown
      <2>3. popup' = Closed \/ content' => \A j \in calls' : j.at = "gone"
        BY <1>1, <2>1 DEF BoardInv, FormsInv, NothingBehind
      <2>. QED  BY <1>1, <2>1, <2>2, <2>3, FewerCalls, <1>2, <1>3, PopupStays
    <1>. QED  BY <1>4, <1>5, <1>6, <1>7, <1>8, <1>9, <1>10 DEF FormSteps

-----------------------------------------------------------------------------
(* Steps that ask for a breakdown, or leave the one on screen.             *)

FormsTyped == forms \in [adjusting : BOOLEAN, finalizing : BOOLEAN, proof : ProofStates]

LEMMA FetchKeeps ==
    ASSUME BoardInv, NEW kind \in Kinds, NEW row \in RowSet, fetchFor(kind, row),
           CallsInv', FormsTyped', UNCHANGED <<invoices, rows>>,
           cache' \subseteq cache,
           \A c \in Contracts : <<c, 1>> \in told' =>
               <<c, 1>> \in told \/ (cache' = {} /\ invoices[c].step # 0)
    PROVE  BoardInv'
    <1>0. BoardTyped
      BY DEF BoardInv
    <1>1. /\ loads' \subseteq [latest : BOOLEAN, popup : Popups]
          /\ popup' \in Popups /\ popup' # Closed /\ popup'.status = "loading"
          /\ \A l \in loads' : l.latest => l.popup = popup'
      BY <1>0, Fetched
    <1>2. BoardTyped'
      BY <1>0, <1>1 DEF BoardTyped, CallsInv, FormsTyped
    <1>3. LatestIsOnScreen'
      BY <1>1 DEF LatestIsOnScreen
    <1>4. FreezeHappened'
      BY DEF BoardInv, FrozenInv, FreezeHappened, CallsInv, FinalizedOk
    <1>5. NothingStale'
      BY <1>1 DEF BoardInv, FrozenInv, NothingStale
    <1>6. FormsInv' /\ FrozenInv'
      BY <1>4, <1>5 DEF CallsInv, FrozenInv
    <1>. QED  BY <1>2, <1>3, <1>6 DEF BoardInv

LEMMA LeaveKeeps ==
    ASSUME BoardInv, CallsInv', FormsTyped', FrozenStays, invoices' \in [Contracts -> Invoices],
           UNCHANGED <<rows, told>>, cache' \subseteq cache,
           popup' = Closed, ~content', loads' = Outdated
    PROVE  BoardInv'
    <1>0. BoardTyped
      BY DEF BoardInv
    <1>1. /\ loads' \subseteq [latest : BOOLEAN, popup : Popups]
          /\ \A l \in loads' : ~l.latest
      BY <1>0, AllOutdated
    <1>2. BoardTyped'
      BY <1>0, <1>1 DEF BoardTyped, CallsInv, FormsTyped
    <1>3. LatestIsOnScreen'
      BY <1>1 DEF LatestIsOnScreen
    <1>4. FreezeHappened'
      BY DEF BoardInv, FrozenInv, FreezeHappened, CallsInv, FinalizedOk, FrozenStays
    <1>5. NothingStale'
      BY <1>1 DEF BoardInv, FrozenInv, FreezeHappened, NothingStale, FrozenStays
    <1>6. FormsInv' /\ FrozenInv'
      BY <1>4, <1>5 DEF CallsInv, FrozenInv
    <1>. QED  BY <1>2, <1>3, <1>6 DEF BoardInv

LEMMA NoFormsTyped ==
    NoForms \in [adjusting : BOOLEAN, finalizing : BOOLEAN, proof : ProofStates]
    BY DEF NoForms, ProofStates

\* A breakdown kept for the row's lines fills the popup at once.
LEMMA OpenKeeps ==
    ASSUME BoardInv, NEW kind \in Kinds, NEW c \in Contracts, Open(kind, c)
    PROVE  BoardInv'
    <1>0. BoardTyped /\ invoices' = invoices /\ UNCHANGED <<rows, cache, told, content, calls>>
          /\ popup = Closed /\ forms' = NoForms /\ FormsTyped'
      BY NoFormsTyped DEF BoardInv, Open, held, FormsTyped
    <1>1. rows[c] \in RowSet /\ rows[c].c \in Contracts
      BY <1>0 DEF Open, BoardTyped, RowSet
    <1>2. Fewer(calls') /\ (\A k \in calls' : k.at = "gone")
      BY <1>0, AllIsFewer DEF BoardInv, FormsInv, NothingBehind
    <1>3. CallsInv'
      BY <1>0, <1>2, NothingMoves, FewerCalls DEF BoardTyped
    <1>4. CASE fetchFor(kind, rows[c])
      BY <1>0, <1>1, <1>3, <1>4, FetchKeeps
    <1>5. CASE ~fetchFor(kind, rows[c])
      <2>1. PICK e \in cache :
               /\ e.key = readKey(rows[c])
               /\ popup' = [kind |-> kind, row |-> rows[c], lines |-> e.lines, status |-> "ready"]
               /\ loads' = Outdated
        BY <1>5 DEF Open
      <2>2. e.lines \in LineSet /\ e.key[1] = rows[c].c
        BY <1>0, <2>1 DEF BoardTyped, readKey
      <2>3. popup' \in Popups /\ popup'.row = rows[c] /\ popup'.lines = e.lines
        BY <1>1, <2>1, <2>2 DEF Popups
      <2>4. /\ loads' \subseteq [latest : BOOLEAN, popup : Popups]
            /\ \A l \in loads' : ~l.latest
        BY <1>0, <2>1, AllOutdated
      <2>5. BoardTyped'
        BY <1>0, <1>3, <2>3, <2>4 DEF BoardTyped, CallsInv, FormsTyped
      <2>6. LatestIsOnScreen'
        BY <2>4 DEF LatestIsOnScreen
      <2>7. FreezeHappened'
        BY <1>0 DEF BoardInv, FrozenInv, FreezeHappened
      <2>8. NothingStale'
        BY <1>0, <2>2, <2>3, <2>4 DEF BoardInv, FrozenInv, NothingStale
      <2>9. FormsInv' /\ FrozenInv'
        BY <1>3, <2>7, <2>8 DEF CallsInv, FrozenInv
      <2>. QED  BY <2>5, <2>6, <2>9 DEF BoardInv
    <1>. QED  BY <1>4, <1>5

LEMMA RetryKeeps ==
    ASSUME BoardInv, Retry
    PROVE  BoardInv'
    <1>0. BoardTyped /\ popup # Closed /\ ~content
          /\ UNCHANGED <<invoices, rows, forms, cache, told, content, calls>>
      BY DEF BoardInv, Retry, held
    <1>1. Row \in RowSet /\ popup.row \in RowSet /\ popup.kind \in Kinds
      BY <1>0, PopupShape
    <1>2. PICK row \in RowSet : fetchFor(popup.kind, row)
      BY <1>1 DEF Retry
    <1>3. popup' # Closed
      BY <1>0, <1>1, <1>2, Fetched
    <1>4. CallsInv'
      BY <1>0, <1>3, AllIsFewer, NothingMoves, FewerCalls
         DEF BoardTyped, BoardInv, FormsInv, UploadIsShown, NothingBehind
    <1>. QED  BY <1>0, <1>1, <1>2, <1>4, FetchKeeps DEF FormsTyped, BoardTyped

LEMMA CloseKeeps ==
    ASSUME BoardInv, Close \/ Decided
    PROVE  BoardInv'
    <1>0. BoardTyped /\ closeAll /\ UNCHANGED <<rows, told>> /\ cache' \subseteq cache /\ FormsTyped'
      BY NoFormsTyped DEF BoardInv, Close, Decided, closeAll, FormsTyped
    <1>1. FrozenStays /\ invoices' \in [Contracts -> Invoices]
      <2>1. CASE invoices' = invoices
        BY <1>0, <2>1, NothingMoves DEF BoardTyped
      <2>2. CASE invoices' # invoices
        <3>. DEFINE c == popup.row.c
        <3>1. Decided
          BY <2>2 DEF Close, held
        <3>2. c \in Contracts
          BY <1>0, <3>1, PopupShape DEF Decided, BoardTyped
        <3>3. /\ invoices[c].step = 0 /\ invoices[c].lines < MaxLines
              /\ invoices' = [invoices EXCEPT ![c].lines = @ + 1]
          BY <2>2, <3>1 DEF Decided
        <3>4. invoices \in [Contracts -> Invoices]
          BY <1>0 DEF BoardTyped
        <3>. HIDE DEF c
        <3>. QED  BY <3>2, <3>3, <3>4, LinesStay
      <2>. QED  BY <2>1, <2>2
    <1>2. Fewer(calls') /\ \A k \in calls' : k.at = "gone"
      BY <1>0, PanelGoneIsFewer DEF closeAll
    <1>3. CallsInv'
      BY <1>1, <1>2, FewerCalls
    <1>. QED  BY <1>0, <1>1, <1>3, LeaveKeeps DEF closeAll

LEMMA ContentKeeps ==
    ASSUME BoardInv, OpenContent \/ CloseContent
    PROVE  BoardInv'
    <1>0. /\ BoardTyped /\ UNCHANGED <<invoices, popup, rows, cache, loads, told>>
          /\ content' => popup' # Closed
      BY DEF BoardInv, OpenContent, CloseContent, held
    <1>1. CASE OpenContent
      <2>1. Fewer(calls') /\ \A k \in calls' : k.at = "gone"
        BY <1>0, <1>1, PanelGoneIsFewer DEF OpenContent
      <2>2. FormsTyped'
        BY <1>0, <1>1 DEF OpenContent, BodyLeft, BoardTyped, FormsTyped, ProofStates
      <2>. QED  BY <1>0, <2>1, <2>2, NothingMoves, FewerCalls, PopupStays DEF BoardTyped, FormsTyped
    <1>2. CASE CloseContent
      <2>1. Fewer(calls') /\ \A k \in calls' : k.at = "gone"
        BY <1>0, <1>2, AllIsFewer DEF CloseContent, BoardInv, FormsInv, NothingBehind
      <2>2. FormsTyped'
        BY <1>0, <1>2 DEF CloseContent, BoardTyped, FormsTyped
      <2>. QED  BY <1>0, <2>1, <2>2, NothingMoves, FewerCalls, PopupStays DEF BoardTyped, FormsTyped
    <1>. QED  BY <1>1, <1>2

-----------------------------------------------------------------------------
(* Breakdowns answered.                                                    *)

LEMMA CallsStand ==
    ASSUME BoardInv, UNCHANGED <<invoices, content, forms, calls>>, popup' = Closed => popup = Closed
    PROVE  CallsInv'
    <1>1. Fewer(calls')
      BY AllIsFewer DEF BoardInv
    <1>2. /\ popup' = Closed \/ content' => \A k \in calls' : k.at = "gone"
          /\ \A k \in calls' : k.what = "upload" /\ k.at = "form" => forms'.proof = "uploading"
      BY DEF BoardInv, FormsInv, NothingBehind, UploadIsShown
    <1>. QED  BY <1>1, <1>2, NothingMoves, FewerCalls DEF BoardInv, BoardTyped

LEMMA LoadReadsKeeps ==
    ASSUME BoardInv, NEW l \in loads, LoadReads(l)
    PROVE  BoardInv'
    <1>0. BoardTyped /\ UNCHANGED <<invoices, rows, popup, content, forms, cache, calls, told>>
      BY DEF BoardInv, LoadReads, deskVars, held
    <1>1. PICK status \in {"ready", "failed", "missing"} :
             loads' = (loads \ {l}) \cup
                 {[l EXCEPT !.popup.status = status,
                            !.popup.lines = IF status = "ready" THEN invoices[l.popup.row.c].lines ELSE Nothing]}
      BY DEF LoadReads
    <1>. DEFINE lines == IF status = "ready" THEN invoices[l.popup.row.c].lines ELSE Nothing
                new == [l EXCEPT !.popup.status = status, !.popup.lines = lines]
    <1>2. l \in [latest : BOOLEAN, popup : Popups] /\ l.popup \in Popups /\ l.popup.row.c \in Contracts
      BY <1>0 DEF BoardTyped, Popups, RowSet
    <1>3. lines \in LineSet
      BY <1>0, <1>2 DEF BoardTyped, Invoices, LineSet
    <1>. HIDE DEF lines
    <1>4. /\ new \in [latest : BOOLEAN, popup : Popups] /\ new.latest = l.latest
          /\ new.popup.row = l.popup.row /\ new.popup.kind = l.popup.kind
          /\ new.popup.status = status /\ new.popup.lines = lines
      BY <1>2, <1>3 DEF Popups
    <1>5. loads' = (loads \ {l}) \cup {new}
      BY <1>1 DEF lines
    <1>. HIDE DEF new
    <1>6. BoardTyped'
      BY <1>0, <1>4, <1>5 DEF BoardTyped
    <1>7. LatestIsOnScreen'
      BY <1>0, <1>4, <1>5 DEF BoardInv, LatestIsOnScreen
    <1>8. FreezeHappened' /\ FormsInv'
      BY <1>0, CallsStand DEF BoardInv, FrozenInv, FreezeHappened, CallsInv
    <1>9. NothingStale'
      BY <1>0, <1>4, <1>5 DEF BoardInv, FrozenInv, NothingStale, lines
    <1>. QED  BY <1>6, <1>7, <1>8, <1>9 DEF BoardInv, FrozenInv

LEMMA LoadLandsKeeps ==
    ASSUME BoardInv, NEW l \in loads, LoadLands(l)
    PROVE  /\ BoardInv'
           /\ \/ popup' = popup
              \/ popup # Closed /\ popup'.row = popup.row /\ popup'.kind = popup.kind
    <1>0. BoardTyped /\ UNCHANGED <<invoices, rows, content, forms, calls, told>>
      BY DEF BoardInv, LoadLands, deskVars, held
    <1>1. l.popup \in Popups /\ l.popup # Closed /\ l.popup.row \in RowSet
          /\ readKey(l.popup.row) \in Contracts \X (0..MaxLines)
          /\ readKey(l.popup.row)[1] = l.popup.row.c
          /\ l.popup.lines \in LineSet
      <2>1. l.popup \in Popups
        BY <1>0 DEF BoardTyped
      <2>2. l.popup.row \in RowSet /\ l.popup.lines \in LineSet
        BY <2>1 DEF Popups
      <2>. QED  BY <2>1, <2>2, PopupIsNotClosed DEF readKey, RowSet
    <1>2. CASE ~l.latest
      <2>1. popup' = popup /\ cache' = cache /\ loads' = loads \ {l}
        BY <1>2 DEF LoadLands, Counts
      <2>2. BoardTyped'
        BY <1>0, <2>1 DEF BoardTyped
      <2>3. LatestIsOnScreen'
        BY <2>1 DEF BoardInv, LatestIsOnScreen
      <2>4. FreezeHappened' /\ FormsInv'
        BY <1>0, <2>1, CallsStand DEF BoardInv, FrozenInv, FreezeHappened, CallsInv
      <2>5. NothingStale'
        BY <1>0, <2>1 DEF BoardInv, FrozenInv, NothingStale
      <2>. QED  BY <2>1, <2>2, <2>3, <2>4, <2>5 DEF BoardInv, FrozenInv
    <1>3. CASE l.latest
      <2>1. /\ popup' = l.popup /\ loads' = loads \ {l}
            /\ cache' = IF l.popup.status = "ready" THEN Kept(l.popup) ELSE cache
        BY <1>3 DEF LoadLands, Counts
      <2>2. popup # Closed /\ popup.row = l.popup.row /\ popup.kind = l.popup.kind
        BY <1>3 DEF BoardInv, LatestIsOnScreen
      <2>3. \A e \in cache' : \/ e \in cache
                              \/ l.popup.status = "ready"
                                 /\ e = [key |-> readKey(l.popup.row), lines |-> l.popup.lines]
        BY <2>1 DEF Kept
      <2>4. cache' \subseteq [key : Contracts \X (0..MaxLines), lines : LineSet]
        BY <1>0, <1>1, <2>3 DEF BoardTyped
      <2>5. BoardTyped'
        BY <1>0, <1>1, <2>1, <2>4 DEF BoardTyped
      <2>6. LatestIsOnScreen'
        BY <1>1, <2>1, <2>2 DEF BoardInv, LatestIsOnScreen
      <2>7. FreezeHappened' /\ FormsInv'
        BY <1>0, <1>1, <2>1, CallsStand DEF BoardInv, FrozenInv, FreezeHappened, CallsInv
      <2>8. NothingStale'
        <3>. SUFFICES ASSUME NEW c \in Contracts, <<c, 1>> \in told
                      PROVE  /\ \A e \in cache' : e.key[1] = c => e.lines = invoices[c].lines
                             /\ popup'.row.c = c /\ popup'.status = "ready" => popup'.lines = invoices[c].lines
                             /\ \A m \in loads' : m.latest /\ m.popup.row.c = c /\ m.popup.status = "ready"
                                                  => m.popup.lines = invoices[c].lines
          BY <1>0 DEF NothingStale
        <3>1. l.popup.row.c = c /\ l.popup.status = "ready" => l.popup.lines = invoices[c].lines
          BY <1>3 DEF BoardInv, FrozenInv, NothingStale
        <3>2. ASSUME NEW e \in cache', e.key[1] = c
              PROVE  e.lines = invoices[c].lines
          <4>1. CASE e \in cache
            BY <3>2, <4>1 DEF BoardInv, FrozenInv, NothingStale
          <4>2. CASE l.popup.status = "ready"
                     /\ e = [key |-> readKey(l.popup.row), lines |-> l.popup.lines]
            BY <1>1, <3>1, <3>2, <4>2
          <4>. QED  BY <2>3, <4>1, <4>2
        <3>3. \A m \in loads' : m.latest /\ m.popup.row.c = c /\ m.popup.status = "ready"
                                => m.popup.lines = invoices[c].lines
          BY <2>1 DEF BoardInv, FrozenInv, NothingStale
        <3>. QED  BY <2>1, <3>1, <3>2, <3>3
      <2>. QED  BY <2>2, <2>1, <2>5, <2>6, <2>7, <2>8 DEF BoardInv, FrozenInv
    <1>. QED  BY <1>2, <1>3

-----------------------------------------------------------------------------
(* Moves taken by the server, and answered.                                *)

\* A finalize that was answered well has frozen the invoice it was asked for.
LEMMA ReachesKeeps ==
    ASSUME BoardInv, NEW k \in calls, Reaches(k)
    PROVE  BoardInv'
    <1>0. BoardTyped /\ UNCHANGED <<rows, popup, content, forms, cache, loads, told>>
      BY DEF BoardInv, Reaches
    <1>1. PICK a \in {"ok", "refused", "lost"}, took \in BOOLEAN :
             /\ took => Takes(k.what, k.row.c)
             /\ a = "ok" => took
             /\ invoices' = IF took THEN Moved(k.what, k.row.c) ELSE invoices
             /\ calls' = (calls \ {k}) \cup {[k EXCEPT !.answer = a]}
      BY DEF Reaches
    <1>2. CallShape(k) /\ k.what \in Moves /\ k.row.c \in Contracts
      BY <1>0 DEF BoardTyped, CallShape, RowSet
    <1>3. /\ FrozenStays /\ invoices' \in [Contracts -> Invoices]
          /\ a = "ok" /\ k.what = "finalize" => invoices'[k.row.c].step # 0
      <2>1. CASE took
        BY <1>0, <1>1, <1>2, <2>1, MovedStays DEF BoardTyped
      <2>2. CASE ~took
        BY <1>0, <1>1, <2>2, NothingMoves DEF BoardTyped
      <2>. QED  BY <2>1, <2>2
    <1>. DEFINE new == [k EXCEPT !.answer = a]
    <1>4. /\ CallShape(new) /\ new.what = k.what /\ new.at = k.at /\ new.row = k.row /\ new.answer = a
      BY <1>2 DEF CallShape
    <1>5. calls' = (calls \ {k}) \cup {new}
      BY <1>1
    <1>. HIDE DEF new
    <1>6. (\A j \in calls : CallShape(j))'
      BY <1>0, <1>4, <1>5 DEF BoardTyped, CallShape
    <1>7. FormsInv'
      <2>1. NothingBehind'
        BY <1>0, <1>4, <1>5 DEF BoardInv, FormsInv, NothingBehind
      <2>2. UploadIsShown'
        BY <1>0, <1>4, <1>5 DEF BoardInv, FormsInv, UploadIsShown
      <2>3. OneEach'
        BY <1>4, <1>5 DEF BoardInv, FormsInv, OneEach
      <2>. QED  BY <2>1, <2>2, <2>3 DEF FormsInv
    <1>8. FinalizedOk'
      <2>. SUFFICES ASSUME NEW j \in calls', j.what = "finalize", j.answer = "ok"
                    PROVE  invoices'[j.row.c].step # 0
        BY DEF FinalizedOk
      <2>1. CASE j = new
        BY <1>3, <1>4, <2>1
      <2>2. CASE j # new
        <3>1. j \in calls /\ invoices[j.row.c].step # 0
          BY <1>5, <2>2 DEF BoardInv, FrozenInv, FreezeHappened
        <3>2. j.row.c \in Contracts
          BY <1>0, <3>1 DEF BoardTyped, CallShape, RowSet
        <3>. QED  BY <1>3, <3>1, <3>2 DEF FrozenStays
      <2>. QED  BY <2>1, <2>2
    <1>9. rows' \in [Contracts -> RowSet \cup {Gone}] /\ FormsTyped' /\ (content' => popup' # Closed)
      BY <1>0 DEF BoardTyped, FormsTyped
    <1>. QED  BY <1>0, <1>3, <1>6, <1>7, <1>8, <1>9, PopupStays DEF CallsInv, FormsTyped

\* A move that came back asks for everything again, in the panel it was made in.
LEMMA MovedKeeps ==
    ASSUME BoardInv, NEW k \in calls, NEW left, NEW f, moved(k, left, f), Fewer(left),
           content => \A j \in left : j.at = "gone",
           f \in [adjusting : BOOLEAN, finalizing : BOOLEAN, proof : ProofStates],
           UNCHANGED <<invoices, rows, content>>,
           told' \subseteq told \cup (IF invoices[k.row.c].step # 0 THEN {<<k.row.c, 1>>} ELSE {})
    PROVE  BoardInv'
    <1>0. BoardTyped /\ k.row \in RowSet /\ "all" \in Kinds
      BY DEF BoardInv, BoardTyped, CallShape, Kinds
    <1>1. fetchFor("all", k.row) /\ cache' = {} /\ calls' = BodyGone(left)
          /\ forms' = [BodyLeft(f) EXCEPT !.adjusting = FALSE]
      BY DEF moved
    <1>2. popup' # Closed
      BY <1>0, <1>1, Fetched
    <1>3. FormsTyped'
      BY <1>1 DEF FormsTyped, BodyLeft, ProofStates
    <1>4. /\ Fewer(calls')
          /\ content' => \A j \in calls' : j.at = "gone"
          /\ \A j \in calls' : j.what = "upload" => j.at # "form"
      BY <1>0, <1>1, BodyGoneIsFewer
    <1>5. CallsInv'
      BY <1>0, <1>2, <1>4, NothingMoves, FewerCalls DEF BoardTyped
    <1>6. \A c \in Contracts : <<c, 1>> \in told' =>
              <<c, 1>> \in told \/ (cache' = {} /\ invoices[c].step # 0)
      BY <1>1
    <1>. QED  BY <1>0, <1>1, <1>3, <1>5, <1>6, FetchKeeps

LEMMA LandsKeeps ==
    ASSUME BoardInv, NEW k \in calls, AdjustLands(k) \/ FinalizeLands(k) \/ UploadLands(k)
    PROVE  BoardInv'
    <1>0. /\ BoardTyped /\ UNCHANGED <<invoices, rows, content>>
          /\ forms \in [adjusting : BOOLEAN, finalizing : BOOLEAN, proof : ProofStates]
          /\ Fewer(calls \ {k})
      BY AllIsFewer, FewerStays DEF BoardInv, BoardTyped, AdjustLands, FinalizeLands, UploadLands, deskVars, held
    <1>1. CASE AdjustLands(k)
      <2>1. moved(k, calls \ {k}, forms) /\ told' = told
        BY <1>1 DEF AdjustLands
      <2>2. content => \A j \in calls \ {k} : j.at = "gone"
        BY DEF BoardInv, FormsInv, NothingBehind
      <2>. QED  BY <1>0, <2>1, <2>2, MovedKeeps
    <1>2. CASE FinalizeLands(k)
      <2>1. invoices[k.row.c].step # 0 /\ told' = told \cup {<<k.row.c, 1>>}
        BY <1>2 DEF FinalizeLands, BoardInv, FrozenInv, FreezeHappened
      <2>2. CASE k.at = "gone"
        <3>1. moved(k, calls \ {k}, forms)
          BY <1>2, <2>2 DEF FinalizeLands
        <3>2. content => \A j \in calls \ {k} : j.at = "gone"
          BY DEF BoardInv, FormsInv, NothingBehind
        <3>. QED  BY <1>0, <2>1, <3>1, <3>2, MovedKeeps
      <2>3. CASE k.at # "gone"
        <3>. DEFINE left == FormGone("finalize") \ {k, [k EXCEPT !.at = "panel"]}
                    f == [forms EXCEPT !.finalizing = FALSE]
        <3>1. moved(k, left, f)
          BY <1>2, <2>3 DEF FinalizeLands
        <3>2. Fewer(left)
          BY <1>0, FormGoneIsFewer, FewerStays
        <3>3. ~content
          BY <2>3 DEF BoardInv, FormsInv, NothingBehind
        <3>4. f \in [adjusting : BOOLEAN, finalizing : BOOLEAN, proof : ProofStates]
          BY <1>0
        <3>. HIDE DEF left, f
        <3>. QED  BY <1>0, <2>1, <3>1, <3>2, <3>3, <3>4, MovedKeeps
      <2>. QED  BY <2>2, <2>3
    <1>3. CASE UploadLands(k)
      <2>1. /\ UNCHANGED <<popup, loads>> /\ cache' = {} /\ told' = told \cup {<<k.row.c, 3>>}
            /\ calls' = calls \ {k}
            /\ forms' = IF k.at = "form" THEN [forms EXCEPT !.proof = "uploaded"] ELSE forms
            /\ k.what = "upload"
        BY <1>3 DEF UploadLands, uploaded
      <2>2. FormsTyped'
        BY <1>0, <2>1 DEF FormsTyped, ProofStates
      <2>3. popup' = Closed \/ content' => \A j \in calls' : j.at = "gone"
        BY <1>0, <2>1 DEF BoardInv, FormsInv, NothingBehind
      <2>4. \A j \in calls' : j.what = "upload" /\ j.at = "form" => forms'.proof = "uploading"
        BY <2>1 DEF BoardInv, FormsInv, UploadIsShown, OneEach
      <2>5. CallsInv'
        BY <1>0, <2>1, <2>3, <2>4, NothingMoves, FewerCalls DEF BoardTyped
      <2>6. BoardTyped'
        BY <1>0, <2>1, <2>2, <2>5 DEF BoardTyped, CallsInv, FormsTyped
      <2>7. LatestIsOnScreen'
        BY <2>1 DEF BoardInv, LatestIsOnScreen
      <2>8. \A c \in Contracts : <<c, 1>> \in told' => <<c, 1>> \in told
        BY <2>1
      <2>9. FreezeHappened' /\ NothingStale'
        BY <1>0, <2>1, <2>5, <2>8 DEF BoardInv, FrozenInv, FreezeHappened, NothingStale, CallsInv, FinalizedOk
      <2>. QED  BY <2>5, <2>6, <2>7, <2>9 DEF BoardInv, FrozenInv, CallsInv
    <1>. QED  BY <1>1, <1>2, <1>3

LEMMA ElsewhereKeeps ==
    ASSUME BoardInv, BoardElsewhere
    PROVE  BoardInv'
    <1>0. BoardTyped /\ UNCHANGED panelVars
      BY DEF BoardInv, BoardElsewhere
    <1>1. FrozenStays /\ invoices' \in [Contracts -> Invoices]
      <2>1. ASSUME NEW c \in Contracts, AmountsMove(c)
            PROVE  FrozenStays /\ invoices' \in [Contracts -> Invoices]
        BY <1>0, <2>1, LinesStay DEF AmountsMove, BoardTyped
      <2>2. ASSUME NEW c \in Contracts, NEW move \in {"finalize", "acknowledge", "upload"},
                   MovedElsewhere(move, c)
            PROVE  FrozenStays /\ invoices' \in [Contracts -> Invoices]
        BY <1>0, <2>2, MovedStays DEF MovedElsewhere, BoardTyped, Moves
      <2>. QED  BY <2>1, <2>2 DEF BoardElsewhere
    <1>2. Fewer(calls')
      BY <1>0, AllIsFewer DEF panelVars
    <1>3. /\ popup' = Closed \/ content' => \A k \in calls' : k.at = "gone"
          /\ \A k \in calls' : k.what = "upload" /\ k.at = "form" => forms'.proof = "uploading"
      BY <1>0 DEF panelVars, BoardInv, FormsInv, NothingBehind, UploadIsShown
    <1>4. CallsInv'
      BY <1>1, <1>2, <1>3, FewerCalls
    <1>5. /\ rows' \in [Contracts -> RowSet \cup {Gone}] /\ FormsTyped' /\ (content' => popup' # Closed)
          /\ UNCHANGED <<popup, cache, loads, told>>
      BY <1>0 DEF panelVars, BoardTyped, FormsTyped
    <1>. QED  BY <1>1, <1>4, <1>5, PopupStays DEF FormsTyped

-----------------------------------------------------------------------------
(* The specification.                                                      *)

LEMMA BoardStarts ==
    ASSUME DeskInit, PanelsInit
    PROVE  BoardInv
    <1>1. PICK opening \in Openings :
             invoices = [c \in Contracts |-> [step |-> opening[c], lines |-> 0]]
      BY DEF DeskInit
    <1>2. opening \in [Contracts -> 0..4]
      BY DeskAssumption
    <1>3. invoices \in [Contracts -> Invoices]
      BY <1>1, <1>2, DeskAssumption DEF Invoices, LastStep
    <1>4. BoardTyped
      <2>1. Table \in [Contracts -> RowSet \cup {Gone}]
        <3>1. \A c \in Contracts : RowOf(c) \in RowSet
          BY <1>3 DEF Invoices, RowOf, RowSet
        <3>. QED  BY <3>1 DEF Table
      <2>. QED  BY <1>3, <2>1, NoFormsTyped DEF PanelsInit, BoardTyped
    <1>. QED  BY <1>4 DEF PanelsInit, BoardInv, LatestIsOnScreen, FormsInv, NothingBehind, UploadIsShown,
                OneEach, FrozenInv, FreezeHappened, NothingStale

LEMMA BoardSteps ==
    ASSUME BoardInv, PanelsNext
    PROVE  BoardInv'
    <1>1. CASE Admin
      BY <1>1, FormStepsKeep, OpenKeeps, RetryKeeps, CloseKeeps, ContentKeeps DEF Admin, FormSteps
    <1>2. CASE Answers
      BY <1>2, FormStepsKeep, LoadReadsKeeps, LoadLandsKeeps, ReachesKeeps, LandsKeeps
         DEF Answers, FormSteps, MoveReaches, UploadReaches
    <1>3. CASE BoardElsewhere
      BY <1>3, ElsewhereKeeps
    <1>. QED  BY <1>1, <1>2, <1>3 DEF PanelsNext

(* The board's invariant, from which the three properties follow.          *)
THEOREM ScreensInvariant == ScreensSpec => []ScreensInv
    <1>1. ScreensInit => ScreensInv
      <2>. SUFFICES ASSUME ScreensInit
                    PROVE  ScreensInv
        OBVIOUS
      <2>1. calls = {} /\ loads = {} /\ told = {}
        BY DEF ScreensInit, PanelsInit
      <2>2. side = "admin" => BoardInv
        BY BoardStarts DEF ScreensInit
      <2>. QED  BY <2>1, <2>2 DEF ScreensInit, ScreensInv
    <1>2. ScreensInv /\ [ScreensNext]_screenVars => ScreensInv'
      <2>. SUFFICES ASSUME ScreensInv, [ScreensNext]_screenVars
                    PROVE  ScreensInv'
        OBVIOUS
      <2>1. CASE AdminSide
        BY <2>1, BoardSteps DEF AdminSide, ScreensInv
      <2>2. CASE CreatorSide
        BY <2>2 DEF CreatorSide, ScreensInv, panelVars
      <2>3. CASE UNCHANGED screenVars
        <3>1. UNCHANGED <<side, calls, loads, told>> /\ UNCHANGED <<invoices, panelVars>>
          BY <2>3 DEF screenVars, deskVars, held, panelVars
        <3>2. BoardInv => BoardInv'
          BY <3>1 DEF panelVars, BoardInv, BoardTyped, LatestIsOnScreen, FormsInv, NothingBehind,
             UploadIsShown, OneEach, FrozenInv, FreezeHappened, NothingStale
        <3>. QED  BY <3>1, <3>2 DEF ScreensInv
      <2>. QED  BY <2>1, <2>2, <2>3 DEF ScreensNext
    <1>. QED  BY <1>1, <1>2, PTL DEF ScreensSpec

(* A form on screen never has two requests under way, however often it is  *)
(* pressed, closed and opened again (adjustment-form.tsx,                  *)
(* invoice-actions.tsx, invoice-payment-section.tsx).                      *)
THEOREM NeverTwoCallsPerForm == ScreensSpec => []OneCallPerForm
    <1>1. ScreensInv => OneCallPerForm
      <2>. SUFFICES ASSUME ScreensInv, NEW what \in Moves
                    PROVE  Cardinality({k \in calls : k.what = what /\ k.at = "form"}) <= 1
        BY DEF OneCallPerForm
      <2>. DEFINE mine == {k \in calls : k.what = what /\ k.at = "form"}
      <2>1. \A j, k \in mine : j = k
        BY DEF ScreensInv, Sides, BoardInv, FormsInv, OneEach
      <2>2. CASE mine = {}
        BY <2>2, FS_EmptySet
      <2>3. CASE mine # {}
        <3>1. PICK k \in mine : TRUE
          BY <2>3
        <3>2. mine = {k}
          BY <2>1, <3>1
        <3>3. Cardinality({k}) = 1
          BY FS_Singleton
        <3>. QED  BY <3>2, <3>3
      <2>. QED  BY <2>2, <2>3
    <1>. QED  BY <1>1, ScreensInvariant, PTL

(* Once the board was told of a freeze, no lines read before it stand in   *)
(* the popup or wait in the cache (use-breakdown-popups.tsx).              *)
THEOREM FrozenStaysFrozen == ScreensSpec => []FrozenIsShownFrozen
    <1>1. ScreensInv => FrozenIsShownFrozen
      BY DEF ScreensInv, Sides, BoardInv, FrozenInv, NothingStale, FrozenIsShownFrozen
    <1>. QED  BY <1>1, ScreensInvariant, PTL

(* A breakdown that arrives late fills only the popup it was asked for, in *)
(* every behaviour (use-breakdown-popups.tsx: the latest request).         *)
THEOREM LateAnswersNeverReopen == ScreensSpec => AnswersNeverReopen
    <1>1. ScreensInv =>
            [\A l \in loads : LoadLands(l) =>
                popup' = popup
                \/ /\ popup # Closed
                   /\ popup'.row.c = popup.row.c
                   /\ popup'.kind = popup.kind]_<<deskVars, panelVars>>
      <2>. SUFFICES ASSUME ScreensInv, NEW l \in loads, LoadLands(l)
                    PROVE  popup' = popup \/ (popup # Closed /\ popup'.row.c = popup.row.c /\ popup'.kind = popup.kind)
        OBVIOUS
      <2>1. BoardInv
        BY DEF ScreensInv, Sides
      <2>. QED  BY <2>1, LoadLandsKeeps
    <1>. QED  BY <1>1, ScreensInvariant, PTL DEF AnswersNeverReopen

-----------------------------------------------------------------------------
(* Numbers and finite sets.                                                *)

\* A set of numbers that is not empty has a least one.
LEMMA LeastNumber ==
    ASSUME NEW T, T \subseteq Nat, T # {}
    PROVE  \E n \in T : \A m \in T : n <= m
    <1>. DEFINE R == OpToRel(<, Nat)
    <1>1. \A m, n \in Nat : m < n => <<m, n>> \in R
      BY DEF OpToRel
    <1>2. IsWellFoundedOn(R, Nat)
      BY NatLessThanWellFounded
    <1>. HIDE DEF R
    <1>3. PICK n \in T : \A m \in T : ~(<<m, n>> \in R)
      BY <1>2, WFMin
    <1>4. \A m \in T : m \in Nat /\ ~(m < n)
      BY <1>1, <1>3
    <1>5. n \in Nat
      OBVIOUS
    <1>. QED  BY <1>3, <1>4, <1>5

\* Induction over the numbers, as a fact about sets of numbers.
LEMMA EveryNumber ==
    ASSUME NEW T, 0 \in T, \A n \in Nat : n \in T => n + 1 \in T
    PROVE  Nat \subseteq T
    <1>. SUFFICES ASSUME ~(Nat \subseteq T)
                  PROVE  FALSE
      OBVIOUS
    <1>1. PICK n \in Nat \ T : \A m \in Nat \ T : n <= m
      <2>1. Nat \ T \subseteq Nat /\ Nat \ T # {}
        OBVIOUS
      <2>. QED  BY <2>1, LeastNumber
    <1>2. n # 0 /\ n \in Nat
      OBVIOUS
    <1>3. n - 1 \in Nat /\ n - 1 < n
      BY <1>2
    <1>4. n - 1 \in T
      BY <1>1, <1>3
    <1>5. (n - 1) + 1 \in T
      BY <1>3, <1>4
    <1>. QED  BY <1>2, <1>5

LEMMA ImageIsFinite ==
    ASSUME NEW S, IsFiniteSet(S), NEW f, DOMAIN f = S,
           NEW T, T = {f[x] : x \in S}
    PROVE  IsFiniteSet(T) /\ Cardinality(T) <= Cardinality(S)
    <1>1. [x \in S |-> f[x]] \in Surjection(S, T)
      BY DEF Surjection
    <1>. QED  BY <1>1, FS_Surjection

\* While fewer requests than numbers are under way, a number is free.
LEMMA FreshNumber ==
    ASSUME NEW S, IsFiniteSet(S), NEW n \in Nat, Cardinality(S) < n,
           NEW T, T = {x.id : x \in S}
    PROVE  Min((1..n) \ T) \in (1..n) \ T
    <1>1. IsFiniteSet(T) /\ Cardinality(T) <= Cardinality(S)
      <2>. DEFINE f == [x \in S |-> x.id]
      <2>1. DOMAIN f = S /\ T = {f[x] : x \in S}
        OBVIOUS
      <2>. QED  BY <2>1, ImageIsFinite
    <1>2. Cardinality(S) \in Nat /\ Cardinality(T) \in Nat /\ Cardinality(1..n) = n
      BY <1>1, FS_CardinalityType, FS_Interval
    <1>3. ~((1..n) \subseteq T)
      BY <1>1, <1>2, FS_Subset
    <1>. DEFINE free == (1..n) \ T
    <1>4. free # {} /\ free \subseteq Nat
      BY <1>3
    <1>. HIDE DEF free
    <1>5. \E x \in free : \A y \in free : x <= y
      BY <1>4, LeastNumber
    <1>6. Min(free) \in free
      BY <1>5 DEF Min
    <1>. QED  BY <1>6 DEF free

-----------------------------------------------------------------------------
(* The board's state is of its types.                                      *)

CallSet == [id : 1..MaxCalls, what : Moves, row : RowSet,
            at : {"form", "panel", "gone"}, answer : {"sent", "ok", "refused", "lost"}]

SomeCalls(S) == S \subseteq CallSet /\ IsFiniteSet(S)

\* What BoardInv leaves out of the types.
BoardRest ==
    /\ filter \in Filters
    /\ refreshing \in BOOLEAN /\ content \in BOOLEAN
    /\ cache \subseteq [key : Contracts \X (0..MaxLines), lines : 0..MaxLines]
    /\ \A l \in loads : l.popup.status = "ready" => l.popup.lines # Nothing
    /\ SomeCalls(calls)
    /\ told \subseteq Contracts \X {1, 3}

LEMMA CallsSet ==
    ASSUME NEW S, SomeCalls(S), NEW g, DOMAIN g = S,
           \A k \in S : g[k] \in {"form", "panel", "gone"},
           NEW T, T = {[k EXCEPT !.at = g[k]] : k \in S}
    PROVE  SomeCalls(T)
    <1>1. \A k \in S : [k EXCEPT !.at = g[k]] \in CallSet
      BY DEF SomeCalls, CallSet
    <1>. DEFINE f == [k \in S |-> [k EXCEPT !.at = g[k]]]
    <1>2. DOMAIN f = S /\ T = {f[k] : k \in S}
      OBVIOUS
    <1>. HIDE DEF f
    <1>3. IsFiniteSet(T)
      BY <1>2, ImageIsFinite DEF SomeCalls
    <1>. QED  BY <1>1, <1>3 DEF SomeCalls

LEMMA CallsLeftTyped ==
    ASSUME SomeCalls(calls)
    PROVE  /\ \A what : SomeCalls(FormGone(what))
           /\ SomeCalls(PanelGone)
           /\ \A S : SomeCalls(S) => SomeCalls(BodyGone(S))
    <1>1. ASSUME NEW what
          PROVE  SomeCalls(FormGone(what))
      <2>. DEFINE g == [k \in calls |-> IF k.what = what /\ k.at = "form" THEN "panel" ELSE k.at]
      <2>1. \A k \in calls : g[k] \in {"form", "panel", "gone"}
        BY DEF SomeCalls, CallSet
      <2>2. \A k \in calls : [k EXCEPT !.at = g[k]] =
               IF k.what = what /\ k.at = "form" THEN [k EXCEPT !.at = "panel"] ELSE k
        BY DEF SomeCalls, CallSet
      <2>0. DOMAIN g = calls
        OBVIOUS
      <2>. HIDE DEF g
      <2>3. FormGone(what) = {[k EXCEPT !.at = g[k]] : k \in calls}
        BY <2>2, Zenon DEF FormGone
      <2>. QED  BY <2>0, <2>1, <2>3, CallsSet
    <1>2. SomeCalls(PanelGone)
      <2>. DEFINE g == [k \in calls |-> "gone"]
      <2>1. DOMAIN g = calls /\ \A k \in calls : g[k] = "gone"
        OBVIOUS
      <2>. HIDE DEF g
      <2>2. PanelGone = {[k EXCEPT !.at = g[k]] : k \in calls}
        BY <2>1, Zenon DEF PanelGone
      <2>. QED  BY <2>1, <2>2, CallsSet
    <1>3. ASSUME NEW S, SomeCalls(S)
          PROVE  SomeCalls(BodyGone(S))
      <2>. DEFINE g == [k \in S |-> IF k.what # "finalize" THEN "gone" ELSE k.at]
      <2>1. \A k \in S : g[k] \in {"form", "panel", "gone"}
        BY <1>3 DEF SomeCalls, CallSet
      <2>2. \A k \in S : [k EXCEPT !.at = g[k]] =
               IF k.what # "finalize" THEN [k EXCEPT !.at = "gone"] ELSE k
        BY <1>3 DEF SomeCalls, CallSet
      <2>0. DOMAIN g = S
        OBVIOUS
      <2>. HIDE DEF g
      <2>3. BodyGone(S) = {[k EXCEPT !.at = g[k]] : k \in S}
        <3>1. ASSUME NEW k \in BodyGone(S)
              PROVE  k \in {[j EXCEPT !.at = g[j]] : j \in S}
          <4>1. PICK j \in S : k = IF j.what # "finalize" THEN [j EXCEPT !.at = "gone"] ELSE j
            BY DEF BodyGone
          <4>2. k = [j EXCEPT !.at = g[j]]
            BY <2>2, <4>1
          <4>. QED  BY <4>2
        <3>2. ASSUME NEW j \in S
              PROVE  [j EXCEPT !.at = g[j]] \in BodyGone(S)
          BY <2>2 DEF BodyGone
        <3>. QED  BY <3>1, <3>2
      <2>. QED  BY <1>3, <2>0, <2>1, <2>3, CallsSet
    <1>. QED  BY <1>1, <1>2, <1>3

LEMMA FewerTyped ==
    ASSUME NEW S, SomeCalls(S), NEW k
    PROVE  SomeCalls(S \ {k}) /\ \A j \in CallSet : SomeCalls(S \cup {j})
    BY FS_RemoveElement, FS_AddElement DEF SomeCalls

LEMMA CallTyped ==
    ASSUME SomeCalls(calls), NEW what \in Moves, Call(what), Row \in RowSet
    PROVE  SomeCalls(calls')
    <1>. DEFINE id == Min((1..MaxCalls) \ Ids)
                new == [id |-> id, what |-> what, row |-> Row, at |-> "form", answer |-> "sent"]
    <1>1. id \in 1..MaxCalls
      BY FreshNumber, PanelsAssumption DEF SomeCalls, Call, Ids
    <1>. HIDE DEF id
    <1>2. new \in CallSet
      BY <1>1 DEF CallSet
    <1>3. calls' = calls \cup {new}
      BY DEF Call, id
    <1>. HIDE DEF new
    <1>. QED  BY <1>2, <1>3, FewerTyped

-----------------------------------------------------------------------------
(* The board never takes an invoice back.                                  *)

\* No invoice walks back.
StepsRise == \A c \in Contracts : invoices[c].step <= invoices'[c].step

LEMMA MovedRises ==
    ASSUME invoices \in [Contracts -> Invoices],
           NEW move \in DOMAIN AsksFor, NEW c \in Contracts, Takes(move, c), invoices' = Moved(move, c)
    PROVE  invoices' \in [Contracts -> Invoices] /\ StepsRise
    <1>1. \A d \in Contracts : invoices[d].step \in 0..4
      BY DEF Invoices, LastStep
    <1>2. invoices[c].step \in 0..3 /\ invoices[c].lines \in 0..MaxLines
      BY DEF Takes, AsksFor, Invoices
    <1>3. CASE move = "adjust"
      BY <1>1, <1>3 DEF Moved, StepsRise
    <1>4. CASE move # "adjust"
      <2>1. invoices' = [invoices EXCEPT ![c].step = @ + 1]
        BY <1>4 DEF Moved
      <2>2. invoices'[c].step = invoices[c].step + 1 /\ \A d \in Contracts \ {c} : invoices'[d] = invoices[d]
        BY <2>1 DEF Invoices
      <2>3. invoices' \in [Contracts -> Invoices]
        BY <1>2, <2>1 DEF Invoices, LastStep
      <2>. QED  BY <1>1, <1>2, <2>2, <2>3 DEF StepsRise
    <1>. QED  BY <1>3, <1>4

LEMMA LinesRise ==
    ASSUME invoices \in [Contracts -> Invoices], NEW c \in Contracts,
           invoices' = [invoices EXCEPT ![c].lines = @ + 1]
    PROVE  StepsRise
    <1>1. \A d \in Contracts : invoices'[d].step = invoices[d].step /\ invoices[d].step \in 0..4
      BY DEF Invoices, LastStep
    <1>. QED  BY <1>1 DEF StepsRise

LEMMA NothingRises ==
    ASSUME invoices \in [Contracts -> Invoices], invoices' = invoices
    PROVE  StepsRise
    <1>1. \A d \in Contracts : invoices[d].step \in 0..4
      BY DEF Invoices, LastStep
    <1>. QED  BY <1>1 DEF StepsRise

LEMMA BoardRises ==
    ASSUME BoardInv, PanelsNext
    PROVE  StepsRise
    <1>0. invoices \in [Contracts -> Invoices]
      BY DEF BoardInv, BoardTyped
    <1>1. CASE Decided
      <2>1. CASE invoices' = invoices
        BY <1>0, <2>1, NothingRises
      <2>2. CASE invoices' # invoices
        <3>1. popup.row.c \in Contracts
          BY <1>1, PopupShape DEF Decided, BoardInv, BoardTyped
        <3>2. invoices' = [invoices EXCEPT ![popup.row.c].lines = @ + 1]
          BY <1>1, <2>2 DEF Decided
        <3>. QED  BY <1>0, <3>1, <3>2, LinesRise
      <2>. QED  BY <2>1, <2>2
    <1>2. ASSUME NEW k \in calls, Reaches(k)
          PROVE  StepsRise
      <2>1. CallShape(k)
        BY DEF BoardInv, BoardTyped
      <2>2. k.row.c \in Contracts /\ k.what \in DOMAIN AsksFor
        BY <2>1 DEF CallShape, RowSet, Moves, AsksFor
      <2>3. PICK took \in BOOLEAN : /\ took => Takes(k.what, k.row.c)
                                    /\ invoices' = IF took THEN Moved(k.what, k.row.c) ELSE invoices
        BY <1>2 DEF Reaches
      <2>. QED  BY <1>0, <2>2, <2>3, MovedRises, NothingRises
    <1>3. CASE BoardElsewhere
      <2>1. ASSUME NEW c \in Contracts, AmountsMove(c)
            PROVE  StepsRise
        BY <1>0, <2>1, LinesRise DEF AmountsMove
      <2>2. ASSUME NEW c \in Contracts, NEW move \in {"finalize", "acknowledge", "upload"},
                   MovedElsewhere(move, c)
            PROVE  StepsRise
        BY <1>0, <2>2, MovedRises DEF MovedElsewhere, AsksFor
      <2>. QED  BY <1>3, <2>1, <2>2 DEF BoardElsewhere
    <1>4. CASE invoices' = invoices
      BY <1>0, <1>4, NothingRises
    <1>5. CASE Admin /\ ~Decided
      <2>1. invoices' = invoices
        BY <1>5 DEF Admin, Open, Retry, Close, OpenContent, CloseContent, AskAdjust, CancelAdjust,
           SubmitAdjust, AskFinalize, CancelFinalize, ConfirmFinalize, Pick, SendProof, SortBy, held
      <2>. QED  BY <1>4, <2>1
    <1>6. CASE Answers
      <2>1. invoices' = invoices \/ \E k \in calls : Reaches(k)
        BY <1>6 DEF Answers, LoadReads, LoadLands, MoveReaches, UploadReaches, AdjustLands,
           FinalizeLands, UploadLands, MoveFails, RefreshLands, deskVars, held
      <2>. QED  BY <1>2, <1>4, <2>1
    <1>. QED  BY <1>1, <1>3, <1>5, <1>6 DEF PanelsNext

LEMMA BoardDesk ==
    ASSUME elsewhere \in 0..MaxElsewhere, presses \in 0..MaxPresses, PanelsNext
    PROVE  /\ UNCHANGED <<comments, periods>>
           /\ elsewhere' \in 0..MaxElsewhere /\ presses' \in 0..MaxPresses
    <1>0. /\ Press => presses' \in 0..MaxPresses /\ elsewhere' = elsewhere
          /\ Elsewhere => elsewhere' \in 0..MaxElsewhere /\ presses' = presses
      BY DeskAssumption DEF Press, Elsewhere
    <1>1. CASE Admin
      BY <1>0, <1>1 DEF Admin, Open, Retry, Close, OpenContent, CloseContent, Decided, AskAdjust,
         CancelAdjust, SubmitAdjust, AskFinalize, CancelFinalize, ConfirmFinalize, Pick, SendProof,
         SortBy, held
    <1>2. CASE Answers
      BY <1>2 DEF Answers, LoadReads, LoadLands, MoveReaches, UploadReaches, Reaches, AdjustLands,
         FinalizeLands, UploadLands, MoveFails, RefreshLands, deskVars, held
    <1>3. CASE BoardElsewhere
      BY <1>0, <1>3 DEF BoardElsewhere, AmountsMove, MovedElsewhere
    <1>. QED  BY <1>1, <1>2, <1>3 DEF PanelsNext

LEMMA BoardRestKept ==
    ASSUME BoardInv, BoardRest, PanelsNext
    PROVE  BoardRest'
    <1>0. /\ BoardTyped /\ SomeCalls(calls)
          /\ popup # Closed => /\ popup \in Popups /\ popup.row \in RowSet /\ Row \in RowSet
                               /\ popup.kind \in Kinds
      BY PopupShape DEF BoardInv, BoardRest
    <1>1. filter' = filter /\ refreshing' \in BOOLEAN /\ content' \in BOOLEAN
      <2>1. CASE Admin
        BY <2>1 DEF BoardRest, Admin, Open, Retry, Close, OpenContent, CloseContent, Decided, closeAll,
           AskAdjust, CancelAdjust, SubmitAdjust, AskFinalize, CancelFinalize, ConfirmFinalize, Pick,
           SendProof, SortBy
      <2>2. CASE Answers
        BY <2>2 DEF BoardRest, Answers, LoadReads, LoadLands, MoveReaches, UploadReaches, Reaches,
           AdjustLands, FinalizeLands, UploadLands, uploaded, moved, MoveFails, RefreshLands
      <2>3. CASE BoardElsewhere
        BY <2>3 DEF BoardRest, BoardElsewhere, panelVars
      <2>. QED  BY <2>1, <2>2, <2>3 DEF PanelsNext
    <1>2. told' \subseteq Contracts \X {1, 3}
      <2>1. \A k \in calls : k.row.c \in Contracts
        BY <1>0 DEF SomeCalls, CallSet, RowSet
      <2>2. CASE \E k \in calls : FinalizeLands(k) \/ UploadLands(k)
        BY <2>1, <2>2 DEF BoardRest, FinalizeLands, UploadLands, uploaded
      <2>3. CASE ~\E k \in calls : FinalizeLands(k) \/ UploadLands(k)
        <3>1. told' = told
          BY <2>3 DEF PanelsNext, Admin, Answers, Open, Retry, Close, OpenContent, CloseContent,
             Decided, AskAdjust, CancelAdjust, SubmitAdjust, AskFinalize, CancelFinalize,
             ConfirmFinalize, Pick, SendProof, SortBy, LoadReads, LoadLands, MoveReaches,
             UploadReaches, Reaches, AdjustLands, MoveFails, RefreshLands, BoardElsewhere, panelVars
        <3>. QED  BY <3>1 DEF BoardRest
      <2>. QED  BY <2>2, <2>3
    <1>3. SomeCalls(calls')
      <2>1. CASE calls' = calls
        BY <1>0, <2>1
      <2>2. CASE Admin /\ calls' # calls
        <3>1. \/ calls' = PanelGone \/ calls' = FormGone("finalize")
              \/ /\ Row \in RowSet
                 /\ Call("adjust") \/ Call("finalize") \/ Call("upload")
          BY <1>0, <2>2 DEF Admin, Open, Retry, Close, OpenContent, CloseContent, Decided, closeAll,
             AskAdjust, CancelAdjust, SubmitAdjust, MayAdjust, AskFinalize, CancelFinalize,
             ConfirmFinalize, MayFinalize, FinalizeDialog, UploadShown, Body, Panel, Pick, SendProof,
             SortBy
        <3>. QED  BY <1>0, <3>1, CallsLeftTyped, CallTyped DEF Moves
      <2>3. CASE Answers /\ calls' # calls
        <3>1. ASSUME NEW k \in calls, Reaches(k)
              PROVE  SomeCalls(calls')
          <4>1. PICK a \in {"ok", "refused", "lost"} :
                   calls' = (calls \ {k}) \cup {[k EXCEPT !.answer = a]}
            BY <3>1 DEF Reaches
          <4>2. [k EXCEPT !.answer = a] \in CallSet
            BY <1>0 DEF SomeCalls, CallSet
          <4>. QED  BY <1>0, <4>1, <4>2, FewerTyped
        <3>2. ASSUME NEW k \in calls, FinalizeLands(k)
              PROVE  SomeCalls(calls')
          <4>1. calls' = BodyGone(calls \ {k})
                \/ calls' = BodyGone(FormGone("finalize") \ {k, [k EXCEPT !.at = "panel"]})
            BY <3>2 DEF FinalizeLands, moved
          <4>2. SomeCalls(FormGone("finalize") \ {k, [k EXCEPT !.at = "panel"]})
            <5>1. FormGone("finalize") \ {k, [k EXCEPT !.at = "panel"]}
                     = (FormGone("finalize") \ {k}) \ {[k EXCEPT !.at = "panel"]}
              OBVIOUS
            <5>. QED  BY <1>0, <5>1, CallsLeftTyped, FewerTyped
          <4>. QED  BY <1>0, <4>1, <4>2, CallsLeftTyped, FewerTyped
        <3>3. ASSUME NEW k \in calls, AdjustLands(k) \/ UploadLands(k) \/ MoveFails(k)
              PROVE  SomeCalls(calls')
          <4>1. calls' = BodyGone(calls \ {k}) \/ calls' = calls \ {k}
            BY <3>3 DEF AdjustLands, moved, UploadLands, MoveFails
          <4>. QED  BY <1>0, <4>1, CallsLeftTyped, FewerTyped
        <3>4. CASE RefreshLands
          BY <1>0, <3>4, CallsLeftTyped DEF RefreshLands
        <3>5. \/ RefreshLands
              \/ \E k \in calls : \/ Reaches(k) \/ FinalizeLands(k)
                                  \/ AdjustLands(k) \/ UploadLands(k) \/ MoveFails(k)
          BY <2>3 DEF Answers, LoadReads, LoadLands, MoveReaches, UploadReaches
        <3>. QED  BY <3>1, <3>2, <3>3, <3>4, <3>5
      <2>4. CASE BoardElsewhere
        BY <2>1, <2>4 DEF BoardElsewhere, panelVars
      <2>. QED  BY <2>1, <2>2, <2>3, <2>4 DEF PanelsNext
    <1>4. \A l \in loads' : l.popup.status = "ready" => l.popup.lines # Nothing
      <2>1. \A l \in Outdated : l.popup.status = "ready" => l.popup.lines # Nothing
        BY <1>0 DEF Outdated, BoardRest, BoardTyped
      <2>2. ASSUME NEW kind, NEW row, fetchFor(kind, row)
            PROVE  \A l \in loads' : l.popup.status = "ready" => l.popup.lines # Nothing
        <3>1. Loading(kind, row).status # "ready"
          BY DEF Loading
        <3>2. loads' = Outdated \cup {[latest |-> TRUE, popup |-> Loading(kind, row)]}
          BY <2>2 DEF fetchFor
        <3>. QED  BY <2>1, <3>1, <3>2
      <2>3. CASE loads' \subseteq loads \/ loads' = Outdated
        BY <2>1, <2>3 DEF BoardRest
      <2>4. ASSUME NEW l \in loads, LoadReads(l)
            PROVE  \A m \in loads' : m.popup.status = "ready" => m.popup.lines # Nothing
        <3>1. PICK status \in {"ready", "failed", "missing"} :
                 loads' = (loads \ {l}) \cup
                    {[l EXCEPT !.popup.status = status,
                               !.popup.lines = IF status = "ready" THEN invoices[l.popup.row.c].lines ELSE Nothing]}
          BY <2>4 DEF LoadReads
        <3>2. l \in [latest : BOOLEAN, popup : Popups] /\ l.popup.row.c \in Contracts
          BY <1>0 DEF BoardTyped, Popups, RowSet
        <3>3. invoices[l.popup.row.c].lines # Nothing
          BY <1>0, <3>2 DEF BoardTyped, Invoices, Nothing
        <3>. DEFINE new == [l EXCEPT !.popup.status = status,
                               !.popup.lines = IF status = "ready" THEN invoices[l.popup.row.c].lines ELSE Nothing]
        <3>4. new.popup.status = status
              /\ new.popup.lines = IF status = "ready" THEN invoices[l.popup.row.c].lines ELSE Nothing
          BY <3>2 DEF Popups
        <3>5. new.popup.status = "ready" => new.popup.lines # Nothing
          BY <3>3, <3>4
        <3>6. loads' = (loads \ {l}) \cup {new}
          BY <3>1
        <3>. HIDE DEF new
        <3>. QED  BY <3>5, <3>6 DEF BoardRest
      <2>5. CASE Admin
        <3>1. loads' = loads \/ loads' = Outdated \/ \E kind, row : fetchFor(kind, row)
          BY <2>5 DEF Admin, Open, Retry, Close, OpenContent, CloseContent, Decided, closeAll,
             AskAdjust, CancelAdjust, SubmitAdjust, AskFinalize, CancelFinalize, ConfirmFinalize,
             Pick, SendProof, SortBy
        <3>. QED  BY <2>2, <2>3, <3>1
      <2>6. CASE Answers
        <3>1. \/ loads' \subseteq loads
              \/ \E l \in loads : LoadReads(l)
              \/ \E kind, row : fetchFor(kind, row)
          BY <2>6 DEF Answers, LoadLands, MoveReaches, UploadReaches, Reaches, AdjustLands,
             FinalizeLands, moved, UploadLands, MoveFails, RefreshLands
        <3>. QED  BY <2>2, <2>3, <2>4, <3>1
      <2>7. CASE BoardElsewhere
        BY <2>3, <2>7 DEF BoardElsewhere, panelVars
      <2>. QED  BY <2>5, <2>6, <2>7 DEF PanelsNext
    <1>5. cache' \subseteq [key : Contracts \X (0..MaxLines), lines : 0..MaxLines]
      <2>1. CASE cache' \subseteq cache
        BY <2>1 DEF BoardRest
      <2>2. ASSUME NEW l \in loads, LoadLands(l)
            PROVE  cache' \subseteq [key : Contracts \X (0..MaxLines), lines : 0..MaxLines]
        <3>1. l.popup \in Popups
          BY <1>0 DEF BoardTyped
        <3>2. l.popup.status = "ready" => l.popup.lines \in 0..MaxLines
          BY <3>1 DEF BoardRest, Popups, LineSet
        <3>3. readKey(l.popup.row) \in Contracts \X (0..MaxLines)
          BY <3>1 DEF Popups, RowSet, readKey
        <3>. QED  BY <2>2, <3>2, <3>3 DEF LoadLands, Kept, BoardRest
      <2>3. CASE ~\E l \in loads : LoadLands(l)
        <3>1. cache' \subseteq cache
          BY <2>3 DEF PanelsNext, Admin, Answers, Open, Retry, Close, OpenContent, CloseContent,
             Decided, AskAdjust, CancelAdjust, SubmitAdjust, AskFinalize, CancelFinalize,
             ConfirmFinalize, Pick, SendProof, SortBy, LoadReads, MoveReaches,
             UploadReaches, Reaches, AdjustLands, FinalizeLands, moved, UploadLands, uploaded, MoveFails,
             RefreshLands, BoardElsewhere, panelVars
        <3>. QED  BY <2>1, <3>1
      <2>. QED  BY <2>2, <2>3
    <1>. QED  BY <1>1, <1>2, <1>3, <1>4, <1>5 DEF BoardRest

-----------------------------------------------------------------------------
(* What holds of the server, the page and the admin's end of a thread.     *)

Increasing(s) == \A i, j \in DOMAIN s : i < j => s[i] < s[j]

\* What the server answers for an invoice at this moment.
Standing(c) == [step |-> invoices[c].step, thread |-> comments[c]]

IsReading(r) ==
    /\ r.step \in 0..LastStep
    /\ r.thread \in Seq(1..MaxComments)
    /\ Increasing(r.thread)

\* One reading of an invoice is no newer than another.
NoNewer(r, s) == r.step <= s.step /\ Range(r.thread) \subseteq Range(s.thread)

AllSaved == UNION {Range(comments[c]) : c \in Contracts}

\* Comments are numbered through, and each thread is in their order.
DeskInv ==
    /\ DeskTypeOK
    /\ \E n \in Contracts : periods = 1..n
    /\ Said \in 0..MaxComments
    /\ AllSaved = 1..Said
    /\ \A c \in Contracts : Increasing(comments[c])

\* The readings of all invoices so far that one answer brought.
IsRead(read) ==
    /\ \E n \in Contracts : DOMAIN read = 1..n
    /\ \A c \in DOMAIN read : /\ c \in periods
                              /\ IsReading(read[c])
                              /\ NoNewer(read[c], Standing(c))

PageIsRead ==
    /\ IsRead(page)
    /\ reread = [going |-> reread.going, read |-> reread.read]
    /\ reread.going \in BOOLEAN
    /\ reread.read # NoRead =>
          /\ IsRead(reread.read)
          /\ \A c \in DOMAIN page : c \in DOMAIN reread.read /\ NoNewer(page[c], reread.read[c])

AskSet == [id : 1..MaxAsks, view : Views, what : CreatorMoves \cup {"comment"},
           c : Contracts, at : {"form", "view", "gone"},
           answer : {"sent", "ok", "failed"}, saved : 0..MaxComments]

PageTyped ==
    /\ views \in [Views -> [tab : Tabs, sent : Seq(1..MaxComments), asking : BOOLEAN]]
    /\ opened \in Contracts \cup {0} /\ detail \in BOOLEAN
    /\ asks \subseteq AskSet /\ IsFiniteSet(asks)
    /\ heard \subseteq Contracts \X {2, 4}

\* A sheet that is not on screen holds nothing.
LayersHold ==
    /\ opened # 0 => opened \in DOMAIN page
    /\ ~Sheet => /\ views["sheet"] = NewView
                 /\ \A a \in asks : a.view = "sheet" => a.at = "gone"
    /\ \A v \in Views : views[v].asking => Due(v) # "none"

\* A comment that was saved is shown, or about to be, in one place.
SentOnce ==
    /\ \A v \in Views : IsInjective(views[v].sent) /\ Range(views[v].sent) \subseteq 1..Said
    /\ \A a \in asks : a.saved # 0 =>
          a.saved \in 1..Said /\ \A v \in Views : a.saved \notin Range(views[v].sent)
    /\ \A a, b \in asks : a.saved # 0 /\ a.saved = b.saved => a = b

IsMove(a) == a.view = "current" /\ a.what \in CreatorMoves

\* Once it lost its control, the page offers a move no more.
MovesOnce ==
    /\ \A a \in asks : IsMove(a) =>
          /\ a.c \in DOMAIN page
          /\ page[a.c].step >= AsksFor[a.what]
          /\ a.at # "form" => a.c < current \/ page[a.c].step > AsksFor[a.what]
    /\ \A a, b \in asks : IsMove(a) /\ IsMove(b) /\ a.what = b.what /\ a.c = b.c => a = b

ThreadInv ==
    /\ thread \in Threads \cup {NoThread}
    /\ thread # NoThread =>
          /\ Increasing(thread.shown)
          /\ Range(thread.shown) \subseteq Range(comments[thread.c])
          /\ thread.state # "loaded" => thread.sending = "no"
          /\ thread.sending = "saved" =>
                /\ thread.saved \in Range(comments[thread.c])
                /\ \A i \in DOMAIN thread.shown : thread.shown[i] < thread.saved

PageInv == PageIsRead /\ PageTyped /\ LayersHold /\ SentOnce /\ MovesOnce /\ ThreadInv

-----------------------------------------------------------------------------
(* What a thread shows.                                                    *)

Collects(f, sent, known) ==
    f = [n \in 0..Len(sent) |->
           IF n = 0 THEN <<>>
           ELSE IF sent[n] \in known THEN f[n - 1]
           ELSE Append(f[n - 1], sent[n])]

\* The first comments of a list, gathered.
LEMMA CollectorExists ==
    ASSUME NEW S, NEW sent \in Seq(S), NEW known
    PROVE  \E f : Collects(f, sent, known)
    <1>. DEFINE Upto(f, m) == f = [n \in 0..m |->
                                     IF n = 0 THEN <<>>
                                     ELSE IF sent[n] \in known THEN f[n - 1]
                                     ELSE Append(f[n - 1], sent[n])]
                T == {m \in Nat : \E f : Upto(f, m)}
    <1>1. 0 \in T
      <2>. DEFINE f == [n \in 0..0 |-> <<>>]
      <2>1. Upto(f, 0)
        OBVIOUS
      <2>. QED  BY <2>1
    <1>2. ASSUME NEW m \in Nat, m \in T
          PROVE  m + 1 \in T
      <2>1. PICK f : Upto(f, m)
        BY <1>2
      <2>. DEFINE h == [n \in 0..m + 1 |->
                          IF n <= m THEN f[n]
                          ELSE IF sent[n] \in known THEN f[m] ELSE Append(f[m], sent[n])]
                  body(n) == IF n = 0 THEN <<>>
                             ELSE IF sent[n] \in known THEN h[n - 1] ELSE Append(h[n - 1], sent[n])
      <2>2. \A n \in 0..m : f[n] = IF n = 0 THEN <<>>
                                   ELSE IF sent[n] \in known THEN f[n - 1] ELSE Append(f[n - 1], sent[n])
        BY <2>1
      <2>3. \A n \in 0..m : h[n] = f[n]
        OBVIOUS
      <2>4. h[m + 1] = IF sent[m + 1] \in known THEN f[m] ELSE Append(f[m], sent[m + 1])
        OBVIOUS
      <2>5. DOMAIN h = 0..m + 1 /\ h = [n \in 0..m + 1 |-> h[n]]
        OBVIOUS
      <2>. HIDE DEF h
      <2>6. \A n \in 0..m + 1 : h[n] = body(n)
        <3>. SUFFICES ASSUME NEW n \in 0..m + 1
                      PROVE  h[n] = body(n)
          OBVIOUS
        <3>1. CASE n = m + 1
          <4>1. n - 1 = m /\ n # 0 /\ h[n - 1] = f[m]
            BY <2>3, <3>1
          <4>. QED  BY <2>4, <3>1, <4>1
        <3>2. CASE n \in 0..m
          <4>1. n # 0 => h[n - 1] = f[n - 1]
            BY <2>3, <3>2
          <4>. QED  BY <2>2, <2>3, <3>2, <4>1
        <3>. QED  BY <3>1, <3>2
      <2>7. Upto(h, m + 1)
        <3>. HIDE DEF h
        <3>. QED  BY <2>5, <2>6
      <2>. HIDE DEF Upto
      <2>. QED  BY <2>7
    <1>3. Nat \subseteq T
      <2>. HIDE DEF T
      <2>. QED  BY <1>1, <1>2, EveryNumber
    <1>4. Len(sent) \in Nat
      OBVIOUS
    <1>5. PICK f : Upto(f, Len(sent))
      <2>1. Len(sent) \in T
        <3>. HIDE DEF T
        <3>. QED  BY <1>3, <1>4
      <2>. HIDE DEF Upto
      <2>. QED  BY <2>1
    <1>. QED  BY <1>5 DEF Collects

\* What is left of a list has no more than the list, no comment twice, and none known.
LEMMA UnreadKeeps ==
    ASSUME NEW S, NEW sent \in Seq(S), NEW known
    PROVE  /\ Unread(sent, known) \in Seq(S)
           /\ Range(Unread(sent, known)) = Range(sent) \ known
           /\ IsInjective(sent) => IsInjective(Unread(sent, known))
    <1>. DEFINE f == CHOOSE f : Collects(f, sent, known)
                First(n) == {sent[i] : i \in 1..n}
                Good(n) == /\ f[n] \in Seq(S)
                           /\ Range(f[n]) = First(n) \ known
                           /\ IsInjective(sent) => IsInjective(f[n])
                T == {n \in Nat : n <= Len(sent) => Good(n)}
    <1>1. Collects(f, sent, known)
      BY CollectorExists
    <1>2. Unread(sent, known) = f[Len(sent)]
      BY DEF Unread, Collects
    <1>. HIDE DEF f
    <1>3. 0 \in T
      <2>1. f[0] = <<>>
        BY <1>1 DEF Collects
      <2>2. Good(0)
        BY <2>1 DEF Range, IsInjective
      <2>. HIDE DEF Good
      <2>. QED  BY <2>2
    <1>4. ASSUME NEW n \in Nat, n \in T
          PROVE  n + 1 \in T
      <2>. SUFFICES ASSUME n + 1 <= Len(sent)
                    PROVE  Good(n + 1)
        OBVIOUS
      <2>1. f[n + 1] = IF sent[n + 1] \in known THEN f[n] ELSE Append(f[n], sent[n + 1])
        <3>1. n + 1 \in 0..Len(sent) /\ n + 1 # 0 /\ (n + 1) - 1 = n
          OBVIOUS
        <3>2. \A m \in 0..Len(sent) :
                f[m] = IF m = 0 THEN <<>>
                       ELSE IF sent[m] \in known THEN f[m - 1] ELSE Append(f[m - 1], sent[m])
          BY <1>1 DEF Collects
        <3>. QED  BY <3>1, <3>2
      <2>2. f[n] \in Seq(S) /\ Range(f[n]) = First(n) \ known /\ (IsInjective(sent) => IsInjective(f[n]))
        BY <1>4
      <2>3. First(n + 1) = First(n) \cup {sent[n + 1]} /\ sent[n + 1] \in S
        OBVIOUS
      <2>4. IsInjective(sent) => sent[n + 1] \notin First(n)
        BY DEF IsInjective
      <2>. HIDE DEF First
      <2>5. CASE sent[n + 1] \in known
        <3>1. f[n + 1] = f[n]
          BY <2>1, <2>5
        <3>2. First(n + 1) \ known = First(n) \ known
          BY <2>3, <2>5
        <3>. QED  BY <2>2, <3>1, <3>2
      <2>6. CASE sent[n + 1] \notin known
        <3>1. f[n + 1] = Append(f[n], sent[n + 1])
          BY <2>1, <2>6
        <3>2. /\ f[n + 1] \in Seq(S) /\ DOMAIN f[n + 1] = 1..Len(f[n]) + 1 /\ DOMAIN f[n] = 1..Len(f[n])
              /\ Len(f[n]) \in Nat
              /\ \A i \in 1..Len(f[n]) : f[n + 1][i] = f[n][i]
              /\ f[n + 1][Len(f[n]) + 1] = sent[n + 1]
          BY <2>2, <2>3, <3>1
        <3>3. Range(f[n + 1]) = Range(f[n]) \cup {sent[n + 1]}
          <4>1. \A i \in DOMAIN f[n + 1] : f[n + 1][i] \in Range(f[n]) \cup {sent[n + 1]}
            BY <3>2 DEF Range
          <4>2. \A i \in DOMAIN f[n] : f[n][i] \in Range(f[n + 1])
            BY <3>2 DEF Range
          <4>3. sent[n + 1] \in Range(f[n + 1])
            BY <3>2 DEF Range
          <4>. QED  BY <4>1, <4>2, <4>3 DEF Range
        <3>4. Range(f[n + 1]) = First(n + 1) \ known
          BY <2>2, <2>3, <2>6, <3>3
        <3>5. ASSUME IsInjective(sent)
              PROVE  IsInjective(f[n + 1])
          <4>1. \A i \in 1..Len(f[n]) : f[n][i] # sent[n + 1]
            BY <2>2, <2>4, <3>2, <3>5 DEF Range
          <4>2. IsInjective(f[n])
            BY <2>2, <3>5
          <4>3. \A i, j \in 1..Len(f[n]) : f[n][i] = f[n][j] => i = j
            BY <3>2, <4>2 DEF IsInjective
          <4>4. \A i \in 1..Len(f[n]) + 1 : i \in 1..Len(f[n]) \/ i = Len(f[n]) + 1
            BY <3>2
          <4>5. \A i, j \in 1..Len(f[n]) + 1 : f[n + 1][i] = f[n + 1][j] => i = j
            BY <3>2, <4>1, <4>3, <4>4
          <4>. QED  BY <3>2, <4>5 DEF IsInjective
        <3>. QED  BY <3>2, <3>4, <3>5
      <2>. QED  BY <2>5, <2>6
    <1>5. Len(sent) \in T
      <2>. HIDE DEF T
      <2>1. Nat \subseteq T
        BY <1>3, <1>4, EveryNumber
      <2>. QED  BY <2>1
    <1>6. Range(sent) = First(Len(sent))
      BY DEF Range
    <1>7. Good(Len(sent))
      <2>1. Len(sent) \in Nat
        OBVIOUS
      <2>. HIDE DEF Good
      <2>. QED  BY <1>5, <2>1
    <1>. QED  BY <1>2, <1>6, <1>7

\* One comment more at the end.
LEMMA Appended ==
    ASSUME NEW S, NEW s \in Seq(S), NEW e \in S
    PROVE  /\ Append(s, e) \in Seq(S)
           /\ Range(Append(s, e)) = Range(s) \cup {e}
           /\ IsInjective(s) /\ e \notin Range(s) => IsInjective(Append(s, e))
    <1>1. /\ Append(s, e) \in Seq(S) /\ Len(s) \in Nat
          /\ DOMAIN Append(s, e) = 1..Len(s) + 1 /\ DOMAIN s = 1..Len(s)
          /\ \A i \in 1..Len(s) : Append(s, e)[i] = s[i]
          /\ Append(s, e)[Len(s) + 1] = e
      OBVIOUS
    <1>2. Range(Append(s, e)) = Range(s) \cup {e}
      BY <1>1 DEF Range
    <1>3. ASSUME IsInjective(s), e \notin Range(s)
          PROVE  IsInjective(Append(s, e))
      <2>1. \A i \in 1..Len(s) : s[i] # e
        BY <1>1, <1>3 DEF Range
      <2>. QED  BY <1>1, <1>3, <2>1 DEF IsInjective
    <1>. QED  BY <1>1, <1>2, <1>3

LEMMA NotTheLast ==
    ASSUME NEW k \in Nat, NEW i \in 1..k + 1, NEW j \in 1..k + 1, i < j
    PROVE  i \in 1..k /\ (j = k + 1 \/ j \in 1..k)
    OBVIOUS

LEMMA AppendedLater ==
    ASSUME NEW n \in Nat, NEW s \in Seq(1..n), NEW e \in 1..n, Increasing(s),
           \A i \in DOMAIN s : s[i] < e
    PROVE  Increasing(Append(s, e))
    <1>1. /\ Len(s) \in Nat
          /\ DOMAIN Append(s, e) = 1..Len(s) + 1 /\ DOMAIN s = 1..Len(s)
          /\ \A i \in 1..Len(s) : Append(s, e)[i] = s[i]
          /\ Append(s, e)[Len(s) + 1] = e
      OBVIOUS
    <1>. SUFFICES ASSUME NEW i \in 1..Len(s) + 1, NEW j \in 1..Len(s) + 1, i < j
                  PROVE  Append(s, e)[i] < Append(s, e)[j]
      BY <1>1 DEF Increasing
    <1>2. i \in 1..Len(s) /\ (j = Len(s) + 1 \/ j \in 1..Len(s))
      BY <1>1, NotTheLast, Zenon
    <1>3. CASE j = Len(s) + 1
      BY <1>1, <1>2, <1>3
    <1>4. CASE j \in 1..Len(s)
      BY <1>1, <1>2, <1>4 DEF Increasing
    <1>. QED  BY <1>2, <1>3, <1>4

LEMMA IncreasingIsInjective ==
    ASSUME NEW n \in Nat, NEW s \in Seq(1..n), Increasing(s)
    PROVE  IsInjective(s)
    <1>1. \A i \in DOMAIN s : i \in Nat /\ s[i] \in Nat
      OBVIOUS
    <1>2. \A i, j \in DOMAIN s : s[i] = s[j] => ~(i < j) /\ ~(j < i)
      BY <1>1 DEF Increasing
    <1>. QED  BY <1>1, <1>2 DEF IsInjective

\* A list and what it has not yet, one after the other.
LEMMA ThreadIs ==
    ASSUME NEW S, NEW brought \in Seq(S), NEW sent \in Seq(S)
    PROVE  LET all == brought \o Unread(sent, Range(brought)) IN
           /\ Range(all) = Range(brought) \cup Range(sent)
           /\ IsInjective(brought) /\ IsInjective(sent) => IsInjective(all)
    <1>. DEFINE rest == Unread(sent, Range(brought))
                all == brought \o rest
    <1>1. /\ rest \in Seq(S) /\ Range(rest) = Range(sent) \ Range(brought)
          /\ IsInjective(sent) => IsInjective(rest)
      BY UnreadKeeps
    <1>. HIDE DEF rest
    <1>2. /\ Len(brought) \in Nat /\ Len(rest) \in Nat
          /\ DOMAIN brought = 1..Len(brought) /\ DOMAIN rest = 1..Len(rest)
          /\ DOMAIN all = 1..(Len(brought) + Len(rest))
          /\ \A i \in 1..Len(brought) : all[i] = brought[i]
          /\ \A i \in 1..Len(rest) : all[Len(brought) + i] = rest[i]
      BY <1>1
    <1>3. \A i \in DOMAIN all : i \in 1..Len(brought) \/ i - Len(brought) \in 1..Len(rest)
      BY <1>2
    <1>4. \A i \in DOMAIN all : i \notin 1..Len(brought) => all[i] = rest[i - Len(brought)]
      <2>. SUFFICES ASSUME NEW i \in DOMAIN all, i \notin 1..Len(brought)
                    PROVE  all[i] = rest[i - Len(brought)]
        OBVIOUS
      <2>1. i - Len(brought) \in 1..Len(rest) /\ Len(brought) + (i - Len(brought)) = i
        BY <1>2, <1>3
      <2>. QED  BY <1>2, <2>1
    <1>. HIDE DEF all
    <1>5. Range(all) = Range(brought) \cup Range(rest)
      <2>1. \A i \in DOMAIN all : all[i] \in Range(brought) \cup Range(rest)
        BY <1>2, <1>3, <1>4 DEF Range
      <2>2. \A i \in DOMAIN brought : brought[i] \in Range(all)
        BY <1>2 DEF Range
      <2>3. \A i \in DOMAIN rest : rest[i] \in Range(all)
        <3>. SUFFICES ASSUME NEW i \in DOMAIN rest
                      PROVE  rest[i] \in Range(all)
          OBVIOUS
        <3>1. Len(brought) + i \in DOMAIN all /\ all[Len(brought) + i] = rest[i]
          BY <1>2
        <3>. QED  BY <3>1 DEF Range
      <2>. QED  BY <2>1, <2>2, <2>3 DEF Range
    <1>6. Range(all) = Range(brought) \cup Range(sent)
      BY <1>1, <1>5
    <1>7. ASSUME IsInjective(brought), IsInjective(sent)
          PROVE  IsInjective(all)
      <2>1. IsInjective(rest)
        BY <1>1, <1>7
      <2>2. \A i \in 1..Len(brought), j \in 1..Len(rest) : brought[i] # rest[j]
        <3>1. \A i \in 1..Len(brought) : brought[i] \in Range(brought)
          BY <1>2 DEF Range
        <3>2. \A j \in 1..Len(rest) : rest[j] \notin Range(brought)
          BY <1>1, <1>2 DEF Range
        <3>. QED  BY <3>1, <3>2
      <2>. SUFFICES ASSUME NEW i \in DOMAIN all, NEW j \in DOMAIN all, all[i] = all[j]
                    PROVE  i = j
        BY DEF IsInjective
      <2>3. CASE i \in 1..Len(brought) /\ j \in 1..Len(brought)
        BY <1>2, <1>7, <2>3 DEF IsInjective
      <2>4. CASE i \notin 1..Len(brought) /\ j \notin 1..Len(brought)
        <3>1. i - Len(brought) = j - Len(brought)
          BY <1>2, <1>3, <1>4, <2>1, <2>4 DEF IsInjective
        <3>. QED  BY <1>2, <3>1
      <2>5. CASE i \in 1..Len(brought) /\ j \notin 1..Len(brought)
        BY <1>2, <1>3, <1>4, <2>2, <2>5
      <2>6. CASE i \notin 1..Len(brought) /\ j \in 1..Len(brought)
        BY <1>2, <1>3, <1>4, <2>2, <2>6
      <2>. QED  BY <2>3, <2>4, <2>5, <2>6
    <1>. QED  BY <1>6, <1>7 DEF all, rest

-----------------------------------------------------------------------------
(* The server under the page.                                              *)

Saves(c) == Said < MaxComments /\ comments' = Commented(c)

LEMMA SavedLast ==
    ASSUME DeskInv, NEW c \in Contracts, Saves(c)
    PROVE  /\ comments' \in [Contracts -> Seq(1..MaxComments)]
           /\ Said + 1 \in 1..MaxComments
           /\ AllSaved' = 1..Said'
           /\ Said' = Said + 1
           /\ \A d \in Contracts : /\ Range(comments[d]) \subseteq Range(comments'[d])
                                   /\ Increasing(comments'[d])
           /\ Said + 1 \in Range(comments'[c])
    <1>. DEFINE new == Said + 1
    <1>0. /\ comments \in [Contracts -> Seq(1..MaxComments)] /\ MaxComments \in Nat
          /\ Said \in Nat /\ new \in 1..MaxComments /\ AllSaved = 1..Said
          /\ \A d \in Contracts : Increasing(comments[d])
      BY DeskAssumption DEF DeskInv, DeskTypeOK, Saves
    <1>. HIDE DEF new
    <1>1. comments' = [comments EXCEPT ![c] = Append(@, new)]
      BY DEF Saves, Commented, new
    <1>2. comments[c] \in Seq(1..MaxComments)
      BY <1>0
    <1>3. /\ Append(comments[c], new) \in Seq(1..MaxComments)
          /\ Range(Append(comments[c], new)) = Range(comments[c]) \cup {new}
      BY <1>0, <1>2, Appended
    <1>4. /\ comments'[c] = Append(comments[c], new)
          /\ \A d \in Contracts \ {c} : comments'[d] = comments[d]
          /\ comments' \in [Contracts -> Seq(1..MaxComments)]
      BY <1>0, <1>1, <1>3
    <1>5. /\ \A d \in Contracts \ {c} : Range(comments'[d]) = Range(comments[d])
          /\ Range(comments'[c]) = Range(comments[c]) \cup {new}
      BY <1>3, <1>4
    <1>6. AllSaved' = AllSaved \cup {new}
      BY <1>5, Zenon DEF AllSaved
    <1>7. AllSaved' = 1..new
      BY <1>0, <1>6 DEF new
    <1>8. Said' = new
      <2>1. Said' = Cardinality(AllSaved')
        BY DEF Said, AllSaved
      <2>2. Cardinality(1..new) = new
        BY <1>0, FS_Interval
      <2>. QED  BY <1>7, <2>1, <2>2
    <1>9. Increasing(comments'[c])
      <2>1. \A i \in DOMAIN comments[c] : comments[c][i] \in AllSaved
        BY DEF AllSaved, Range
      <2>2. \A i \in DOMAIN comments[c] : comments[c][i] < new
        BY <1>0, <2>1 DEF new
      <2>. QED  BY <1>0, <1>2, <1>4, <2>2, AppendedLater
    <1>10. \A d \in Contracts : Range(comments[d]) \subseteq Range(comments'[d]) /\ Increasing(comments'[d])
      BY <1>0, <1>4, <1>5, <1>9
    <1>. QED  BY <1>0, <1>4, <1>5, <1>7, <1>8, <1>10 DEF new

\* What any step does to the server, seen from the screens.
DeskGrows ==
    /\ StepsRise
    /\ \A c \in Contracts : Range(comments[c]) \subseteq Range(comments'[c])
    /\ periods \subseteq periods'
    /\ Said \in Nat /\ Said' \in Nat /\ Said <= Said'

LEMMA ThreadsStand ==
    ASSUME DeskInv, comments' = comments, periods' = periods, StepsRise,
           invoices' \in [Contracts -> Invoices],
           elsewhere' \in 0..MaxElsewhere, presses' \in 0..MaxPresses
    PROVE  DeskInv' /\ DeskGrows
    <1>1. AllSaved' = AllSaved /\ Said' = Said
      BY DEF AllSaved, Said
    <1>2. DeskInv'
      BY <1>1 DEF DeskInv, DeskTypeOK
    <1>. QED  BY <1>1, <1>2 DEF DeskInv, DeskGrows

LEMMA SavesStand ==
    ASSUME DeskInv, NEW c \in Contracts, Saves(c),
           UNCHANGED <<invoices, periods, presses>>, elsewhere' \in 0..MaxElsewhere
    PROVE  DeskInv' /\ DeskGrows
    <1>1. StepsRise
      BY NothingRises DEF DeskInv, DeskTypeOK
    <1>2. DeskInv'
      <2>1. DeskTypeOK'
        BY SavedLast DEF DeskInv, DeskTypeOK
      <2>2. Said' \in 0..MaxComments /\ AllSaved' = 1..Said' /\ \A d \in Contracts : Increasing(comments'[d])
        BY SavedLast
      <2>. QED  BY <2>1, <2>2 DEF DeskInv
    <1>3. \A d \in Contracts : Range(comments[d]) \subseteq Range(comments'[d])
      BY SavedLast
    <1>4. Said \in Nat /\ Said' = Said + 1
      BY SavedLast DEF DeskInv
    <1>. QED  BY <1>1, <1>2, <1>3, <1>4 DEF DeskGrows

LEMMA TurnsStand ==
    ASSUME DeskInv, NEW c \in Contracts, Saves(c),
           UNCHANGED <<invoices, periods, elsewhere, presses>>
    PROVE  DeskInv' /\ DeskGrows
    BY SavesStand DEF DeskInv, DeskTypeOK

LEMMA DeskStands ==
    ASSUME DeskInv, UNCHANGED deskVars \/ (Press /\ UNCHANGED held)
    PROVE  DeskInv' /\ DeskGrows
    <1>1. /\ UNCHANGED <<invoices, comments, periods>>
          /\ elsewhere' \in 0..MaxElsewhere /\ presses' \in 0..MaxPresses
      BY DeskAssumption DEF DeskInv, DeskTypeOK, deskVars, held, Press
    <1>2. StepsRise /\ invoices' \in [Contracts -> Invoices]
      BY <1>1, NothingRises DEF DeskInv, DeskTypeOK
    <1>. QED  BY <1>1, <1>2, ThreadsStand

LEMMA ElsewhereGrows ==
    ASSUME DeskInv, PageElsewhere
    PROVE  DeskInv' /\ DeskGrows
    <1>0. /\ Elsewhere => elsewhere' \in 0..MaxElsewhere /\ presses' = presses
          /\ invoices \in [Contracts -> Invoices] /\ periods \subseteq Contracts
          /\ elsewhere \in 0..MaxElsewhere /\ presses \in 0..MaxPresses
      BY DeskAssumption DEF Elsewhere, DeskInv, DeskTypeOK
    <1>1. ASSUME NEW c \in periods, NEW move \in DOMAIN AsksFor, MovedElsewhere(move, c)
          PROVE  DeskInv' /\ DeskGrows
      <2>1. invoices' \in [Contracts -> Invoices] /\ StepsRise
        BY <1>0, <1>1, MovedRises DEF MovedElsewhere
      <2>. QED  BY <1>0, <1>1, <2>1, ThreadsStand DEF MovedElsewhere
    <1>2. ASSUME NEW c \in periods, Renewed(c + 1)
          PROVE  DeskInv' /\ DeskGrows
      <2>1. /\ c + 1 \in Contracts \ periods /\ periods' = periods \cup {c + 1}
            /\ UNCHANGED <<invoices, comments, presses>> /\ elsewhere' \in 0..MaxElsewhere
        BY <1>0, <1>2 DEF Renewed
      <2>2. PICK n \in Contracts : periods = 1..n
        BY DEF DeskInv
      <2>3. n \in Nat /\ c \in Nat
        BY <1>0, DeskAssumption, FS_CardinalityType
      <2>4. c = n /\ periods' = 1..n + 1
        BY <2>1, <2>2, <2>3
      <2>5. AllSaved' = AllSaved /\ Said' = Said
        BY <2>1 DEF AllSaved, Said
      <2>6. \E m \in Contracts : periods' = 1..m
        BY <2>1, <2>4
      <2>7. DeskInv'
        BY <1>0, <2>1, <2>5, <2>6 DEF DeskInv, DeskTypeOK
      <2>. QED  BY <1>0, <2>1, <2>5, <2>7, NothingRises DEF DeskInv, DeskGrows
    <1>3. ASSUME NEW c \in periods, CommentedElsewhere(c)
          PROVE  DeskInv' /\ DeskGrows
      <2>1. Saves(c) /\ UNCHANGED <<invoices, periods, presses>> /\ elsewhere' \in 0..MaxElsewhere
        BY <1>0, <1>3 DEF CommentedElsewhere, Saves
      <2>. QED  BY <1>0, <2>1, SavesStand
    <1>. QED  BY <1>1, <1>2, <1>3 DEF PageElsewhere

LEMMA BoardGrows ==
    ASSUME DeskInv, BoardInv, PanelsNext
    PROVE  DeskInv' /\ DeskGrows
    <1>1. BoardInv' /\ StepsRise
      BY BoardSteps, BoardRises
    <1>2. /\ UNCHANGED <<comments, periods>>
          /\ elsewhere' \in 0..MaxElsewhere /\ presses' \in 0..MaxPresses
      BY BoardDesk DEF DeskInv, DeskTypeOK
    <1>. QED  BY <1>1, <1>2, ThreadsStand DEF BoardInv, BoardTyped

LEMMA DeskStarts ==
    ASSUME DeskInit, PageInit
    PROVE  DeskInv
    <1>1. PICK opening \in Openings :
             invoices = [c \in Contracts |-> [step |-> opening[c], lines |-> 0]]
      BY DEF DeskInit
    <1>2. opening \in [Contracts -> 0..4]
      BY DeskAssumption
    <1>3. invoices \in [Contracts -> Invoices]
      BY <1>1, <1>2, DeskAssumption DEF Invoices, LastStep
    <1>4. \A c \in Contracts : comments[c] = <<>> /\ Range(comments[c]) = {}
      BY DEF DeskInit, Range
    <1>5. AllSaved = {} /\ Said = 0
      <2>1. AllSaved = {}
        BY <1>4 DEF AllSaved
      <2>. QED  BY <2>1, FS_EmptySet DEF AllSaved, Said
    <1>6. Contracts \subseteq Nat /\ \A n \in Contracts : 1..n \subseteq Contracts
      BY DeskAssumption, FS_CardinalityType
    <1>7. periods \subseteq Contracts /\ \E n \in Contracts : periods = 1..n
      BY <1>6 DEF PageInit
    <1>8. comments \in [Contracts -> Seq(1..MaxComments)] /\ \A c \in Contracts : Increasing(comments[c])
      BY <1>4 DEF DeskInit, Increasing
    <1>9. elsewhere \in 0..MaxElsewhere /\ presses \in 0..MaxPresses /\ MaxComments \in Nat
      BY DeskAssumption DEF DeskInit
    <1>. QED  BY <1>3, <1>5, <1>7, <1>8, <1>9 DEF DeskInv, DeskTypeOK

-----------------------------------------------------------------------------
(* What the page was given.                                                *)

LEMMA CurrentIs ==
    ASSUME NEW read, \E n \in Contracts : DOMAIN read = 1..n
    PROVE  /\ Max(DOMAIN read) \in Contracts /\ Max(DOMAIN read) \in Nat
           /\ DOMAIN read = 1..Max(DOMAIN read)
    <1>1. PICK n \in Contracts : DOMAIN read = 1..n
      OBVIOUS
    <1>2. n \in Nat /\ n >= 1
      BY DeskAssumption, FS_CardinalityType
    <1>3. n \in DOMAIN read /\ \A m \in DOMAIN read : n >= m /\ m \in Nat
      BY <1>1, <1>2
    <1>4. Max(DOMAIN read) \in DOMAIN read /\ \A m \in DOMAIN read : Max(DOMAIN read) >= m
      BY <1>3 DEF Max
    <1>5. Max(DOMAIN read) = n
      BY <1>3, <1>4
    <1>. QED  BY <1>1, <1>2, <1>5

\* The latest period of the page.
LEMMA CurrentShown ==
    ASSUME IsRead(page)
    PROVE  /\ current \in Contracts /\ current \in Nat
           /\ DOMAIN page = 1..current /\ current \in DOMAIN page
           /\ DOMAIN page \subseteq Contracts
    <1>1. /\ current \in Contracts /\ current \in Nat /\ DOMAIN page = 1..current
      BY CurrentIs DEF IsRead, current
    <1>2. Contracts = 1..Cardinality(Contracts) /\ Cardinality(Contracts) \in Nat
      BY DeskAssumption, FS_CardinalityType
    <1>. QED  BY <1>1, <1>2

LEMMA ReadStays ==
    ASSUME DeskInv, DeskInv', DeskGrows, NEW read, IsRead(read)
    PROVE  /\ \E n \in Contracts : DOMAIN read = 1..n
           /\ \A c \in DOMAIN read : /\ c \in periods' /\ IsReading(read[c])
                                     /\ NoNewer(read[c], Standing(c)')
    <1>. SUFFICES ASSUME NEW c \in DOMAIN read
                  PROVE  c \in periods' /\ IsReading(read[c]) /\ NoNewer(read[c], Standing(c)')
      BY DEF IsRead
    <1>1. c \in periods /\ c \in Contracts /\ IsReading(read[c]) /\ NoNewer(read[c], Standing(c))
      BY DEF IsRead, DeskInv, DeskTypeOK
    <1>2. read[c].step \in 0..4 /\ invoices[c].step \in 0..4
      BY <1>1 DEF IsReading, DeskInv, DeskTypeOK, Invoices, LastStep
    <1>3. invoices[c].step <= invoices'[c].step /\ Range(comments[c]) \subseteq Range(comments'[c])
      BY <1>1 DEF DeskGrows, StepsRise
    <1>4. /\ read[c].step <= invoices[c].step /\ Range(read[c].thread) \subseteq Range(comments[c])
      BY <1>1 DEF NoNewer, Standing
    <1>5. invoices'[c].step \in 0..4
      BY <1>1 DEF DeskInv, DeskTypeOK, Invoices, LastStep
    <1>6. read[c].step <= invoices'[c].step
      BY <1>2, <1>3, <1>4, <1>5
    <1>7. c \in periods'
      BY <1>1 DEF DeskGrows
    <1>. QED  BY <1>1, <1>3, <1>4, <1>6, <1>7 DEF NoNewer, Standing

PageGrows ==
    /\ current \in Nat /\ current' \in Nat /\ current <= current'
    /\ \A c \in DOMAIN page :
          /\ c \in DOMAIN page' /\ NoNewer(page[c], page'[c])
          /\ page[c].step \in 0..4 /\ page'[c].step \in 0..4

LEMMA PageStands ==
    ASSUME DeskInv, DeskInv', DeskGrows, PageIsRead, page' = page, reread' = reread \/ readAgain
    PROVE  PageIsRead' /\ PageGrows
    <1>1. IsRead(page) /\ IsRead(page)'
      BY ReadStays DEF PageIsRead, IsRead
    <1>2. \A c \in DOMAIN page : page[c].step \in 0..4
      BY <1>1 DEF IsRead, IsReading, LastStep
    <1>3. PageGrows
      <2>1. current' = current
        BY DEF current
      <2>. QED  BY <1>1, <1>2, <2>1, CurrentShown DEF PageGrows, NoNewer
    <1>4. CASE readAgain
      BY <1>1, <1>3, <1>4 DEF PageIsRead, readAgain
    <1>5. CASE reread' = reread
      <2>1. reread.read # NoRead => IsRead(reread.read)'
        <3>. SUFFICES ASSUME reread.read # NoRead
                      PROVE  IsRead(reread.read)'
          OBVIOUS
        <3>1. IsRead(reread.read)
          BY DEF PageIsRead
        <3>. QED  BY <1>5, <3>1, ReadStays DEF IsRead
      <2>. QED  BY <1>1, <1>3, <1>5, <2>1 DEF PageIsRead
    <1>. QED  BY <1>4, <1>5

LEMMA RereadsRead ==
    ASSUME DeskInv, DeskInv', DeskGrows, PageIsRead, RereadReads
    PROVE  PageIsRead' /\ PageGrows
    <1>1. page' = page /\ UNCHANGED <<invoices, comments, periods>>
      BY DEF RereadReads, deskVars, held
    <1>2. /\ IsRead(page) /\ IsRead(page)'
          /\ reread = [going |-> reread.going, read |-> reread.read] /\ reread.going
      BY <1>1, ReadStays DEF PageIsRead, IsRead, RereadReads
    <1>3. reread' = [going |-> TRUE, read |-> Read]
      <2>1. reread' = [reread EXCEPT !.read = Read]
        BY DEF RereadReads
      <2>. QED  BY <1>2, <2>1 DEF PageIsRead
    <1>4. /\ \E n \in Contracts : DOMAIN Read = 1..n
          /\ \A c \in periods : Read[c] = Standing(c)
      BY DEF Read, Standing, DeskInv
    <1>5. \A c \in periods : IsReading(Standing(c)) /\ NoNewer(Standing(c), Standing(c))
      BY DEF DeskInv, DeskTypeOK, Invoices, IsReading, Standing, NoNewer, LastStep
    <1>6. DOMAIN Read = periods
      BY DEF Read
    <1>7. IsRead(Read)
      BY <1>4, <1>5, <1>6 DEF IsRead
    <1>8. \A c \in DOMAIN page : c \in periods /\ NoNewer(page[c], Read[c])
      BY <1>2, <1>4 DEF IsRead
    <1>9. Read' = Read
      BY <1>1 DEF Read
    <1>10. IsRead(reread.read)'
      BY <1>1, <1>3, <1>7 DEF IsRead, Standing
    <1>11. \A c \in DOMAIN page : page[c].step \in 0..4
      BY <1>2 DEF IsRead, IsReading, LastStep
    <1>12. PageGrows
      <2>1. current' = current
        BY <1>1 DEF current
      <2>. QED  BY <1>1, <1>2, <1>11, <2>1, CurrentShown DEF PageGrows, NoNewer
    <1>. QED  BY <1>1, <1>2, <1>3, <1>6, <1>8, <1>10, <1>12 DEF PageIsRead

LEMMA RereadLanded ==
    ASSUME DeskInv, PageIsRead, RereadLands
    PROVE  PageIsRead' /\ PageGrows
    <1>1. /\ UNCHANGED <<invoices, comments, periods>>
          /\ page' = reread.read /\ reread.read # NoRead
          /\ reread' = [going |-> FALSE, read |-> NoRead]
      BY DEF RereadLands, deskVars, held
    <1>2. /\ IsRead(page) /\ IsRead(reread.read)
          /\ \A c \in DOMAIN page : c \in DOMAIN reread.read /\ NoNewer(page[c], reread.read[c])
      BY <1>1 DEF PageIsRead
    <1>3. IsRead(page)'
      BY <1>1, <1>2 DEF IsRead, Standing
    <1>4. PageIsRead'
      BY <1>1, <1>3 DEF PageIsRead
    <1>5. current \in Nat /\ current \in DOMAIN page
      BY <1>2, CurrentShown
    <1>6. current' \in Nat /\ DOMAIN page' = 1..current'
      <2>1. current' = Max(DOMAIN page')
        BY DEF current
      <2>. QED  BY <1>3, <2>1, CurrentIs DEF IsRead
    <1>7. current <= current'
      BY <1>1, <1>2, <1>5, <1>6
    <1>8. \A c \in DOMAIN page : page[c].step \in 0..4 /\ page'[c].step \in 0..4
      BY <1>1, <1>2 DEF IsRead, IsReading, LastStep
    <1>. QED  BY <1>1, <1>2, <1>4, <1>5, <1>6, <1>7, <1>8 DEF PageGrows

\* The steps that bring no reading.
OtherSteps ==
    \/ Creator \/ AdminThread \/ PageElsewhere
    \/ \E a \in asks : TurnReaches(a) \/ CommentReaches(a) \/ TurnLands(a) \/ CommentLands(a) \/ AskFails(a)

LEMMA OthersBringNone ==
    ASSUME OtherSteps
    PROVE  page' = page /\ (reread' = reread \/ readAgain)
    BY DEF OtherSteps, Creator, OpenSheet, LeaveSheet, OpenDetail, CloseDetail, SelectTab, AskFirst,
       TakeBack, SendMove, SendComment, AdminThread, OpenThread, ThreadLoads, CloseThread, SendInThread,
       ThreadReaches, ThreadAnswers, PageElsewhere, pageVars, TurnReaches, CommentReaches, TurnLands,
       CommentLands, AskFails

LEMMA PageIsReadKept ==
    ASSUME DeskInv, DeskInv', DeskGrows, PageIsRead, PageNext
    PROVE  PageIsRead' /\ PageGrows
    <1>1. CASE OtherSteps
      BY <1>1, OthersBringNone, PageStands
    <1>2. PageNext => OtherSteps \/ RereadReads \/ RereadLands
      BY DEF PageNext, PageAnswers, OtherSteps
    <1>. QED  BY <1>1, <1>2, RereadsRead, RereadLanded

-----------------------------------------------------------------------------
(* The admin's end of the thread.                                          *)

LEMMA RangeOf ==
    ASSUME NEW S, NEW s \in Seq(S)
    PROVE  Range(s) \subseteq S
    BY DEF Range

LEMMA ThreadShape ==
    ASSUME ThreadInv, thread # NoThread
    PROVE  /\ thread = [c |-> thread.c, state |-> thread.state, shown |-> thread.shown,
                        sending |-> thread.sending, saved |-> thread.saved]
           /\ thread.c \in Contracts /\ thread.state \in {"loading", "failed", "loaded"}
           /\ thread.shown \in Seq(1..MaxComments)
           /\ thread.sending \in {"no", "sent", "saved", "failed"} /\ thread.saved \in 0..MaxComments
    BY DEF ThreadInv, Threads

\* What an open thread holds, piece by piece.
ThreadHolds(threads, c, state, shown, sending, saved) ==
    /\ c \in Contracts /\ state \in {"loading", "failed", "loaded"}
    /\ shown \in Seq(1..MaxComments)
    /\ sending \in {"no", "sent", "saved", "failed"} /\ saved \in 0..MaxComments
    /\ Increasing(shown)
    /\ Range(shown) \subseteq Range(threads[c])
    /\ state # "loaded" => sending = "no"
    /\ sending = "saved" =>
          /\ saved \in Range(threads[c])
          /\ \A i \in DOMAIN shown : shown[i] < saved

LEMMA ThreadHeld ==
    ASSUME ThreadInv, thread # NoThread
    PROVE  ThreadHolds(comments, thread.c, thread.state, thread.shown, thread.sending, thread.saved)
    BY ThreadShape DEF ThreadInv, ThreadHolds

LEMMA ThreadMade ==
    ASSUME NEW c, NEW state, NEW shown, NEW sending, NEW saved,
           ThreadHolds(comments', c, state, shown, sending, saved),
           thread' = [c |-> c, state |-> state, shown |-> shown, sending |-> sending, saved |-> saved]
    PROVE  ThreadInv'
    <1>1. /\ thread'.c = c /\ thread'.state = state /\ thread'.shown = shown
          /\ thread'.sending = sending /\ thread'.saved = saved
      OBVIOUS
    <1>2. thread' \in Threads
      BY DEF ThreadHolds, Threads
    <1>. QED  BY <1>1, <1>2 DEF ThreadInv, ThreadHolds

LEMMA ThreadStands ==
    ASSUME ThreadInv, thread' = thread,
           \A c \in Contracts : Range(comments[c]) \subseteq Range(comments'[c])
    PROVE  ThreadInv'
    <1>1. thread # NoThread => thread.c \in Contracts
      BY ThreadShape
    <1>. QED  BY <1>1 DEF ThreadInv

LEMMA NoThreadHolds ==
    ASSUME thread' = NoThread
    PROVE  ThreadInv'
    BY DEF ThreadInv

LEMMA ThreadKept ==
    ASSUME DeskInv, ThreadInv, AdminThread
    PROVE  ThreadInv'
    <1>0. thread # NoThread =>
            /\ ThreadHolds(comments, thread.c, thread.state, thread.shown, thread.sending, thread.saved)
            /\ thread = [c |-> thread.c, state |-> thread.state, shown |-> thread.shown,
                         sending |-> thread.sending, saved |-> thread.saved]
      BY ThreadHeld, ThreadShape
    <1>1. \A c \in Contracts : /\ comments[c] \in Seq(1..MaxComments) /\ Increasing(comments[c])
      BY DEF DeskInv, DeskTypeOK
    <1>2. ASSUME NEW c \in Contracts, OpenThread(c)
          PROVE  ThreadInv'
      <2>1. thread' = [c |-> c, state |-> "loading", shown |-> <<>>, sending |-> "no", saved |-> 0]
        BY <1>2 DEF OpenThread
      <2>2. ThreadHolds(comments', c, "loading", <<>>, "no", 0)
        BY DeskAssumption DEF ThreadHolds, Increasing, Range
      <2>. QED  BY <2>1, <2>2, ThreadMade
    <1>3. CASE ThreadLoads
      <2>1. thread # NoThread /\ thread.state = "loading" /\ comments' = comments
        BY <1>3 DEF ThreadLoads, deskVars, held
      <2>2. ThreadHolds(comments, thread.c, thread.state, thread.shown, thread.sending, thread.saved)
            /\ thread.sending = "no" /\ thread.c \in Contracts
        BY <1>0, <2>1 DEF ThreadHolds
      <2>3. \/ thread' = [thread EXCEPT !.state = "loaded", !.shown = comments[thread.c]]
            \/ thread' = [thread EXCEPT !.state = "failed"]
        BY <1>3 DEF ThreadLoads, ThreadRead
      <2>4. CASE thread' = [thread EXCEPT !.state = "loaded", !.shown = comments[thread.c]]
        <3>1. thread' = [c |-> thread.c, state |-> "loaded", shown |-> comments[thread.c],
                         sending |-> thread.sending, saved |-> thread.saved]
          BY <1>0, <2>1, <2>4
        <3>2. ThreadHolds(comments, thread.c, "loaded", comments[thread.c], thread.sending, thread.saved)
          BY <1>1, <2>2 DEF ThreadHolds
        <3>. QED  BY <2>1, <3>1, <3>2, ThreadMade
      <2>5. CASE thread' = [thread EXCEPT !.state = "failed"]
        <3>1. thread' = [c |-> thread.c, state |-> "failed", shown |-> thread.shown,
                         sending |-> thread.sending, saved |-> thread.saved]
          BY <1>0, <2>1, <2>5
        <3>2. ThreadHolds(comments, thread.c, "failed", thread.shown, thread.sending, thread.saved)
          BY <2>2 DEF ThreadHolds
        <3>. QED  BY <2>1, <3>1, <3>2, ThreadMade
      <2>. QED  BY <2>3, <2>4, <2>5
    <1>4. CASE CloseThread
      BY <1>4, NoThreadHolds DEF CloseThread
    <1>5. CASE SendInThread
      <2>1. /\ thread # NoThread /\ thread.state = "loaded" /\ comments' = comments
            /\ thread' = [thread EXCEPT !.sending = "sent"]
        BY <1>5 DEF SendInThread, held
      <2>2. thread' = [c |-> thread.c, state |-> thread.state, shown |-> thread.shown,
                       sending |-> "sent", saved |-> thread.saved]
        BY <1>0, <2>1
      <2>3. ThreadHolds(comments, thread.c, thread.state, thread.shown, "sent", thread.saved)
        BY <1>0, <2>1 DEF ThreadHolds
      <2>. QED  BY <2>1, <2>2, <2>3, ThreadMade
    <1>6. CASE ThreadReaches
      <2>1. /\ thread # NoThread /\ thread.sending = "sent"
        BY <1>6 DEF ThreadReaches
      <2>2. /\ ThreadHolds(comments, thread.c, thread.state, thread.shown, thread.sending, thread.saved)
            /\ thread.c \in Contracts /\ thread.state = "loaded"
        BY <1>0, <2>1 DEF ThreadHolds
      <2>3. \A c \in Contracts : Range(comments[c]) \subseteq Range(comments'[c])
        BY <1>6, <2>2, SavedLast DEF ThreadReaches, Saves
      <2>4. CASE thread' = [thread EXCEPT !.sending = "failed"]
        <3>1. thread' = [c |-> thread.c, state |-> thread.state, shown |-> thread.shown,
                         sending |-> "failed", saved |-> thread.saved]
          BY <1>0, <2>1, <2>4
        <3>2. ThreadHolds(comments', thread.c, thread.state, thread.shown, "failed", thread.saved)
          BY <2>2, <2>3 DEF ThreadHolds
        <3>. QED  BY <3>1, <3>2, ThreadMade
      <2>5. CASE thread' = [thread EXCEPT !.sending = "saved", !.saved = Said + 1] /\ Saves(thread.c)
        <3>. DEFINE new == Said + 1
        <3>1. thread' = [c |-> thread.c, state |-> thread.state, shown |-> thread.shown,
                         sending |-> "saved", saved |-> new]
          BY <1>0, <2>1, <2>5
        <3>2. /\ new \in 1..MaxComments /\ new \in Range(comments'[thread.c])
              /\ Said \in Nat /\ AllSaved = 1..Said
          BY <2>2, <2>5, SavedLast DEF DeskInv
        <3>3. \A i \in DOMAIN thread.shown : thread.shown[i] \in AllSaved
          <4>1. Range(comments[thread.c]) \subseteq AllSaved
            BY <2>2 DEF AllSaved
          <4>2. Range(thread.shown) \subseteq Range(comments[thread.c])
            BY <2>2 DEF ThreadHolds
          <4>. QED  BY <4>1, <4>2 DEF Range
        <3>4. \A i \in DOMAIN thread.shown : thread.shown[i] < new
          BY <3>2, <3>3
        <3>. HIDE DEF new
        <3>5. ThreadHolds(comments', thread.c, thread.state, thread.shown, "saved", new)
          BY <2>2, <2>3, <3>2, <3>4 DEF ThreadHolds
        <3>. QED  BY <3>1, <3>5, ThreadMade
      <2>. QED  BY <1>6, <2>4, <2>5 DEF ThreadReaches, Saves
    <1>7. CASE ThreadAnswers
      <2>1. /\ thread # NoThread /\ thread.sending \in {"saved", "failed"} /\ comments' = comments
            /\ thread' = [thread EXCEPT !.sending = "no", !.saved = 0,
                             !.shown = IF thread.sending = "saved" THEN Append(@, thread.saved) ELSE @]
        BY <1>7 DEF ThreadAnswers, withSaved, deskVars, held
      <2>2. ThreadHolds(comments, thread.c, thread.state, thread.shown, thread.sending, thread.saved)
        BY <1>0, <2>1
      <2>3. CASE thread.sending = "failed"
        <3>1. thread' = [c |-> thread.c, state |-> thread.state, shown |-> thread.shown,
                         sending |-> "no", saved |-> 0]
          BY <1>0, <2>1, <2>3
        <3>2. ThreadHolds(comments, thread.c, thread.state, thread.shown, "no", 0)
          BY <2>2, DeskAssumption DEF ThreadHolds
        <3>. QED  BY <2>1, <3>1, <3>2, ThreadMade
      <2>4. CASE thread.sending = "saved"
        <3>. DEFINE more == Append(thread.shown, thread.saved)
        <3>1. thread' = [c |-> thread.c, state |-> thread.state, shown |-> more,
                         sending |-> "no", saved |-> 0]
          BY <1>0, <2>1, <2>4
        <3>2. /\ thread.shown \in Seq(1..MaxComments) /\ Increasing(thread.shown)
              /\ thread.saved \in Range(comments[thread.c]) /\ thread.c \in Contracts
              /\ \A i \in DOMAIN thread.shown : thread.shown[i] < thread.saved
              /\ Range(thread.shown) \subseteq Range(comments[thread.c])
          BY <2>2, <2>4 DEF ThreadHolds
        <3>3. thread.saved \in 1..MaxComments
          <4>1. Range(comments[thread.c]) \subseteq 1..MaxComments
            BY <1>1, <3>2, RangeOf
          <4>. QED  BY <3>2, <4>1
        <3>4. more \in Seq(1..MaxComments) /\ Range(more) = Range(thread.shown) \cup {thread.saved}
          <4>. DEFINE S == 1..MaxComments
          <4>1. thread.shown \in Seq(S) /\ thread.saved \in S
            BY <3>2, <3>3
          <4>. HIDE DEF S
          <4>2. more \in Seq(S) /\ Range(more) = Range(thread.shown) \cup {thread.saved}
            BY <4>1, Appended
          <4>. QED  BY <4>2 DEF S
        <3>5. Increasing(more)
          BY <3>2, <3>3, AppendedLater, DeskAssumption
        <3>. HIDE DEF more
        <3>6. ThreadHolds(comments, thread.c, thread.state, more, "no", 0)
          BY <2>2, <3>2, <3>4, <3>5, DeskAssumption DEF ThreadHolds
        <3>. QED  BY <2>1, <3>1, <3>6, ThreadMade
      <2>. QED  BY <2>1, <2>3, <2>4
    <1>. QED  BY <1>2, <1>3, <1>4, <1>5, <1>6, <1>7 DEF AdminThread

-----------------------------------------------------------------------------
(* The creator's requests.                                                 *)

SomeAsks(S) == S \subseteq AskSet /\ IsFiniteSet(S)

PageHeld == PageTyped /\ LayersHold /\ SentOnce /\ MovesOnce

LEMMA AskFields ==
    ASSUME NEW a \in AskSet, NEW at \in {"form", "view", "gone"}
    PROVE  LET b == [a EXCEPT !.at = at] IN
           /\ b \in AskSet /\ b.at = at
           /\ b.id = a.id /\ b.view = a.view /\ b.what = a.what /\ b.c = a.c
           /\ b.answer = a.answer /\ b.saved = a.saved
    BY DEF AskSet

LEMMA AnswerFields ==
    ASSUME NEW a \in AskSet, NEW answer \in {"sent", "ok", "failed"}, NEW saved \in 0..MaxComments
    PROVE  LET b == [a EXCEPT !.answer = answer, !.saved = saved] IN
           /\ b \in AskSet /\ b.answer = answer /\ b.saved = saved
           /\ b.id = a.id /\ b.view = a.view /\ b.what = a.what /\ b.c = a.c /\ b.at = a.at
    BY DEF AskSet

\* Every request keeps all but its place on the screen.
Turned(T, g) ==
    /\ SomeAsks(T)
    /\ \A a \in asks : g[a] \in {"form", "view", "gone"}
    /\ \A b \in T : \E a \in asks : b = [a EXCEPT !.at = g[a]]

LEMMA AsksTurned ==
    ASSUME SomeAsks(asks), NEW g, DOMAIN g = asks,
           \A a \in asks : g[a] \in {"form", "view", "gone"},
           NEW T, T = {[a EXCEPT !.at = g[a]] : a \in asks}
    PROVE  Turned(T, g)
    <1>1. \A a \in asks : [a EXCEPT !.at = g[a]] \in AskSet
      BY AskFields DEF SomeAsks
    <1>. DEFINE f == [a \in asks |-> [a EXCEPT !.at = g[a]]]
    <1>2. DOMAIN f = asks /\ T = {f[a] : a \in asks}
      OBVIOUS
    <1>. HIDE DEF f
    <1>3. IsFiniteSet(T)
      BY <1>2, ImageIsFinite DEF SomeAsks
    <1>. QED  BY <1>1, <1>3 DEF SomeAsks, Turned

FormLeaves(v, what) ==
    [a \in asks |-> IF a.view = v /\ a.what \in what /\ a.at = "form" THEN "view" ELSE a.at]
ViewLeaves(v) == [a \in asks |-> IF a.view = v THEN "gone" ELSE a.at]

LEMMA AsksLeave ==
    ASSUME SomeAsks(asks)
    PROVE  /\ \A v, what : Turned(FormLeft(asks, v, what), FormLeaves(v, what))
           /\ \A v : Turned(ViewLeft(v), ViewLeaves(v))
    <1>0. \A a \in asks : a.at \in {"form", "view", "gone"} /\ [a EXCEPT !.at = a.at] = a
      BY DEF SomeAsks, AskSet
    <1>1. ASSUME NEW v, NEW what
          PROVE  Turned(FormLeft(asks, v, what), FormLeaves(v, what))
      <2>. DEFINE g == FormLeaves(v, what)
      <2>1. DOMAIN g = asks /\ \A a \in asks : g[a] \in {"form", "view", "gone"}
        BY <1>0 DEF FormLeaves
      <2>2. \A a \in asks : [a EXCEPT !.at = g[a]] =
               IF a.view = v /\ a.what \in what /\ a.at = "form" THEN [a EXCEPT !.at = "view"] ELSE a
        BY <1>0 DEF FormLeaves
      <2>. HIDE DEF g
      <2>3. FormLeft(asks, v, what) = {[a EXCEPT !.at = g[a]] : a \in asks}
        BY <2>2, Zenon DEF FormLeft
      <2>. QED  BY <2>1, <2>3, AsksTurned DEF g
    <1>2. ASSUME NEW v
          PROVE  Turned(ViewLeft(v), ViewLeaves(v))
      <2>. DEFINE g == ViewLeaves(v)
      <2>1. DOMAIN g = asks /\ \A a \in asks : g[a] \in {"form", "view", "gone"}
        BY <1>0 DEF ViewLeaves
      <2>2. \A a \in asks : [a EXCEPT !.at = g[a]] = IF a.view = v THEN [a EXCEPT !.at = "gone"] ELSE a
        BY <1>0 DEF ViewLeaves
      <2>. HIDE DEF g
      <2>3. ViewLeft(v) = {[a EXCEPT !.at = g[a]] : a \in asks}
        <3>1. \A b \in ViewLeft(v) : \E a \in asks : b = [a EXCEPT !.at = g[a]]
          <4>. SUFFICES ASSUME NEW b \in ViewLeft(v)
                        PROVE  \E a \in asks : b = [a EXCEPT !.at = g[a]]
            OBVIOUS
          <4>1. PICK a \in asks : b = IF a.view = v THEN [a EXCEPT !.at = "gone"] ELSE a
            BY DEF ViewLeft
          <4>2. b = [a EXCEPT !.at = g[a]]
            BY <2>2, <4>1
          <4>. QED  BY <4>2
        <3>2. \A a \in asks : [a EXCEPT !.at = g[a]] \in ViewLeft(v)
          BY <2>2 DEF ViewLeft
        <3>. QED  BY <3>1, <3>2
      <2>. QED  BY <2>1, <2>3, AsksTurned DEF g
    <1>. QED  BY <1>1, <1>2

LEMMA MoveLasts ==
    ASSUME PageGrows, MovesOnce, NEW a \in asks, a \in AskSet, IsMove(a)
    PROVE  /\ AsksFor[a.what] \in {1, 3}
           /\ a.c \in DOMAIN page' /\ page'[a.c].step \in 0..4 /\ a.c \in Nat
           /\ page'[a.c].step >= AsksFor[a.what]
           /\ a.at # "form" => a.c < current' \/ page'[a.c].step > AsksFor[a.what]
    <1>1. AsksFor[a.what] \in {1, 3}
      BY DEF IsMove, CreatorMoves, AsksFor
    <1>2. /\ a.c \in DOMAIN page
          /\ page[a.c].step >= AsksFor[a.what]
          /\ a.at # "form" => a.c < current \/ page[a.c].step > AsksFor[a.what]
      BY DEF MovesOnce
    <1>3. /\ a.c \in DOMAIN page' /\ page[a.c].step <= page'[a.c].step
          /\ page[a.c].step \in 0..4 /\ page'[a.c].step \in 0..4
      BY <1>2 DEF PageGrows, NoNewer
    <1>4. current \in Nat /\ current' \in Nat /\ current <= current' /\ a.c \in Nat
      BY DeskAssumption, FS_CardinalityType DEF PageGrows, AskSet
    <1>. QED  BY <1>1, <1>2, <1>3, <1>4

\* A request that leaves its form is one the page no longer offers.
LEMMA MovesTurned ==
    ASSUME PageGrows, MovesOnce, SomeAsks(asks), NEW g, Turned(asks', g),
           \A a \in asks : IsMove(a) /\ g[a] # a.at =>
              g[a] = "form" \/ a.c < current' \/ page'[a.c].step > AsksFor[a.what]
    PROVE  MovesOnce'
    <1>1. ASSUME NEW b \in asks', IsMove(b)
          PROVE  /\ \E a \in asks : /\ b = [a EXCEPT !.at = g[a]] /\ IsMove(a)
                                    /\ a.what = b.what /\ a.c = b.c
                 /\ b.c \in DOMAIN page'
                 /\ page'[b.c].step >= AsksFor[b.what]
                 /\ b.at # "form" => b.c < current' \/ page'[b.c].step > AsksFor[b.what]
      <2>1. PICK a \in asks : b = [a EXCEPT !.at = g[a]]
        BY DEF Turned
      <2>2. a \in AskSet /\ g[a] \in {"form", "view", "gone"}
        BY DEF SomeAsks, Turned
      <2>3. b.at = g[a] /\ b.view = a.view /\ b.what = a.what /\ b.c = a.c
        BY <2>1, <2>2, AskFields
      <2>4. IsMove(a)
        BY <1>1, <2>3 DEF IsMove
      <2>5. /\ a.c \in DOMAIN page' /\ page'[a.c].step >= AsksFor[a.what]
            /\ a.at # "form" => a.c < current' \/ page'[a.c].step > AsksFor[a.what]
        BY <2>2, <2>4, MoveLasts
      <2>. QED  BY <2>1, <2>3, <2>4, <2>5
    <1>2. ASSUME NEW b \in asks', NEW d \in asks', IsMove(b), IsMove(d), b.what = d.what, b.c = d.c
          PROVE  b = d
      <2>1. PICK a \in asks : b = [a EXCEPT !.at = g[a]] /\ IsMove(a) /\ a.what = b.what /\ a.c = b.c
        BY <1>1, <1>2
      <2>2. PICK e \in asks : d = [e EXCEPT !.at = g[e]] /\ IsMove(e) /\ e.what = d.what /\ e.c = d.c
        BY <1>1, <1>2
      <2>3. a = e
        BY <1>2, <2>1, <2>2 DEF MovesOnce
      <2>. QED  BY <2>1, <2>2, <2>3
    <1>3. \A b \in asks' : IsMove(b)' <=> IsMove(b)
      BY DEF IsMove
    <1>. QED  BY <1>1, <1>2 DEF MovesOnce, IsMove

LEMMA MovesFewer ==
    ASSUME PageGrows, MovesOnce, SomeAsks(asks), asks' \subseteq asks
    PROVE  MovesOnce'
    <1>1. ASSUME NEW a \in asks', IsMove(a)
          PROVE  /\ a.c \in DOMAIN page'
                 /\ page'[a.c].step >= AsksFor[a.what]
                 /\ a.at # "form" => a.c < current' \/ page'[a.c].step > AsksFor[a.what]
      BY <1>1, MoveLasts DEF SomeAsks
    <1>2. \A a, b \in asks' : IsMove(a) /\ IsMove(b) /\ a.what = b.what /\ a.c = b.c => a = b
      BY DEF MovesOnce
    <1>. QED  BY <1>1, <1>2 DEF MovesOnce, IsMove

LEMMA AnswerTyped ==
    ASSUME SomeAsks(asks), NEW a \in asks, NEW answer \in {"sent", "ok", "failed"},
           NEW saved \in 0..MaxComments, Answered(a, answer, saved)
    PROVE  SomeAsks(asks')
    <1>1. a \in AskSet
      BY DEF SomeAsks
    <1>. DEFINE b == [a EXCEPT !.answer = answer, !.saved = saved]
    <1>2. b \in AskSet
      BY <1>1, AnswerFields
    <1>3. asks' = (asks \ {a}) \cup {b}
      BY DEF Answered
    <1>. HIDE DEF b
    <1>. QED  BY <1>2, <1>3, FS_RemoveElement, FS_AddElement DEF SomeAsks

LEMMA MovesAnswered ==
    ASSUME PageGrows, MovesOnce, SomeAsks(asks), NEW a \in asks,
           NEW answer \in {"sent", "ok", "failed"}, NEW saved \in 0..MaxComments,
           Answered(a, answer, saved)
    PROVE  MovesOnce'
    <1>1. a \in AskSet
      BY DEF SomeAsks
    <1>. DEFINE b == [a EXCEPT !.answer = answer, !.saved = saved]
    <1>2. /\ b.view = a.view /\ b.what = a.what /\ b.c = a.c /\ b.at = a.at
      BY <1>1 DEF AskSet
    <1>3. asks' = (asks \ {a}) \cup {b}
      BY DEF Answered
    <1>. HIDE DEF b
    <1>4. IsMove(b) <=> IsMove(a)
      BY <1>2 DEF IsMove
    <1>5. ASSUME NEW d \in asks', IsMove(d)
          PROVE  /\ d.c \in DOMAIN page'
                 /\ page'[d.c].step >= AsksFor[d.what]
                 /\ d.at # "form" => d.c < current' \/ page'[d.c].step > AsksFor[d.what]
      <2>1. CASE d = b
        BY <1>1, <1>2, <1>4, <1>5, <2>1, MoveLasts
      <2>2. CASE d # b
        BY <1>3, <1>5, <2>2, MoveLasts DEF SomeAsks
      <2>. QED  BY <2>1, <2>2
    <1>6. \A d, e \in asks' : IsMove(d) /\ IsMove(e) /\ d.what = e.what /\ d.c = e.c => d = e
      <2>1. \A d \in asks \ {a} : ~(IsMove(d) /\ IsMove(b) /\ d.what = b.what /\ d.c = b.c)
        BY <1>2, <1>4 DEF MovesOnce
      <2>2. \A d, e \in asks \ {a} : IsMove(d) /\ IsMove(e) /\ d.what = e.what /\ d.c = e.c => d = e
        BY DEF MovesOnce
      <2>. QED  BY <1>3, <2>1, <2>2
    <1>. QED  BY <1>5, <1>6 DEF MovesOnce, IsMove

LEMMA AskTyped ==
    ASSUME SomeAsks(asks), NEW v \in Views, NEW what \in CreatorMoves \cup {"comment"},
           Ask(v, what), InView(v) \in Contracts
    PROVE  /\ SomeAsks(asks')
           /\ \E new \in AskSet : /\ asks' = asks \cup {new}
                                  /\ new.view = v /\ new.what = what /\ new.c = InView(v)
                                  /\ new.at = "form" /\ new.saved = 0
    <1>. DEFINE ids == {a.id : a \in asks}
                id == Min((1..MaxAsks) \ ids)
                new == [id |-> id, view |-> v, what |-> what, c |-> InView(v),
                        at |-> "form", answer |-> "sent", saved |-> 0]
    <1>1. id \in 1..MaxAsks
      <2>1. Cardinality(asks) < MaxAsks /\ IsFiniteSet(asks)
        BY DEF Ask, SomeAsks
      <2>. HIDE DEF ids
      <2>2. ids = {a.id : a \in asks}
        BY DEF ids
      <2>. QED  BY <2>1, <2>2, FreshNumber, PageAssumption
    <1>. HIDE DEF id
    <1>2. new \in AskSet
      BY <1>1, DeskAssumption DEF AskSet
    <1>3. asks' = asks \cup {new}
      BY DEF Ask, id
    <1>4. new.view = v /\ new.what = what /\ new.c = InView(v) /\ new.at = "form" /\ new.saved = 0
      OBVIOUS
    <1>. HIDE DEF new
    <1>5. SomeAsks(asks')
      BY <1>2, <1>3, FS_AddElement DEF SomeAsks
    <1>. QED  BY <1>2, <1>3, <1>4, <1>5

-----------------------------------------------------------------------------
(* The comments on their way into a thread.                                *)

LEMMA SentStands ==
    ASSUME SentOnce, DeskGrows,
           \A v \in Views : views'[v].sent = views[v].sent \/ views'[v].sent = <<>>,
           \A b \in asks' : b.saved # 0 => \E a \in asks : a.saved = b.saved,
           \A b, d \in asks' : b.saved # 0 /\ b.saved = d.saved => b = d
    PROVE  SentOnce'
    <1>1. Said \in Nat /\ Said' \in Nat /\ Said <= Said'
      BY DEF DeskGrows
    <1>2. ASSUME NEW v \in Views
          PROVE  /\ IsInjective(views'[v].sent) /\ Range(views'[v].sent) \subseteq 1..Said'
                 /\ Range(views'[v].sent) \subseteq Range(views[v].sent)
      <2>1. CASE views'[v].sent = <<>>
        BY <2>1 DEF IsInjective, Range
      <2>2. CASE views'[v].sent = views[v].sent
        <3>1. IsInjective(views[v].sent) /\ Range(views[v].sent) \subseteq 1..Said
          BY DEF SentOnce
        <3>. QED  BY <1>1, <2>2, <3>1
      <2>. QED  BY <2>1, <2>2
    <1>3. ASSUME NEW b \in asks', b.saved # 0
          PROVE  b.saved \in 1..Said' /\ \A v \in Views : b.saved \notin Range(views'[v].sent)
      <2>1. PICK a \in asks : a.saved = b.saved
        BY <1>3
      <2>2. a.saved \in 1..Said /\ \A v \in Views : a.saved \notin Range(views[v].sent)
        BY <1>3, <2>1 DEF SentOnce
      <2>3. a.saved \in 1..Said'
        BY <1>1, <2>2
      <2>. QED  BY <1>2, <2>1, <2>2, <2>3
    <1>. QED  BY <1>2, <1>3 DEF SentOnce

LEMMA SentFewer ==
    ASSUME SentOnce, DeskGrows, asks' \subseteq asks,
           \A v \in Views : views'[v].sent = views[v].sent \/ views'[v].sent = <<>>
    PROVE  SentOnce'
    <1>1. /\ \A b \in asks' : b.saved # 0 => \E a \in asks : a.saved = b.saved
          /\ \A b, d \in asks' : b.saved # 0 /\ b.saved = d.saved => b = d
      BY DEF SentOnce
    <1>. QED  BY <1>1, SentStands

LEMMA SentTurned ==
    ASSUME SentOnce, DeskGrows, SomeAsks(asks), NEW g, Turned(asks', g),
           \A v \in Views : views'[v].sent = views[v].sent \/ views'[v].sent = <<>>
    PROVE  SentOnce'
    <1>1. ASSUME NEW b \in asks'
          PROVE  \E a \in asks : b = [a EXCEPT !.at = g[a]] /\ a.saved = b.saved
      <2>1. PICK a \in asks : b = [a EXCEPT !.at = g[a]]
        BY DEF Turned
      <2>2. a \in AskSet /\ g[a] \in {"form", "view", "gone"}
        BY DEF SomeAsks, Turned
      <2>. QED  BY <2>1, <2>2, AskFields
    <1>2. ASSUME NEW b \in asks', NEW d \in asks', b.saved # 0, b.saved = d.saved
          PROVE  b = d
      <2>1. PICK a \in asks : b = [a EXCEPT !.at = g[a]] /\ a.saved = b.saved
        BY <1>1
      <2>2. PICK e \in asks : d = [e EXCEPT !.at = g[e]] /\ e.saved = d.saved
        BY <1>1
      <2>3. a = e
        BY <1>2, <2>1, <2>2 DEF SentOnce
      <2>. QED  BY <2>1, <2>2, <2>3
    <1>3. \A b \in asks' : \E a \in asks : a.saved = b.saved
      BY <1>1
    <1>. QED  BY <1>2, <1>3, SentStands

-----------------------------------------------------------------------------
(* The page's steps.                                                       *)

ViewSet == [tab : Tabs, sent : Seq(1..MaxComments), asking : BOOLEAN]

\* What a step finds, and what every step keeps of it.
PageReady ==
    /\ DeskInv /\ PageIsRead /\ PageHeld
    /\ DeskGrows /\ PageGrows

LEMMA Ready ==
    ASSUME PageReady
    PROVE  /\ SomeAsks(asks) /\ views \in [Views -> ViewSet]
           /\ opened \in Contracts \cup {0} /\ detail \in BOOLEAN /\ heard \subseteq Contracts \X {2, 4}
           /\ current \in Contracts /\ current \in DOMAIN page /\ DOMAIN page \subseteq Contracts
           /\ 0 \notin Contracts
    <1>1. IsRead(page)
      BY DEF PageReady, PageIsRead
    <1>2. 0 \notin Contracts
      BY DeskAssumption, FS_CardinalityType
    <1>. QED  BY <1>1, <1>2, CurrentShown DEF PageReady, PageHeld, PageTyped, SomeAsks, ViewSet

LEMMA ShownInView ==
    ASSUME PageReady, NEW v \in Views, Reach(v)
    PROVE  InView(v) \in DOMAIN page /\ InView(v) \in Contracts
    <1>1. v = "sheet" => opened # 0
      BY DEF Reach, Sheet
    <1>. QED  BY <1>1, Ready DEF InView, PageReady, PageHeld, LayersHold, Views

LEMMA SameDue ==
    ASSUME page' = page, opened' = opened
    PROVE  \A v \in Views : Due(v)' = Due(v) /\ InView(v)' = InView(v)
    BY DEF Due, InView, current

LEMMA LayersStand ==
    ASSUME PageReady, UNCHANGED <<page, opened, detail>>,
           ~Sheet => views'["sheet"] = NewView /\ \A a \in asks' : a.view = "sheet" => a.at = "gone",
           \A v \in Views : views'[v].asking => views[v].asking \/ Due(v) # "none"
    PROVE  LayersHold'
    <1>1. opened' # 0 => opened' \in DOMAIN page'
      BY DEF PageReady, PageHeld, LayersHold
    <1>2. Sheet' <=> Sheet
      BY DEF Sheet
    <1>3. \A v \in Views : views'[v].asking => Due(v)' # "none"
      BY SameDue DEF PageReady, PageHeld, LayersHold
    <1>. QED  BY <1>1, <1>2, <1>3 DEF LayersHold

\* The steps that leave the page alone.
LEMMA QuietKept ==
    ASSUME PageReady, UNCHANGED <<page, views, opened, detail, asks, heard>>
    PROVE  PageHeld'
    <1>1. PageTyped'
      BY DEF PageReady, PageHeld, PageTyped
    <1>2. LayersHold'
      BY LayersStand DEF PageReady, PageHeld, LayersHold
    <1>3. SentOnce'
      BY SentFewer DEF PageReady, PageHeld
    <1>4. MovesOnce'
      BY Ready, MovesFewer DEF PageReady, PageHeld
    <1>. QED  BY <1>1, <1>2, <1>3, <1>4 DEF PageHeld

LEMMA LayersKept ==
    ASSUME PageReady, (\E c \in Contracts : OpenSheet(c)) \/ OpenDetail \/ CloseDetail
    PROVE  PageHeld'
    <1>0. UNCHANGED <<page, views, asks, heard>>
      BY DEF OpenSheet, OpenDetail, CloseDetail
    <1>1. PageTyped'
      BY <1>0 DEF PageReady, PageHeld, PageTyped, OpenSheet, OpenDetail, CloseDetail
    <1>2. LayersHold'
      <2>0. LayersHold /\ 0 \notin Contracts
        BY Ready DEF PageReady, PageHeld
      <2>1. ASSUME NEW c \in Contracts, OpenSheet(c)
            PROVE  LayersHold'
        <3>1. opened = 0 /\ opened' = c /\ ~detail /\ detail' = detail /\ c \in DOMAIN page
          BY <2>1 DEF OpenSheet, Reach
        <3>2. Sheet' /\ ~Sheet
          BY <2>0, <3>1 DEF Sheet
        <3>3. ~views["sheet"].asking
          BY <2>0, <3>2 DEF LayersHold, NewView
        <3>4. views["current"].asking => Due("current")' # "none"
          BY <1>0, <2>0 DEF LayersHold, Due, InView, current, Views
        <3>. QED  BY <1>0, <3>1, <3>2, <3>3, <3>4 DEF LayersHold, Views
      <2>2. CASE OpenDetail \/ CloseDetail
        <3>1. opened' = opened /\ (Sheet' => opened # 0) /\ (~Sheet' => ~Sheet)
          BY <2>2 DEF OpenDetail, CloseDetail, Reach, Sheet
        <3>2. \A v \in Views : views'[v].asking => Due(v)' # "none"
          BY <1>0, <2>0, <3>1, SameDue DEF LayersHold
        <3>. QED  BY <1>0, <2>0, <3>1, <3>2 DEF LayersHold
      <2>. QED  BY <2>1, <2>2
    <1>3. SentOnce'
      BY <1>0, SentFewer DEF PageReady, PageHeld
    <1>4. MovesOnce'
      BY <1>0, Ready, MovesFewer DEF PageReady, PageHeld
    <1>. QED  BY <1>1, <1>2, <1>3, <1>4 DEF PageHeld

LEMMA LeaveSheetKept ==
    ASSUME PageReady, NEW into \in {"page", "detail"}, LeaveSheet(into)
    PROVE  PageHeld'
    <1>0. /\ UNCHANGED <<page, heard>> /\ Sheet
          /\ views' = [views EXCEPT !["sheet"] = NewView]
          /\ asks' = ViewLeft("sheet")
          /\ detail' \in BOOLEAN /\ opened' \in {opened, 0} /\ ~Sheet'
      BY DEF LeaveSheet, Sheet
    <1>1. Turned(asks', ViewLeaves("sheet"))
      BY <1>0, Ready, AsksLeave
    <1>2. \A b \in asks' : b.view = "sheet" => b.at = "gone"
      <2>. SUFFICES ASSUME NEW b \in asks', b.view = "sheet"
                    PROVE  b.at = "gone"
        OBVIOUS
      <2>1. PICK a \in asks : b = IF a.view = "sheet" THEN [a EXCEPT !.at = "gone"] ELSE a
        BY <1>0 DEF ViewLeft
      <2>2. a \in AskSet
        BY Ready DEF SomeAsks
      <2>. QED  BY <2>1, <2>2 DEF AskSet
    <1>3. views' \in [Views -> ViewSet] /\ views'["sheet"] = NewView /\ views'["current"] = views["current"]
      BY <1>0, Ready DEF Views, ViewSet, NewView, Tabs
    <1>4. PageTyped'
      BY <1>0, <1>1, <1>3, Ready DEF PageTyped, Turned, SomeAsks, ViewSet
    <1>5. LayersHold'
      <2>1. views'["current"].asking => Due("current")' # "none"
        BY <1>0, <1>3 DEF PageReady, PageHeld, LayersHold, Due, InView, current, Views
      <2>2. ~views'["sheet"].asking
        BY <1>3 DEF NewView
      <2>3. opened' # 0 => opened' \in DOMAIN page'
        BY <1>0 DEF PageReady, PageHeld, LayersHold
      <2>. QED  BY <1>0, <1>2, <1>3, <2>1, <2>2, <2>3 DEF LayersHold, Views
    <1>6. SentOnce'
      <2>1. \A v \in Views : views'[v].sent = views[v].sent \/ views'[v].sent = <<>>
        BY <1>3 DEF Views, NewView
      <2>. QED  BY <1>1, <2>1, Ready, SentTurned DEF PageReady, PageHeld
    <1>7. MovesOnce'
      <2>1. \A a \in asks : IsMove(a) => ViewLeaves("sheet")[a] = a.at
        BY DEF IsMove, ViewLeaves
      <2>. QED  BY <1>1, <2>1, Ready, MovesTurned DEF PageReady, PageHeld
    <1>. QED  BY <1>4, <1>5, <1>6, <1>7 DEF PageHeld

LEMMA ViewChanged ==
    ASSUME views \in [Views -> ViewSet], NEW v \in Views, NEW tab \in Tabs, NEW asking \in BOOLEAN,
           \/ views' = [views EXCEPT ![v].tab = tab]
           \/ views' = [views EXCEPT ![v].asking = asking]
    PROVE  /\ views' \in [Views -> ViewSet]
           /\ \A w \in Views : views'[w].sent = views[w].sent
           /\ \A w \in Views \ {v} : views'[w] = views[w]
           /\ views' = [views EXCEPT ![v].tab = tab] => views'[v].asking = views[v].asking
           /\ views' = [views EXCEPT ![v].asking = asking] => views'[v].asking = asking
    <1>1. views[v] \in ViewSet
      OBVIOUS
    <1>2. [views[v] EXCEPT !.tab = tab] \in ViewSet /\ [views[v] EXCEPT !.asking = asking] \in ViewSet
      BY <1>1 DEF ViewSet
    <1>3. /\ [views[v] EXCEPT !.tab = tab].sent = views[v].sent
          /\ [views[v] EXCEPT !.asking = asking].sent = views[v].sent
          /\ [views[v] EXCEPT !.tab = tab].asking = views[v].asking
          /\ [views[v] EXCEPT !.asking = asking].asking = asking
      BY <1>1 DEF ViewSet
    <1>4. CASE views' = [views EXCEPT ![v].tab = tab]
      <2>1. views' = [views EXCEPT ![v] = [views[v] EXCEPT !.tab = tab]]
        BY <1>4
      <2>2. /\ views' \in [Views -> ViewSet] /\ views'[v] = [views[v] EXCEPT !.tab = tab]
            /\ \A w \in Views \ {v} : views'[w] = views[w]
        BY <1>2, <2>1
      <2>3. views' = [views EXCEPT ![v].asking = asking] => views'[v].asking = asking
        BY <1>1 DEF ViewSet
      <2>. QED  BY <1>3, <2>2, <2>3
    <1>5. CASE views' = [views EXCEPT ![v].asking = asking]
      <2>1. views' = [views EXCEPT ![v] = [views[v] EXCEPT !.asking = asking]]
        BY <1>5
      <2>2. /\ views' \in [Views -> ViewSet] /\ views'[v] = [views[v] EXCEPT !.asking = asking]
            /\ \A w \in Views \ {v} : views'[w] = views[w]
        BY <1>2, <2>1
      <2>3. views' = [views EXCEPT ![v].tab = tab] => views'[v].asking = views[v].asking
        BY <1>1 DEF ViewSet
      <2>. QED  BY <1>3, <2>2, <2>3
    <1>. QED  BY <1>4, <1>5

-----------------------------------------------------------------------------
(* One lemma for each of the page's steps.                                 *)

LEMMA SelectTabKept ==
    ASSUME PageReady, NEW v \in Views, NEW tab \in Tabs, SelectTab(v, tab)
    PROVE  PageHeld'
    <1>0. /\ UNCHANGED <<page, opened, detail, heard>> /\ Reach(v)
          /\ views' = [views EXCEPT ![v].tab = tab]
          /\ asks' = asks \/ asks' = FormLeft(asks, v, {"comment"})
      BY DEF SelectTab
    <1>1. /\ views' \in [Views -> ViewSet]
          /\ \A w \in Views : views'[w].sent = views[w].sent
          /\ \A w \in Views \ {v} : views'[w] = views[w]
          /\ views'[v].asking = views[v].asking
      BY <1>0, Ready, ViewChanged
    <1>2. v = "sheet" => Sheet
      BY <1>0 DEF Reach
    <1>. DEFINE g == FormLeaves(v, {"comment"})
    <1>3. asks' = asks \/ Turned(asks', g)
      BY <1>0, Ready, AsksLeave
    <1>4. PageTyped'
      BY <1>0, <1>1, <1>3, Ready DEF PageTyped, Turned, SomeAsks, ViewSet
    <1>5. LayersHold'
      <2>1. ~Sheet => views'["sheet"] = NewView /\ \A b \in asks' : b.view = "sheet" => b.at = "gone"
        <3>. SUFFICES ASSUME ~Sheet
                      PROVE  views'["sheet"] = NewView /\ \A b \in asks' : b.view = "sheet" => b.at = "gone"
          OBVIOUS
        <3>1. /\ views["sheet"] = NewView /\ v # "sheet"
              /\ \A a \in asks : a.view = "sheet" => a.at = "gone"
          BY <1>2 DEF PageReady, PageHeld, LayersHold
        <3>2. ASSUME NEW b \in asks', b.view = "sheet"
              PROVE  b.at = "gone"
          <4>1. CASE asks' = asks
            BY <3>1, <3>2, <4>1
          <4>2. CASE asks' = FormLeft(asks, v, {"comment"})
            <5>1. PICK a \in asks : b = IF a.view = v /\ a.what \in {"comment"} /\ a.at = "form"
                                        THEN [a EXCEPT !.at = "view"] ELSE a
              BY <4>2 DEF FormLeft
            <5>2. a \in AskSet
              BY Ready DEF SomeAsks
            <5>3. a.view = "sheet"
              BY <3>2, <5>1, <5>2 DEF AskSet
            <5>. QED  BY <3>1, <5>1, <5>3
          <4>. QED  BY <1>0, <4>1, <4>2
        <3>. QED  BY <1>1, <3>1, <3>2 DEF Views
      <2>2. \A w \in Views : views'[w].asking = views[w].asking
        BY <1>1
      <2>. QED  BY <1>0, <2>1, <2>2, LayersStand
    <1>6. SentOnce'
      BY <1>1, <1>3, Ready, SentFewer, SentTurned DEF PageReady, PageHeld
    <1>7. MovesOnce'
      <2>1. \A a \in asks : IsMove(a) => g[a] = a.at
        BY DEF IsMove, FormLeaves, CreatorMoves
      <2>. QED  BY <1>3, <2>1, Ready, MovesTurned, MovesFewer DEF PageReady, PageHeld
    <1>. QED  BY <1>4, <1>5, <1>6, <1>7 DEF PageHeld

LEMMA QuestionKept ==
    ASSUME PageReady, NEW v \in Views, AskFirst(v) \/ TakeBack(v)
    PROVE  PageHeld'
    <1>0. /\ UNCHANGED <<page, opened, detail, heard, asks>> /\ Reach(v)
      BY DEF AskFirst, TakeBack, BusyStill
    <1>1. PICK asking \in BOOLEAN : /\ views' = [views EXCEPT ![v].asking = asking]
                                    /\ asking => Due(v) # "none"
      BY DEF AskFirst, TakeBack
    <1>2. /\ views' \in [Views -> ViewSet]
          /\ \A w \in Views : views'[w].sent = views[w].sent
          /\ \A w \in Views \ {v} : views'[w] = views[w]
          /\ views'[v].asking = asking
      <2>1. views \in [Views -> ViewSet] /\ "rincian" \in Tabs
        BY Ready DEF Tabs
      <2>. QED  BY <1>1, <2>1, ViewChanged
    <1>3. PageTyped'
      BY <1>0, <1>2, Ready DEF PageTyped, SomeAsks, ViewSet
    <1>4. LayersHold'
      <2>1. ~Sheet => views'["sheet"] = NewView /\ \A b \in asks' : b.view = "sheet" => b.at = "gone"
        BY <1>0, <1>2 DEF PageReady, PageHeld, LayersHold, Reach, Views
      <2>2. \A w \in Views : views'[w].asking => views[w].asking \/ Due(w) # "none"
        BY <1>1, <1>2
      <2>. QED  BY <1>0, <2>1, <2>2, LayersStand
    <1>5. SentOnce'
      BY <1>0, <1>2, SentFewer DEF PageReady, PageHeld
    <1>6. MovesOnce'
      BY <1>0, Ready, MovesFewer DEF PageReady, PageHeld
    <1>. QED  BY <1>3, <1>4, <1>5, <1>6 DEF PageHeld

\* What the page asks of the server it asks once: the control of a move under way is busy.
LEMMA AskKept ==
    ASSUME PageReady, NEW v \in Views, NEW what \in CreatorMoves \cup {"comment"}, Reach(v),
           Ask(v, what), UNCHANGED <<page, views, opened, detail, heard>>,
           what \in CreatorMoves => Due(v) = what /\ ~Waiting(v, CreatorMoves)
    PROVE  PageHeld'
    <1>0. InView(v) \in DOMAIN page /\ InView(v) \in Contracts
      BY ShownInView
    <1>1. PICK new \in AskSet : /\ asks' = asks \cup {new}
                                /\ new.view = v /\ new.what = what /\ new.c = InView(v)
                                /\ new.at = "form" /\ new.saved = 0
      BY <1>0, Ready, AskTyped
    <1>2. SomeAsks(asks')
      BY <1>0, Ready, AskTyped
    <1>3. PageTyped'
      BY <1>2 DEF PageReady, PageHeld, PageTyped, SomeAsks
    <1>4. LayersHold'
      <2>1. ~Sheet => v # "sheet"
        BY DEF Reach
      <2>2. ~Sheet => views'["sheet"] = NewView /\ \A b \in asks' : b.view = "sheet" => b.at = "gone"
        BY <1>1, <2>1 DEF PageReady, PageHeld, LayersHold
      <2>. QED  BY <2>2, LayersStand
    <1>5. SentOnce'
      <2>1. /\ \A b \in asks' : b.saved # 0 => \E a \in asks : a.saved = b.saved
            /\ \A b, d \in asks' : b.saved # 0 /\ b.saved = d.saved => b = d
        BY <1>1 DEF PageReady, PageHeld, SentOnce
      <2>. QED  BY <2>1, SentStands DEF PageReady, PageHeld
    <1>6. MovesOnce'
      <2>0. MovesOnce /\ page' = page /\ current' = current
        BY DEF PageReady, PageHeld, current
      <2>1. CASE ~IsMove(new)
        BY <1>1, <2>0, <2>1 DEF MovesOnce, IsMove
      <2>2. CASE IsMove(new)
        <3>1. v = "current" /\ new.c = current /\ what \in CreatorMoves
          BY <1>1, <2>2 DEF IsMove, InView
        <3>2. /\ page[current].step = AsksFor[what] /\ AsksFor[what] \in {1, 3}
              /\ current \in DOMAIN page /\ current \in Nat
          <4>1. nextAction(page[current].step) = what
            BY <3>1 DEF Due, InView
          <4>2. page[current].step = AsksFor[what] /\ AsksFor[what] \in {1, 3}
            BY <3>1, <4>1 DEF nextAction, CreatorMoves, AsksFor
          <4>. QED  BY <4>2, Ready DEF PageReady, PageGrows
        <3>3. ASSUME NEW a \in asks, IsMove(a), a.what = new.what, a.c = new.c
              PROVE  FALSE
          <4>1. a.at # "form"
            BY <1>1, <3>1, <3>3 DEF Waiting, IsMove
          <4>2. a.c < current \/ page[a.c].step > AsksFor[a.what]
            BY <2>0, <3>3, <4>1 DEF MovesOnce
          <4>. QED  BY <1>1, <3>1, <3>2, <3>3, <4>2
        <3>4. /\ new.c \in DOMAIN page /\ page[new.c].step >= AsksFor[new.what] /\ new.at = "form"
          BY <1>1, <3>1, <3>2
        <3>. QED  BY <1>1, <2>0, <3>3, <3>4 DEF MovesOnce, IsMove
      <2>. QED  BY <2>1, <2>2
    <1>. QED  BY <1>3, <1>4, <1>5, <1>6 DEF PageHeld

LEMMA SendKept ==
    ASSUME PageReady, NEW v \in Views, SendMove(v) \/ SendComment(v)
    PROVE  PageHeld'
    <1>1. CASE SendMove(v)
      <2>1. /\ Reach(v) /\ views[v].asking /\ ~Waiting(v, CreatorMoves) /\ Ask(v, Due(v))
            /\ UNCHANGED <<page, views, opened, detail, heard>>
        BY <1>1 DEF SendMove
      <2>2. Due(v) \in CreatorMoves
        <3>1. Due(v) # "none"
          BY <2>1 DEF PageReady, PageHeld, LayersHold
        <3>. QED  BY <3>1 DEF Due, nextAction, CreatorMoves
      <2>. QED  BY <2>1, <2>2, AskKept
    <1>2. CASE SendComment(v)
      <2>1. "comment" \notin CreatorMoves
        BY DEF CreatorMoves
      <2>. QED  BY <1>2, <2>1, AskKept DEF SendComment
    <1>. QED  BY <1>1, <1>2

\* An answer on its way changes neither what stands on screen nor where it goes.
LEMMA AnsweredKept ==
    ASSUME PageReady, NEW a \in asks, NEW answer \in {"ok", "failed"}, NEW saved \in 0..MaxComments,
           Answered(a, answer, saved), UNCHANGED <<page, views, opened, detail, heard>>,
           saved # 0 => saved = Said + 1 /\ saved = Said'
    PROVE  PageHeld'
    <1>0. a \in AskSet /\ SomeAsks(asks)
      BY Ready DEF SomeAsks
    <1>. DEFINE b == [a EXCEPT !.answer = answer, !.saved = saved]
    <1>1. asks' = (asks \ {a}) \cup {b} /\ b.saved = saved /\ b.view = a.view /\ b.at = a.at
      BY <1>0 DEF Answered, AskSet
    <1>. HIDE DEF b
    <1>2. SomeAsks(asks')
      BY <1>0, AnswerTyped
    <1>3. PageTyped'
      BY <1>2 DEF PageReady, PageHeld, PageTyped, SomeAsks
    <1>4. LayersHold'
      <2>1. ~Sheet => views'["sheet"] = NewView /\ \A d \in asks' : d.view = "sheet" => d.at = "gone"
        BY <1>1 DEF PageReady, PageHeld, LayersHold
      <2>. QED  BY <2>1, LayersStand
    <1>5. SentOnce'
      <2>0. SentOnce /\ Said \in Nat /\ Said' \in Nat
        BY DEF PageReady, PageHeld, DeskGrows
      <2>1. CASE saved = 0
        <3>1. /\ \A d \in asks' : d.saved # 0 => d \in asks
              /\ \A d, e \in asks' : d.saved # 0 /\ d.saved = e.saved => d = e
          BY <1>1, <2>0, <2>1 DEF SentOnce
        <3>2. \A d \in asks' : d.saved # 0 => \E e \in asks : e.saved = d.saved
          BY <3>1
        <3>. QED  BY <3>1, <3>2, SentStands DEF PageReady, PageHeld
      <2>2. CASE saved # 0
        <3>1. saved = Said + 1 /\ Said' = saved /\ saved \in 1..Said' /\ saved \notin 1..Said
          BY <2>0, <2>2
        <3>2. \A d \in asks : d.saved # 0 => d.saved \in 1..Said /\ d.saved \in 1..Said'
          BY <2>0, <3>1 DEF SentOnce
        <3>3. \A v \in Views : /\ IsInjective(views'[v].sent) /\ Range(views'[v].sent) \subseteq 1..Said'
                               /\ saved \notin Range(views'[v].sent)
          BY <2>0, <3>1 DEF SentOnce
        <3>4. ASSUME NEW d \in asks', d.saved # 0
              PROVE  d.saved \in 1..Said' /\ \A v \in Views : d.saved \notin Range(views'[v].sent)
          BY <1>1, <2>0, <3>1, <3>2, <3>3, <3>4 DEF SentOnce
        <3>5. ASSUME NEW d \in asks', NEW e \in asks', d.saved # 0, d.saved = e.saved
              PROVE  d = e
          BY <1>1, <2>0, <3>1, <3>2, <3>5 DEF SentOnce
        <3>. QED  BY <3>3, <3>4, <3>5 DEF SentOnce
      <2>. QED  BY <2>1, <2>2
    <1>6. MovesOnce'
      BY <1>0, MovesAnswered DEF PageReady, PageHeld
    <1>. QED  BY <1>3, <1>4, <1>5, <1>6 DEF PageHeld

LEMMA ReachesKept ==
    ASSUME PageReady, NEW a \in asks, TurnReaches(a) \/ CommentReaches(a)
    PROVE  PageHeld'
    <1>0. UNCHANGED <<page, views, opened, detail, heard>>
      BY DEF TurnReaches, CommentReaches
    <1>1. 0 \in 0..MaxComments
      BY DeskAssumption
    <1>2. CASE \E answer \in {"ok", "failed"} : Answered(a, answer, 0)
      BY <1>0, <1>1, <1>2, AnsweredKept
    <1>3. CASE Saves(a.c) /\ Answered(a, "ok", Said + 1)
      <2>1. a.c \in Contracts
        BY Ready DEF SomeAsks, AskSet
      <2>2. Said + 1 \in 1..MaxComments /\ Said' = Said + 1
        BY <1>3, <2>1, SavedLast DEF PageReady
      <2>3. Said + 1 \in 0..MaxComments
        BY <2>2
      <2>. QED  BY <1>0, <1>3, <2>2, <2>3, AnsweredKept
    <1>. QED  BY <1>2, <1>3 DEF TurnReaches, CommentReaches, Saves

LEMMA FailsKept ==
    ASSUME PageReady, NEW a \in asks, AskFails(a)
    PROVE  PageHeld'
    <1>0. asks' = asks \ {a} /\ UNCHANGED <<page, views, opened, detail, heard>>
      BY DEF AskFails
    <1>1. SomeAsks(asks') /\ asks' \subseteq asks
      BY <1>0, Ready, FS_RemoveElement DEF SomeAsks
    <1>2. PageTyped'
      BY <1>0, <1>1 DEF PageReady, PageHeld, PageTyped, SomeAsks
    <1>3. LayersHold'
      BY <1>0, LayersStand DEF PageReady, PageHeld, LayersHold
    <1>4. SentOnce'
      BY <1>0, <1>1, SentFewer DEF PageReady, PageHeld
    <1>5. MovesOnce'
      BY <1>1, Ready, MovesFewer DEF PageReady, PageHeld
    <1>. QED  BY <1>2, <1>3, <1>4, <1>5 DEF PageHeld

LEMMA TurnLandsKept ==
    ASSUME PageReady, NEW a \in asks, TurnLands(a)
    PROVE  PageHeld'
    <1>0. /\ asks' = asks \ {a} /\ UNCHANGED <<page, opened, detail>>
          /\ views' = IF a.at = "form" THEN [views EXCEPT ![a.view].asking = FALSE] ELSE views
          /\ heard' = heard \cup {<<a.c, AsksFor[a.what] + 1>>}
          /\ a.what # "comment"
      BY DEF TurnLands
    <1>1. SomeAsks(asks') /\ asks' \subseteq asks
      BY <1>0, Ready, FS_RemoveElement DEF SomeAsks
    <1>2. a.c \in Contracts /\ a.what \in CreatorMoves /\ a.view \in Views
      BY <1>0, Ready DEF SomeAsks, AskSet
    <1>3. heard' \subseteq Contracts \X {2, 4}
      <2>1. AsksFor[a.what] + 1 \in {2, 4}
        BY <1>2 DEF CreatorMoves, AsksFor
      <2>. QED  BY <1>0, <1>2, <2>1, Ready
    <1>4. /\ views' \in [Views -> ViewSet]
          /\ \A v \in Views : views'[v].sent = views[v].sent /\ (views'[v].asking => views[v].asking)
          /\ a.at # "form" \/ a.view # "sheet" => views'["sheet"] = views["sheet"]
      <2>0. views \in [Views -> ViewSet] /\ "rincian" \in Tabs
        BY Ready DEF Tabs
      <2>1. CASE a.at = "form"
        <3>1. views' = [views EXCEPT ![a.view].asking = FALSE]
          BY <1>0, <2>1
        <3>2. /\ views' \in [Views -> ViewSet]
              /\ \A w \in Views : views'[w].sent = views[w].sent
              /\ \A w \in Views \ {a.view} : views'[w] = views[w]
              /\ views'[a.view].asking = FALSE
          BY <1>2, <2>0, <3>1, ViewChanged
        <3>. QED  BY <2>1, <3>2 DEF Views
      <2>2. CASE a.at # "form"
        BY <1>0, <2>0, <2>2
      <2>. QED  BY <2>1, <2>2
    <1>5. PageTyped'
      BY <1>0, <1>1, <1>3, <1>4, Ready DEF PageTyped, SomeAsks, ViewSet
    <1>6. LayersHold'
      <2>1. ~Sheet => views'["sheet"] = NewView /\ \A b \in asks' : b.view = "sheet" => b.at = "gone"
        BY <1>1, <1>4 DEF PageReady, PageHeld, LayersHold
      <2>. QED  BY <1>0, <1>4, <2>1, LayersStand
    <1>7. SentOnce'
      BY <1>1, <1>4, SentFewer DEF PageReady, PageHeld
    <1>8. MovesOnce'
      BY <1>1, Ready, MovesFewer DEF PageReady, PageHeld
    <1>. QED  BY <1>5, <1>6, <1>7, <1>8 DEF PageHeld

LEMMA CommentLandsKept ==
    ASSUME PageReady, NEW a \in asks, CommentLands(a)
    PROVE  PageHeld'
    <1>0. /\ asks' = asks \ {a} /\ UNCHANGED <<page, opened, detail, heard>>
          /\ views' = IF a.saved = 0 \/ a.at = "gone" THEN views
                      ELSE [views EXCEPT ![a.view].sent = Append(@, a.saved)]
      BY DEF CommentLands
    <1>1. SomeAsks(asks') /\ asks' \subseteq asks
      BY <1>0, Ready, FS_RemoveElement DEF SomeAsks
    <1>2. a \in AskSet /\ views \in [Views -> ViewSet]
      BY Ready DEF SomeAsks
    <1>3. MovesOnce'
      BY <1>1, Ready, MovesFewer DEF PageReady, PageHeld
    <1>4. CASE views' = views
      <2>1. PageTyped'
        BY <1>0, <1>1, <1>4, Ready DEF PageReady, PageHeld, PageTyped, SomeAsks
      <2>2. LayersHold'
        BY <1>0, <1>4, LayersStand DEF PageReady, PageHeld, LayersHold
      <2>3. SentOnce'
        BY <1>1, <1>4, SentFewer DEF PageReady, PageHeld
      <2>. QED  BY <1>3, <2>1, <2>2, <2>3 DEF PageHeld
    <1>5. CASE a.saved # 0 /\ a.at # "gone"
      <2>. DEFINE v == a.view  more == Append(views[v].sent, a.saved)  S == 1..MaxComments
      <2>1. /\ v \in Views /\ views[v] \in ViewSet /\ a.saved \in S
            /\ views[v].sent \in Seq(S)
        BY <1>2, <1>5, DeskAssumption DEF AskSet, ViewSet
      <2>2. /\ IsInjective(views[v].sent) /\ a.saved \notin Range(views[v].sent)
            /\ Range(views[v].sent) \subseteq 1..Said /\ a.saved \in 1..Said
        BY <1>5, <2>1 DEF PageReady, PageHeld, SentOnce
      <2>. HIDE DEF S
      <2>3. more \in Seq(S) /\ Range(more) = Range(views[v].sent) \cup {a.saved} /\ IsInjective(more)
        BY <2>1, <2>2, Appended
      <2>4. views' = [views EXCEPT ![v] = [views[v] EXCEPT !.sent = more]]
        BY <1>0, <1>5
      <2>. HIDE DEF more
      <2>5. /\ [views[v] EXCEPT !.sent = more] \in ViewSet
            /\ [views[v] EXCEPT !.sent = more].sent = more
            /\ [views[v] EXCEPT !.sent = more].asking = views[v].asking
        BY <2>1, <2>3 DEF ViewSet, S
      <2>6. /\ views' \in [Views -> ViewSet] /\ views'[v].sent = more
            /\ views'[v].asking = views[v].asking
            /\ \A w \in Views \ {v} : views'[w] = views[w]
        BY <1>2, <2>1, <2>4, <2>5
      <2>7. PageTyped'
        BY <1>0, <1>1, <2>6, Ready DEF PageTyped, SomeAsks, ViewSet
      <2>8. LayersHold'
        <3>1. ~Sheet => v # "sheet"
          BY <1>5 DEF PageReady, PageHeld, LayersHold
        <3>2. ~Sheet => views'["sheet"] = NewView /\ \A b \in asks' : b.view = "sheet" => b.at = "gone"
          BY <1>1, <2>6, <3>1 DEF PageReady, PageHeld, LayersHold, Views
        <3>3. \A w \in Views : views'[w].asking => views[w].asking
          BY <2>6
        <3>. QED  BY <1>0, <3>2, <3>3, LayersStand
      <2>9. SentOnce'
        <3>0. SentOnce /\ Said \in Nat /\ Said' \in Nat /\ Said <= Said'
          BY DEF PageReady, PageHeld, DeskGrows
        <3>1. 1..Said \subseteq 1..Said'
          BY <3>0
        <3>2. \A w \in Views : IsInjective(views'[w].sent) /\ Range(views'[w].sent) \subseteq 1..Said'
          <4>1. IsInjective(views'[v].sent) /\ Range(views'[v].sent) \subseteq 1..Said'
            BY <2>2, <2>3, <2>6, <3>1
          <4>2. \A w \in Views \ {v} : IsInjective(views'[w].sent) /\ Range(views'[w].sent) \subseteq 1..Said'
            BY <2>6, <3>0, <3>1 DEF SentOnce
          <4>. QED  BY <4>1, <4>2
        <3>3. ASSUME NEW b \in asks', b.saved # 0
              PROVE  b.saved \in 1..Said' /\ \A w \in Views : b.saved \notin Range(views'[w].sent)
          <4>1. b \in asks /\ b # a /\ b.saved # a.saved
            BY <1>0, <1>5, <3>0, <3>3 DEF SentOnce
          <4>2. b.saved \in 1..Said /\ \A w \in Views : b.saved \notin Range(views[w].sent)
            BY <3>0, <3>3, <4>1 DEF SentOnce
          <4>. QED  BY <2>1, <2>3, <2>6, <3>1, <4>1, <4>2
        <3>4. \A b, d \in asks' : b.saved # 0 /\ b.saved = d.saved => b = d
          BY <1>1, <3>0 DEF SentOnce
        <3>. QED  BY <3>2, <3>3, <3>4 DEF SentOnce
      <2>. QED  BY <1>3, <2>7, <2>8, <2>9 DEF PageHeld
    <1>. QED  BY <1>0, <1>4, <1>5

LEMMA RereadLandsKept ==
    ASSUME PageReady, RereadLands, IsRead(page)'
    PROVE  PageHeld'
    <1>. DEFINE over == {v \in Views : (v = "current" \/ Sheet) /\ Due(v)' = "none"}
                g == [a \in asks |-> IF a.view \in over /\ a.what # "comment" /\ a.at = "form"
                                     THEN "view" ELSE a.at]
    <1>0. UNCHANGED <<opened, detail, heard>> /\ (Sheet' <=> Sheet) /\ over \subseteq Views
      BY DEF RereadLands, Sheet
    <1>1. /\ views' = [v \in Views |-> TurnOver(views[v], v \in over)]
          /\ asks' = {IF a.view \in over /\ a.what # "comment" /\ a.at = "form"
                      THEN [a EXCEPT !.at = "view"] ELSE a : a \in asks}
      BY DEF RereadLands
    <1>2. \A v \in Views : (v = "current" \/ Sheet) /\ Due(v)' = "none" <=> v \in over
      OBVIOUS
    <1>3. /\ SomeAsks(asks) /\ views \in [Views -> ViewSet]
          /\ \A a \in asks : a.at \in {"form", "view", "gone"} /\ [a EXCEPT !.at = a.at] = a
      BY Ready DEF SomeAsks, AskSet
    <1>4. /\ DOMAIN g = asks /\ \A a \in asks : g[a] \in {"form", "view", "gone"}
          /\ \A a \in asks : g[a] = IF a.view \in over /\ a.what # "comment" /\ a.at = "form"
                                    THEN "view" ELSE a.at
      BY <1>3
    <1>. HIDE DEF over, g
    <1>5. Turned(asks', g)
      <2>1. \A a \in asks : [a EXCEPT !.at = g[a]] =
               IF a.view \in over /\ a.what # "comment" /\ a.at = "form"
               THEN [a EXCEPT !.at = "view"] ELSE a
        BY <1>3, <1>4
      <2>2. \A b \in asks' : \E a \in asks : b = [a EXCEPT !.at = g[a]]
        <3>. SUFFICES ASSUME NEW b \in asks'
                      PROVE  \E a \in asks : b = [a EXCEPT !.at = g[a]]
          OBVIOUS
        <3>1. PICK a \in asks : b = IF a.view \in over /\ a.what # "comment" /\ a.at = "form"
                                    THEN [a EXCEPT !.at = "view"] ELSE a
          BY <1>1
        <3>2. b = [a EXCEPT !.at = g[a]]
          BY <2>1, <3>1
        <3>. QED  BY <3>2
      <2>3. \A a \in asks : [a EXCEPT !.at = g[a]] \in asks'
        BY <1>1, <2>1
      <2>4. asks' = {[a EXCEPT !.at = g[a]] : a \in asks}
        BY <2>2, <2>3
      <2>. QED  BY <1>3, <1>4, <2>4, AsksTurned
    <1>6. /\ views' \in [Views -> ViewSet]
          /\ \A v \in Views : /\ views'[v].sent = views[v].sent
                              /\ views'[v].asking => views[v].asking /\ v \notin over
                              /\ views[v] = NewView => views'[v] = NewView
      <2>. SUFFICES ASSUME NEW v \in Views
                    PROVE  /\ TurnOver(views[v], v \in over) \in ViewSet
                           /\ TurnOver(views[v], v \in over).sent = views[v].sent
                           /\ TurnOver(views[v], v \in over).asking => views[v].asking /\ v \notin over
                           /\ views[v] = NewView => TurnOver(views[v], v \in over) = NewView
        BY <1>1
      <2>0. views[v] \in ViewSet
        BY <1>3
      <2>1. CASE v \in over
        <3>1. TurnOver(views[v], v \in over) = [views[v] EXCEPT !.asking = FALSE]
          BY <2>0, <2>1 DEF TurnOver, ViewSet
        <3>2. /\ [views[v] EXCEPT !.asking = FALSE] \in ViewSet
              /\ [views[v] EXCEPT !.asking = FALSE].sent = views[v].sent
              /\ ~[views[v] EXCEPT !.asking = FALSE].asking
          BY <2>0 DEF ViewSet
        <3>3. views[v] = NewView => [views[v] EXCEPT !.asking = FALSE] = NewView
          <4>1. [NewView EXCEPT !.asking = FALSE] = NewView
            <5>1. \A t, s, b : [[tab |-> t, sent |-> s, asking |-> b] EXCEPT !.asking = b]
                                = [tab |-> t, sent |-> s, asking |-> b]
              OBVIOUS
            <5>. QED  BY <5>1, Zenon DEF NewView
          <4>. QED  BY <4>1
        <3>. QED  BY <3>1, <3>2, <3>3
      <2>2. CASE v \notin over
        <3>1. TurnOver(views[v], v \in over) = views[v]
          BY <2>0, <2>2 DEF TurnOver, ViewSet
        <3>. QED  BY <2>0, <2>2, <3>1
      <2>. QED  BY <2>1, <2>2
    <1>7. PageTyped'
      BY <1>0, <1>5, <1>6, Ready DEF PageTyped, Turned, SomeAsks, ViewSet
    <1>8. LayersHold'
      <2>1. opened' # 0 => opened' \in DOMAIN page'
        BY <1>0 DEF PageReady, PageHeld, LayersHold, PageGrows
      <2>2. ASSUME ~Sheet
            PROVE  views'["sheet"] = NewView /\ \A b \in asks' : b.view = "sheet" => b.at = "gone"
        <3>1. views["sheet"] = NewView /\ \A a \in asks : a.view = "sheet" => a.at = "gone"
          BY <2>2 DEF PageReady, PageHeld, LayersHold
        <3>2. ASSUME NEW b \in asks', b.view = "sheet"
              PROVE  b.at = "gone"
          <4>1. PICK a \in asks : b = [a EXCEPT !.at = g[a]]
            BY <1>5 DEF Turned
          <4>2. b.view = a.view /\ b.at = g[a]
            BY <1>3, <1>4, <4>1, AskFields DEF SomeAsks
          <4>. QED  BY <1>4, <3>1, <3>2, <4>2
        <3>. QED  BY <1>6, <3>1, <3>2 DEF Views
      <2>3. ASSUME NEW v \in Views, views'[v].asking
            PROVE  Due(v)' # "none"
        <3>1. views[v].asking /\ v \notin over
          BY <1>6, <2>3
        <3>2. v = "current" \/ Sheet
          BY <3>1 DEF PageReady, PageHeld, LayersHold, Views, NewView
        <3>. QED  BY <1>2, <3>1, <3>2
      <2>. QED  BY <1>0, <2>1, <2>2, <2>3 DEF LayersHold
    <1>9. SentOnce'
      BY <1>3, <1>5, <1>6, SentTurned DEF PageReady, PageHeld
    <1>10. MovesOnce'
      <2>0. PageGrows /\ MovesOnce
        BY DEF PageReady, PageHeld
      <2>1. ASSUME NEW a \in asks, IsMove(a), g[a] # a.at
            PROVE  a.c < current' \/ page'[a.c].step > AsksFor[a.what]
        <3>0. a \in AskSet
          BY <1>3 DEF SomeAsks
        <3>1. /\ AsksFor[a.what] \in {1, 3} /\ a.c \in Nat /\ page'[a.c].step \in 0..4
              /\ a.c \in DOMAIN page' /\ page'[a.c].step >= AsksFor[a.what]
          BY <2>0, <2>1, <3>0, MoveLasts
        <3>2. "current" \in over
          BY <1>4, <2>1 DEF IsMove
        <3>3. nextAction(page'[current'].step) = "none"
          <4>1. Due("current")' = "none"
            BY <1>2, <3>2 DEF Views
          <4>. QED  BY <4>1 DEF Due, InView
        <3>4. current' \in Nat /\ a.c <= current'
          <4>1. DOMAIN page' = 1..current' /\ current' \in Nat
            <5>1. current' = Max(DOMAIN page')
              BY DEF current
            <5>. QED  BY <5>1, CurrentIs DEF IsRead
          <4>. QED  BY <3>1, <4>1
        <3>5. CASE a.c = current'
          <4>1. page'[a.c].step # 1 /\ page'[a.c].step # 3
            BY <3>3, <3>5 DEF nextAction
          <4>. QED  BY <3>1, <4>1
        <3>6. CASE a.c # current'
          BY <3>1, <3>4, <3>6
        <3>. QED  BY <3>5, <3>6
      <2>. QED  BY <1>3, <1>5, <2>0, <2>1, MovesTurned
    <1>. QED  BY <1>7, <1>8, <1>9, <1>10 DEF PageHeld

-----------------------------------------------------------------------------
(* Both sides.                                                             *)

LEMMA PageDesk ==
    ASSUME DeskInv, ThreadInv, asks \subseteq AskSet, PageNext
    PROVE  DeskInv' /\ DeskGrows
    <1>1. ASSUME NEW a \in asks, TurnReaches(a)
          PROVE  DeskInv' /\ DeskGrows
      <2>1. /\ UNCHANGED <<comments, periods, elsewhere, presses>>
            /\ invoices' = invoices \/ (Takes(a.what, a.c) /\ invoices' = Moved(a.what, a.c))
            /\ a.what \in DOMAIN AsksFor /\ a.c \in Contracts
        BY <1>1 DEF TurnReaches, AskSet, CreatorMoves, AsksFor
      <2>2. invoices' \in [Contracts -> Invoices] /\ StepsRise
        BY <2>1, MovedRises, NothingRises DEF DeskInv, DeskTypeOK
      <2>. QED  BY <2>1, <2>2, ThreadsStand DEF DeskInv, DeskTypeOK
    <1>2. ASSUME NEW a \in asks, CommentReaches(a)
          PROVE  DeskInv' /\ DeskGrows
      <2>1. /\ UNCHANGED <<invoices, periods, elsewhere, presses>>
            /\ comments' = comments \/ Saves(a.c)
            /\ a.c \in Contracts
        BY <1>2 DEF CommentReaches, Saves, AskSet
      <2>2. CASE Saves(a.c)
        BY <2>1, <2>2, TurnsStand
      <2>3. CASE comments' = comments
        BY <2>1, <2>3, DeskStands DEF deskVars, held
      <2>. QED  BY <2>1, <2>2, <2>3
    <1>3. CASE ThreadReaches
      <2>1. /\ UNCHANGED <<invoices, periods, elsewhere, presses>>
            /\ comments' = comments \/ Saves(thread.c)
            /\ thread.c \in Contracts
        BY <1>3, ThreadShape DEF ThreadReaches, Saves
      <2>2. CASE Saves(thread.c)
        BY <2>1, <2>2, TurnsStand
      <2>3. CASE comments' = comments
        BY <2>1, <2>3, DeskStands DEF deskVars, held
      <2>. QED  BY <2>1, <2>2, <2>3
    <1>4. CASE PageElsewhere
      BY <1>4, ElsewhereGrows
    <1>5. CASE Creator
      <2>1. Press /\ UNCHANGED held
        BY <1>5 DEF Creator, OpenSheet, LeaveSheet, OpenDetail, CloseDetail, SelectTab, AskFirst,
           TakeBack, SendMove, SendComment
      <2>. QED  BY <2>1, DeskStands
    <1>6. CASE AdminThread /\ ~ThreadReaches
      <2>1. UNCHANGED deskVars \/ (Press /\ UNCHANGED held)
        BY <1>6 DEF AdminThread, OpenThread, ThreadLoads, CloseThread, SendInThread, ThreadAnswers
      <2>. QED  BY <2>1, DeskStands
    <1>7. CASE PageAnswers /\ ~\E a \in asks : TurnReaches(a) \/ CommentReaches(a)
      <2>1. UNCHANGED deskVars
        BY <1>7 DEF PageAnswers, TurnLands, CommentLands, AskFails, RereadReads, RereadLands
      <2>. QED  BY <2>1, DeskStands
    <1>. QED  BY <1>1, <1>2, <1>3, <1>4, <1>5, <1>6, <1>7 DEF PageNext

LEMMA PageSteps ==
    ASSUME DeskInv, PageInv, PageNext
    PROVE  DeskInv' /\ PageInv'
    <1>1. DeskInv' /\ DeskGrows
      BY PageDesk DEF PageInv, PageTyped, AskSet
    <1>2. PageIsRead' /\ PageGrows
      BY <1>1, PageIsReadKept DEF PageInv
    <1>3. PageReady
      BY <1>1, <1>2 DEF PageReady, PageInv, PageHeld
    <1>4. PageHeld'
      <2>1. CASE AdminThread \/ PageElsewhere \/ RereadReads
        <3>1. UNCHANGED <<page, views, opened, detail, asks, heard>>
          BY <2>1 DEF AdminThread, OpenThread, ThreadLoads, CloseThread, SendInThread, ThreadReaches,
             ThreadAnswers, PageElsewhere, pageVars, RereadReads
        <3>. QED  BY <1>3, <3>1, QuietKept
      <2>2. CASE Creator
        BY <1>3, <2>2, LayersKept, LeaveSheetKept, SelectTabKept, QuestionKept, SendKept DEF Creator
      <2>3. CASE RereadLands
        BY <1>2, <1>3, <2>3, RereadLandsKept DEF PageIsRead
      <2>4. CASE PageAnswers
        BY <1>3, <2>1, <2>3, <2>4, ReachesKept, TurnLandsKept, CommentLandsKept, FailsKept DEF PageAnswers
      <2>. QED  BY <2>1, <2>2, <2>4 DEF PageNext
    <1>5. ThreadInv'
      <2>1. CASE AdminThread
        BY <2>1, ThreadKept DEF PageInv
      <2>2. CASE ~AdminThread
        <3>1. thread' = thread
          BY <2>2 DEF PageNext, PageAnswers, Creator, OpenSheet, LeaveSheet, OpenDetail, CloseDetail,
             SelectTab, AskFirst, TakeBack, SendMove, SendComment, TurnReaches, CommentReaches, TurnLands,
             CommentLands, AskFails, RereadReads, RereadLands, PageElsewhere, pageVars
        <3>. QED  BY <1>1, <3>1, ThreadStands DEF PageInv, DeskGrows
      <2>. QED  BY <2>1, <2>2
    <1>. QED  BY <1>1, <1>2, <1>4, <1>5 DEF PageInv, PageHeld

LEMMA PageStays ==
    ASSUME DeskInv, DeskInv', DeskGrows, PageInv, UNCHANGED pageVars
    PROVE  PageInv'
    <1>1. PageIsRead' /\ PageGrows
      BY PageStands DEF PageInv, pageVars
    <1>2. PageHeld'
      BY <1>1, QuietKept DEF PageReady, PageInv, PageHeld, pageVars
    <1>3. ThreadInv'
      BY ThreadStands DEF PageInv, pageVars, DeskGrows
    <1>. QED  BY <1>1, <1>2, <1>3 DEF PageInv, PageHeld

-----------------------------------------------------------------------------
(* What both sides keep, from which the types, the threads and the moves   *)
(* follow.                                                                 *)

BothInv == ScreensInv /\ DeskInv /\ PanelsTypeOK /\ BoardRest /\ PageInv

LEMMA BothStart ==
    ASSUME ScreensInit
    PROVE  DeskInv /\ PanelsTypeOK /\ BoardRest /\ PageInv
    <1>1. DeskInv
      BY DeskStarts DEF ScreensInit
    <1>2. PanelsTypeOK /\ BoardRest
      <2>1. BoardInv
        BY BoardStarts DEF ScreensInit
      <2>2. PanelsInit
        BY DEF ScreensInit
      <2>3. BoardRest
        BY <2>2, FS_EmptySet DEF PanelsInit, BoardRest, SomeCalls
      <2>. QED  BY <2>1, <2>2, <2>3 DEF PanelsInit, PanelsTypeOK, BoardInv, BoardTyped, BoardRest
    <1>3. /\ page = Read /\ reread = [going |-> FALSE, read |-> NoRead]
          /\ views = [v \in Views |-> NewView] /\ opened = 0 /\ detail = FALSE
          /\ asks = {} /\ heard = {} /\ thread = NoThread
      BY DEF ScreensInit, PageInit
    <1>4. IsRead(page)
      <2>1. \A c \in periods : /\ page[c] = Standing(c) /\ IsReading(Standing(c))
                               /\ NoNewer(Standing(c), Standing(c))
        BY <1>1, <1>3 DEF Read, DeskInv, DeskTypeOK, Invoices, IsReading, Standing, NoNewer, LastStep
      <2>2. DOMAIN page = periods /\ \E n \in Contracts : periods = 1..n
        BY <1>1, <1>3 DEF Read, DeskInv
      <2>. QED  BY <2>1, <2>2 DEF IsRead
    <1>5. PageIsRead
      BY <1>3, <1>4 DEF PageIsRead
    <1>6. PageTyped
      <2>1. NewView \in [tab : Tabs, sent : Seq(1..MaxComments), asking : BOOLEAN]
        BY DEF NewView, Tabs
      <2>2. views \in [Views -> [tab : Tabs, sent : Seq(1..MaxComments), asking : BOOLEAN]]
        BY <1>3, <2>1
      <2>. QED  BY <1>3, <2>2, FS_EmptySet DEF PageTyped
    <1>7. LayersHold
      BY <1>3 DEF LayersHold, NewView, Views
    <1>8. SentOnce
      BY <1>3 DEF SentOnce, NewView, IsInjective, Range
    <1>9. MovesOnce /\ ThreadInv
      BY <1>3 DEF MovesOnce, ThreadInv
    <1>. QED  BY <1>1, <1>2, <1>5, <1>6, <1>7, <1>8, <1>9 DEF PageInv

LEMMA BothSteps ==
    ASSUME BothInv, ScreensInv', [ScreensNext]_screenVars
    PROVE  BothInv'
    <1>1. CASE AdminSide
      <2>1. /\ BoardInv /\ BoardInv' /\ PanelsNext /\ UNCHANGED pageVars
        BY <1>1 DEF AdminSide, BothInv, ScreensInv
      <2>2. DeskInv' /\ DeskGrows
        BY <2>1, BoardGrows DEF BothInv
      <2>3. BoardRest'
        BY <2>1, BoardRestKept DEF BothInv
      <2>4. PanelsTypeOK'
        BY <2>1, <2>3 DEF BoardInv, BoardTyped, BoardRest, SomeCalls, CallSet, PanelsTypeOK
      <2>5. PageInv'
        BY <2>1, <2>2, PageStays DEF BothInv
      <2>. QED  BY <2>2, <2>3, <2>4, <2>5 DEF BothInv
    <1>2. CASE CreatorSide
      <2>1. PageNext /\ UNCHANGED panelVars
        BY <1>2 DEF CreatorSide
      <2>2. DeskInv' /\ PageInv'
        BY <2>1, PageSteps DEF BothInv
      <2>3. PanelsTypeOK' /\ BoardRest'
        BY <2>1 DEF BothInv, panelVars, PanelsTypeOK, BoardRest
      <2>. QED  BY <2>2, <2>3 DEF BothInv
    <1>3. CASE UNCHANGED screenVars
      <2>1. UNCHANGED deskVars /\ UNCHANGED panelVars /\ UNCHANGED pageVars
        BY <1>3 DEF screenVars
      <2>2. DeskInv' /\ DeskGrows
        BY <2>1, DeskStands DEF BothInv
      <2>3. PanelsTypeOK' /\ BoardRest'
        BY <2>1 DEF BothInv, panelVars, PanelsTypeOK, BoardRest
      <2>. QED  BY <2>1, <2>2, <2>3, PageStays DEF BothInv
    <1>. QED  BY <1>1, <1>2, <1>3 DEF ScreensNext

(* The invariant of both sides.                                            *)
THEOREM BothInvariant == ScreensSpec => []BothInv
    <1>1. ScreensInit /\ ScreensInv => BothInv
      BY BothStart DEF BothInv
    <1>2. BothInv /\ ScreensInv' /\ [ScreensNext]_screenVars => BothInv'
      BY BothSteps
    <1>. QED  BY <1>1, <1>2, ScreensInvariant, PTL DEF ScreensSpec

LEMMA ThreadsShown ==
    ASSUME PageInv, NEW v \in Views, v = "current" \/ Sheet
    PROVE  /\ Range(Thread(v)) = Range(page[InView(v)].thread) \cup Range(views[v].sent)
           /\ IsInjective(Thread(v))
           /\ InView(v) \in DOMAIN page
    <1>1. IsRead(page)
      BY DEF PageInv, PageIsRead
    <1>2. InView(v) \in DOMAIN page
      BY <1>1, CurrentShown DEF PageInv, LayersHold, InView, Sheet, Views
    <1>. DEFINE brought == page[InView(v)].thread  sent == views[v].sent  S == 1..MaxComments
    <1>3. /\ brought \in Seq(S) /\ Increasing(brought)
          /\ sent \in Seq(S) /\ IsInjective(sent)
      BY <1>1, <1>2 DEF IsRead, IsReading, PageInv, PageTyped, SentOnce
    <1>4. IsInjective(brought)
      BY <1>3, IncreasingIsInjective, DeskAssumption
    <1>5. Thread(v) = brought \o Unread(sent, Range(brought))
      BY DEF Thread
    <1>. HIDE DEF S, brought, sent
    <1>6. /\ Range(Thread(v)) = Range(brought) \cup Range(sent)
          /\ IsInjective(Thread(v))
      BY <1>3, <1>4, <1>5, ThreadIs
    <1>. QED  BY <1>2, <1>6 DEF brought, sent

(* No comment stands twice or out of order in a thread, and no move on the *)
(* invoice of the current period is under way twice, though its question   *)
(* is taken back and asked again (creator-invoice-view.tsx,                *)
(* invoice-comments.tsx); with the types of every screen.                  *)
THEOREM EverythingStandsOnce == ScreensSpec => []NothingTwice
    <1>1. BothInv => NothingTwice
      <2>. SUFFICES ASSUME BothInv
                    PROVE  NothingTwice
        OBVIOUS
      <2>1. ScreensTypeOK
        <3>1. PageTypeOK
          <4>1. DOMAIN page \subseteq Contracts /\ reread.going \in BOOLEAN
            BY CurrentShown DEF BothInv, PageInv, PageIsRead
          <4>2. DOMAIN reread.read \subseteq Contracts
            <5>1. CASE reread.read = NoRead
              BY <5>1 DEF NoRead
            <5>2. CASE reread.read # NoRead
              <6>1. \A c \in DOMAIN reread.read : c \in periods
                BY <5>2 DEF BothInv, PageInv, PageIsRead, IsRead
              <6>. QED  BY <6>1 DEF BothInv, DeskInv, DeskTypeOK
            <5>. QED  BY <5>1, <5>2
          <4>. QED  BY <4>1, <4>2 DEF BothInv, PageInv, PageTyped, AskSet, ThreadInv, PageTypeOK
        <3>. QED  BY <3>1 DEF BothInv, ScreensInv, DeskInv, ScreensTypeOK
      <2>2. CommentShownOnce
        BY ThreadsShown DEF BothInv, CommentShownOnce
      <2>3. NeverSentTwice
        <3>. SUFFICES ASSUME NEW c \in Contracts, NEW what \in CreatorMoves
                      PROVE  Cardinality({a \in asks : a.view = "current" /\ a.what = what /\ a.c = c}) <= 1
          BY DEF NeverSentTwice
        <3>. DEFINE same == {a \in asks : a.view = "current" /\ a.what = what /\ a.c = c}
        <3>1. \A a, b \in same : a = b
          BY DEF BothInv, PageInv, MovesOnce, IsMove
        <3>. HIDE DEF same
        <3>2. CASE same = {}
          <4>1. Cardinality(same) <= 1
            BY <3>2, FS_EmptySet
          <4>. QED  BY <4>1 DEF same
        <3>3. CASE same # {}
          <4>1. PICK a \in same : TRUE
            BY <3>3
          <4>2. same = {a}
            BY <3>1, <4>1
          <4>3. Cardinality({a}) = 1
            BY FS_Singleton
          <4>4. Cardinality(same) <= 1
            BY <4>2, <4>3
          <4>. QED  BY <4>4 DEF same
        <3>. QED  BY <3>2, <3>3
      <2>4. ThreadReadsInOrder
        BY DEF BothInv, PageInv, ThreadInv, Increasing, ThreadReadsInOrder
      <2>. QED  BY <2>1, <2>2, <2>3, <2>4 DEF NothingTwice
    <1>. QED  BY <1>1, BothInvariant, PTL

\* What a view lists of one invoice is listed after any step.
LEMMA ShownStays ==
    ASSUME BothInv, BothInv', [ScreensNext]_screenVars, NEW v \in Views,
           v = "current" \/ (Sheet /\ Sheet'), InView(v)' = InView(v)
    PROVE  Range(Thread(v)) \subseteq Range(Thread(v)')
    <1>1. /\ Range(Thread(v)) = Range(page[InView(v)].thread) \cup Range(views[v].sent)
          /\ InView(v) \in DOMAIN page
      BY ThreadsShown DEF BothInv
    <1>2. Range(Thread(v)') = Range(page'[InView(v)'].thread) \cup Range(views'[v].sent)
      <2>1. (PageInv /\ (v = "current" \/ Sheet) =>
                Range(Thread(v)) = Range(page[InView(v)].thread) \cup Range(views[v].sent))'
        BY ThreadsShown, PTL
      <2>. QED  BY <2>1 DEF BothInv
    <1>3. /\ Range(page[InView(v)].thread) \subseteq Range(page'[InView(v)].thread)
          /\ Range(views[v].sent) \subseteq Range(views'[v].sent)
      <2>1. CASE UNCHANGED pageVars
        BY <2>1 DEF pageVars
      <2>2. CASE PageNext
        <3>1. PageGrows
          BY <2>2, PageDesk, PageIsReadKept DEF BothInv, PageInv, PageTyped, AskSet
        <3>2. Range(views[v].sent) \subseteq Range(views'[v].sent)
          <4>0. views \in [Views -> ViewSet] /\ asks \subseteq AskSet
            BY DEF BothInv, PageInv, PageTyped, ViewSet
          <4>1. CASE views' = views
            BY <4>1
          <4>2. CASE RereadLands
            BY <4>0, <4>2 DEF RereadLands, TurnOver, ViewSet
          <4>3. ASSUME NEW into \in {"page", "detail"}, LeaveSheet(into)
                PROVE  Range(views[v].sent) \subseteq Range(views'[v].sent)
            <5>1. ~Sheet'
              BY <4>3 DEF LeaveSheet, Sheet
            <5>. QED  BY <4>0, <4>3, <5>1 DEF LeaveSheet, Views
          <4>4. ASSUME NEW w \in Views, NEW tab \in Tabs, SelectTab(w, tab)
                PROVE  views'[v].sent = views[v].sent
            BY <4>0, <4>4, ViewChanged DEF SelectTab
          <4>5. ASSUME NEW w \in Views, AskFirst(w) \/ TakeBack(w)
                PROVE  views'[v].sent = views[v].sent
            BY <4>0, <4>5, ViewChanged DEF AskFirst, TakeBack, Tabs
          <4>6. ASSUME NEW a \in asks, TurnLands(a)
                PROVE  views'[v].sent = views[v].sent
            <5>1. a.view \in Views
              BY <4>0 DEF AskSet
            <5>. QED  BY <4>0, <4>6, <5>1, ViewChanged DEF TurnLands, Tabs
          <4>7. ASSUME NEW a \in asks, CommentLands(a), views' # views
                PROVE  Range(views[v].sent) \subseteq Range(views'[v].sent)
            <5>1. /\ a \in AskSet /\ a.view \in Views /\ a.saved # 0
                  /\ views' = [views EXCEPT ![a.view].sent = Append(@, a.saved)]
              BY <4>0, <4>7 DEF CommentLands, AskSet
            <5>2. CASE v # a.view
              BY <4>0, <5>1, <5>2
            <5>3. CASE v = a.view
              <6>. DEFINE S == 1..MaxComments
              <6>1. /\ views[v].sent \in Seq(S) /\ a.saved \in S
                    /\ views'[v].sent = Append(views[v].sent, a.saved)
                BY <4>0, <5>1, <5>3, DeskAssumption DEF AskSet, ViewSet
              <6>. HIDE DEF S
              <6>. QED  BY <6>1, Appended
            <5>. QED  BY <5>2, <5>3
          <4>8. \/ views' = views \/ RereadLands
                \/ \E into \in {"page", "detail"} : LeaveSheet(into)
                \/ \E w \in Views : AskFirst(w) \/ TakeBack(w) \/ \E tab \in Tabs : SelectTab(w, tab)
                \/ \E a \in asks : TurnLands(a) \/ CommentLands(a)
            BY <2>2 DEF PageNext, Creator, OpenSheet, OpenDetail, CloseDetail, SendMove, SendComment,
               PageAnswers, TurnReaches, CommentReaches, AskFails, RereadReads, AdminThread, OpenThread,
               ThreadLoads, CloseThread, SendInThread, ThreadReaches, ThreadAnswers, PageElsewhere, pageVars
          <4>. QED  BY <4>1, <4>2, <4>3, <4>4, <4>5, <4>6, <4>7, <4>8
        <3>. QED  BY <1>1, <3>1, <3>2 DEF PageGrows, NoNewer
      <2>. QED  BY <2>1, <2>2 DEF ScreensNext, AdminSide, CreatorSide, screenVars
    <1>. QED  BY <1>1, <1>2, <1>3

(* A comment the creator saw in a thread stays in it, though the answer    *)
(* that replaces the page was read before the comment was written          *)
(* (creator-invoice-view.tsx: the comments sent are kept beside the page). *)
THEOREM CommentsStay == ScreensSpec => ShownStaysShown
    <1>1. BothInv /\ BothInv' /\ [ScreensNext]_screenVars =>
            [\A v \in Views :
                (v = "current" \/ (Sheet /\ Sheet')) /\ InView(v)' = InView(v)
                => Range(Thread(v)) \subseteq Range(Thread(v)')]_<<deskVars, pageVars>>
      BY ShownStays
    <1>. QED  BY <1>1, BothInvariant, PTL DEF ScreensSpec, ShownStaysShown
=============================================================================
