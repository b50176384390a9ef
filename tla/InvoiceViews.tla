---------------------------- MODULE InvoiceViews ----------------------------
(***************************************************************************)
(* What an invoice looks like to the two people who settle it: the row of  *)
(* the admin's Rate & Invoicing table, the admin's detail and the page of  *)
(* the creator.  Each is put together from statements of its own, with no  *)
(* transaction around them, while the requests of InvoiceSettlement change *)
(* the rows underneath; what has been read stays on the screen until it is *)
(* read again.                                                             *)
(*                                                                         *)
(* Amounts are counted in adjustments, as in InvoiceSettlement; what the   *)
(* contents and the formula add to them is RunningInvoice's.               *)
(***************************************************************************)
EXTENDS InvoiceSettlement

VARIABLE view       \* the invoice on a screen, as far as it has been read

viewVars == <<vars, view>>

-----------------------------------------------------------------------------
(* The statements of a read, and those each of them waits for.             *)

Statements == {"status", "saved", "sum", "lines", "proof"}

Screens == {"list", "detail", "mine"}

After(earlier) == [s \in Statements |-> IF s \in DOMAIN earlier THEN earlier[s] ELSE {}]

\* The table's row ids come before its adjustments are asked for.
Waits_LinesFirst ==
    [list   |-> After([saved |-> {"status"}, lines |-> {"saved"},
                       sum   |-> {"saved", "lines"}, proof |-> {"status", "saved", "sum"}]),
     detail |-> After([saved |-> {"lines"}]),
     mine   |-> After([saved |-> {"lines"}, proof |-> {"status", "saved", "lines"}])]

Waits ==
    [list   |-> After([saved |-> {"status"}, sum |-> {"saved"},
                       lines |-> {"sum"},    proof |-> {"sum"}]),
     detail |-> After([lines |-> {"saved"}]),
     mine   |-> After([lines |-> {"saved"},
                       proof |-> {"status", "saved", "lines"}])]

Asked == [list   |-> Statements,
          detail |-> Statements \ {"sum"},
          mine   |-> Statements \ {"sum"}]

NoView == [screen |-> "none", contract |-> NoContract, answered |-> {},
           status |-> "absent", saved |-> "absent", frozen |-> 0,
           sum |-> 0, lines |-> 0, proof |-> NoFile]

Views ==
    [screen : Screens, contract : Contracts, answered : SUBSET Statements,
     status : RowStatuses, saved : RowStatuses, frozen : Nat,
     sum : Nat, lines : Nat, proof : Files \cup {NoFile}]

Reading(statement) ==
    /\ view.screen # "none"
    /\ statement \in Asked[view.screen] \ view.answered
    /\ Waits[view.screen][statement] \subseteq view.answered
    /\ HasConnection

Shown == view.screen # "none" /\ view.answered = Asked[view.screen]

-----------------------------------------------------------------------------
(* A read, statement by statement.                                         *)

\* A page is opened or read again.
OpenView(screen, c) ==
    /\ view = NoView \/ Shown
    /\ view' = [NoView EXCEPT !.screen = screen, !.contract = c]
    /\ UNCHANGED vars

ReadStatus ==
    /\ Reading("status")
    /\ view' = [view EXCEPT !.status = StatusOf(status[view.contract]),
                            !.answered = @ \cup {"status"}]
    /\ UNCHANGED vars

\* The invoice's row: its snapshot and the days of the creator's moves, which
\* the statement that makes a move writes with the status.
SavedFrozen == StatusOf(view.saved) # "running"

ReadSaved ==
    LET c == view.contract IN
    /\ Reading("saved")
    /\ view' = [view EXCEPT !.saved = status[c],
                            !.frozen = IF Frozen(c) THEN snapshot[c].adjustments ELSE 0,
                            !.answered = @ \cup {"saved"}]
    /\ UNCHANGED vars

\* Added up by the database, for a row that is there and not frozen.
ReadSum ==
    /\ Reading("sum")
    /\ view' = [view EXCEPT !.sum = IF view.saved # "absent" /\ ~SavedFrozen
                                    THEN adjustments[view.contract] ELSE 0,
                            !.answered = @ \cup {"sum"}]
    /\ UNCHANGED vars

\* The adjustments themselves, of a row that was there.
ReadLines ==
    /\ Reading("lines")
    /\ view' = [view EXCEPT !.lines = IF view.saved = "absent" THEN 0
                                      ELSE adjustments[view.contract],
                            !.answered = @ \cup {"lines"}]
    /\ UNCHANGED vars

ReadProof ==
    /\ Reading("proof")
    /\ view' = [view EXCEPT !.proof = proof[view.contract],
                            !.answered = @ \cup {"proof"}]
    /\ UNCHANGED vars

\* A statement fails: the page shows an error and nothing of what was read.
ReadFails ==
    /\ view # NoView
    /\ ~Shown
    /\ view' = NoView
    /\ UNCHANGED vars

-----------------------------------------------------------------------------
(* What a screen makes of the read.                                        *)

\* The snapshot's total, or the calculated one.
Total ==
    IF SavedFrozen THEN view.frozen
    ELSE IF view.screen = "list" THEN view.sum ELSE view.lines

Tracker == <<"accruing", "finalized", "creator_acked", "payment_uploaded", "paid">>

\* The steps that have a day: the snapshot dates the first, the row's own
\* columns the creator's moves, the proof its upload.
ReachedAt ==
    {step \in {"finalized", "creator_acked", "payment_uploaded", "paid"} :
        CASE step = "finalized"        -> SavedFrozen
          [] step = "creator_acked"    -> StepOf[view.saved] >= 2
          [] step = "payment_uploaded" -> view.proof # NoFile
          [] step = "paid"             -> StepOf[view.saved] = 4}

\* The steps the tracker paints green, after the one every invoice starts with.
DoneSteps == {Tracker[i] : i \in 2..(StepOf[view.status] + 1)}

\* The creator's turn.
CreatorNextStep ==
    CASE view.status = "finalized"        -> {"acknowledge"}
      [] view.status = "payment_uploaded" -> {"confirm_receipt"}
      [] OTHER                            -> {}

\* The admin's turn; finalizing waits for the contract's last day to pass.
AdminNextStep ==
    (IF view.status = "running" THEN {"add_adjustment"} ELSE {})
        \cup (IF view.status = "running" /\ ended[view.contract] THEN {"finalize"} ELSE {})
        \cup (IF view.status = "creator_acked" THEN {"upload_proof"} ELSE {})

Offers == IF view.screen = "mine" THEN CreatorNextStep ELSE AdminNextStep

-----------------------------------------------------------------------------

ViewInit == Init /\ view = NoView

ReadStatement ==
    \/ ReadStatus
    \/ ReadSaved
    \/ ReadSum
    \/ ReadLines
    \/ ReadProof

ViewNext ==
    \/ Next /\ UNCHANGED view
    \/ \E screen \in Screens, c \in Contracts : OpenView(screen, c)
    \/ ReadStatement
    \/ ReadFails

ViewSpec == ViewInit /\ [][ViewNext]_viewVars
-----------------------------------------------------------------------------
(* Properties.                                                             *)

\* In the admin's Rincian a green step has its day, and a total called final is
\* a frozen one: the row takes the status, the snapshot and the proof from
\* statements that other requests run between (invoices.service.ts, calculate
\* and list; creator-invoice.ts, invoiceSteps).
GreenStepsAreDated ==
    Shown /\ view.screen = "list" => DoneSteps \subseteq ReachedAt

\* The total and the lines under it tell one amount, whichever screen and
\* whatever is adjusted or frozen during the read: a frozen total is the one the
\* admin froze and its lines add up to it, and a running total counts no more
\* than the lines that are listed (invoices.service.ts, adjustmentTotals and
\* withAdjustments; my-invoices.service.ts, "The creator reads the same numbers
\* the admin froze").
LinesAddUp ==
    Shown =>
        /\ SavedFrozen => /\ Total = snapshot[view.contract].adjustments
                          /\ view.lines = Total
        /\ Total <= view.lines

\* A creator who is asked to confirm a payment, or reads that it was made, has
\* the proof beside the ask and the file opens (my-invoices.service.ts, list;
\* creator-invoice-view.tsx, NextStep).
ConfirmComesWithProof ==
    Shown /\ view.screen = "mine" /\ view.status \in {"payment_uploaded", "paid"}
        => view.proof \in stored

\* However long a page stays open, it is behind the invoice and never ahead of
\* it: what it shows as reached was reached for good, and a move it offers is one
\* the invoice still waits for or has made since, never one whose turn is still
\* to come (creator-invoice.ts, creatorNextStep; invoice-adjustment.ts,
\* canAdjust and canFinalize; invoice-payment.ts, canUploadProof).
ViewsAreNeverAhead ==
    view # NoView =>
        LET now == StepOf[status[view.contract]] IN
        /\ StepOf[view.status] <= now
        /\ StepOf[view.saved] <= now
        /\ view.proof # NoFile => proof[view.contract] = view.proof
        /\ Shown => \A move \in Offers : StepOf[From[move]] <= now

\* What a screen dates, adds up, asks for and offers is borne out by the rows,
\* although it was read statement by statement while they moved.
ViewsAreTrue ==
    /\ GreenStepsAreDated
    /\ LinesAddUp
    /\ ConfirmComesWithProof
    /\ ViewsAreNeverAhead
-----------------------------------------------------------------------------
(* What the reads rely on, for the proofs.                                 *)

ViewTypeOK == view \in Views \cup {NoView}

\* What is not answered is not there yet, and nothing is answered out of turn.
ReadInOrder ==
    LET done == view.answered IN
    /\ "status" \notin done => view.status = "absent"
    /\ "saved" \notin done => view.saved = "absent"
    /\ "sum" \notin done => view.sum = 0
    /\ "proof" \notin done => view.proof = NoFile
    /\ "lines" \in done => "saved" \in done
    /\ "sum" \in done => "saved" \in done /\ view.screen = "list"
    /\ view.screen = "list" =>
         /\ "saved" \in done => "status" \in done
         /\ "lines" \in done \/ "proof" \in done => "sum" \in done
    /\ view.screen = "mine" /\ "proof" \in done => "status" \in done

\* The rows have only gone on since.
ReadsAreBehind ==
    view # NoView =>
        LET now == StepOf[status[view.contract]] IN
        /\ StepOf[view.status] <= now
        /\ StepOf[view.saved] <= now
        /\ view.proof # NoFile => proof[view.contract] = view.proof

AmountsAreKept ==
    view # NoView =>
        LET adjusted == adjustments[view.contract] IN
        /\ view.sum <= adjusted
        /\ view.saved = "absent" => view.sum = 0
        /\ SavedFrozen =>
             /\ view.frozen = adjusted
             /\ "lines" \in view.answered => view.lines = adjusted
        /\ "lines" \in view.answered => view.sum <= view.lines

\* What was answered later tells of a later step.
StatusComesFirst ==
    /\ view.screen = "list" /\ "saved" \in view.answered
         => StepOf[view.status] <= StepOf[view.saved]
    /\ view.screen \in {"list", "mine"} /\ "proof" \in view.answered
         /\ StepOf[view.status] >= 3 => view.proof # NoFile

ViewInv ==
    /\ ProofInv
    /\ ViewTypeOK
    /\ ReadInOrder
    /\ ReadsAreBehind
    /\ AmountsAreKept
    /\ StatusComesFirst
=============================================================================
