------------------------- MODULE InvoiceSettlement -------------------------
(***************************************************************************)
(* The invoices of the contracts, from the adjustments an admin records to *)
(* the receipt the creator confirms, under several HTTP requests at once.  *)
(*                                                                         *)
(* A request is cut at its awaits.  Statements outside a transaction are a *)
(* step each; a transaction takes a connection of the pool, and one that   *)
(* locks the contract row holds that lock from LockContract to its commit, *)
(* where its writes become visible.  A transaction that begins with a      *)
(* guarded UPDATE is one step, as in ContentReview.                        *)
(***************************************************************************)
EXTENDS InvoiceLifecycle, Naturals, FiniteSets

CONSTANTS
    Contracts,      \* ids of contracts; each has at most one invoice
    Requests,       \* slots for requests in flight
    Files,          \* keys in the file store
    NoContract, NoFile,
    PoolSize,       \* connections of the database pool
    Faults,         \* what may go wrong outside the program
    MaxAdjustments, \* bound: no more are begun beyond this many
    MaxComments,    \* bound: comments per invoice
    MaxSaves        \* bound: how often the rate formula is saved

ASSUME InvoiceSettlementAssumption ==
    /\ NoContract \notin Contracts
    /\ NoFile \notin Files
    /\ PoolSize \in Nat \ {0}
    /\ Faults \subseteq {"crash", "lost_put", "lost_commit", "failed_remove"}
    /\ MaxAdjustments \in Nat
    /\ MaxComments \in Nat
    /\ MaxSaves \in Nat

VARIABLES
    status,         \* invoices.status, "absent" when there is no row
    adjustments,    \* how many invoice_adjustments rows an invoice has
    snapshot,       \* invoices.snapshot
    comments,       \* how many invoice_comments rows an invoice has
    proof,          \* the object_key in invoice_payment_proofs
    stored,         \* the keys that hold a file in the store
    saved,          \* how often the formula was saved, 0 when there is none
    ended,          \* whether a contract's last day has passed
    requests        \* the requests in flight

invoiceVars == <<status, adjustments, snapshot, comments, proof>>
vars == <<invoiceVars, stored, saved, ended, requests>>

-----------------------------------------------------------------------------

\* The save each of the three tables was read at: rate_formula, the metrics,
\* the tiers.  All 0 stands for no formula.
Formulas == [amounts : Nat, metrics : Nat, tiers : Nat]

NoFormula == [amounts |-> 0, metrics |-> 0, tiers |-> 0]

\* The parts of a snapshot that another request could change under it.
Snapshots == [adjustments : Nat, formula : Formulas]

NoSnapshot == [adjustments |-> 0, formula |-> NoFormula]

Idle == [kind |-> "none", phase |-> "idle", contract |-> NoContract,
         late |-> FALSE, formula |-> NoFormula, adjustments |-> 0,
         file |-> NoFile]

Phases == {"arrived", "amounts", "metrics", "formula", "waiting", "locked",
           "read", "stored", "failed"}

RequestStates ==
    [kind : Moves, phase : Phases,
     contract : Contracts, late : BOOLEAN, formula : Formulas,
     adjustments : Nat, file : Files \cup {NoFile}]

InFlight(r, kind, phase) ==
    /\ requests[r].kind = kind
    /\ requests[r].phase = phase

GoTo(r, phase) == requests' = [requests EXCEPT ![r].phase = phase]

Finish(r) == requests' = [requests EXCEPT ![r] = Idle]

ProceedIf(r, condition, phase) ==
    IF condition THEN GoTo(r, phase) ELSE Finish(r)

\* A command between BEGIN and COMMIT holds a connection and, once locked, the
\* contract's row lock.
InTransaction(r) ==
    /\ requests[r].kind \in Commands
    /\ requests[r].phase \in {"waiting", "locked", "read"}

HoldsLock(r, c) ==
    /\ requests[r].kind \in Commands
    /\ requests[r].phase \in {"locked", "read"}
    /\ requests[r].contract = c

HasConnection == Cardinality({r \in Requests : InTransaction(r)}) < PoolSize

-----------------------------------------------------------------------------
(* A request comes, and may end early.                                     *)

\* A key made from what is uploaded: the same file has the same key.
IsNewKey_ByContent(f) == f \in Files

\* A random UUID: no file, row or request has it.
IsNewKey(f) ==
    /\ f \notin stored
    /\ \A c \in Contracts : proof[c] # f
    /\ \A r \in Requests : requests[r].file # f

\* Bound: an upload only comes while there is a key left for it, which a store
\* of random UUIDs always has.
KeyIsLeft ==
    Cardinality({q \in Requests : /\ requests[q].kind = "upload_proof"
                                  /\ requests[q].file = NoFile})
        < Cardinality({f \in Files : IsNewKey(f)})

\* late: the contract's last day had passed on the day the request started.
Arrive(r, kind, c) ==
    /\ requests[r] = Idle
    /\ kind = "add_adjustment" => adjustments[c] < MaxAdjustments
    /\ kind = "upload_proof" => KeyIsLeft
    /\ requests' = [requests EXCEPT ![r] =
                      [Idle EXCEPT !.kind = kind, !.phase = "arrived",
                                   !.contract = c, !.late = ended[c]]]
    /\ UNCHANGED <<invoiceVars, stored, saved, ended>>

\* A statement fails, or the request is cut: its transaction rolls back.
GiveUp(r) ==
    /\ requests[r].phase \notin {"idle", "stored", "failed"}
    /\ Finish(r)
    /\ UNCHANGED <<invoiceVars, stored, saved, ended>>

\* The instance stops while the request holds a file nobody has recorded.
Crash(r) ==
    /\ "crash" \in Faults
    /\ requests[r].phase \in {"stored", "failed"}
    /\ Finish(r)
    /\ UNCHANGED <<invoiceVars, stored, saved, ended>>

-----------------------------------------------------------------------------
(* The rate formula: one transaction saves it, three statements read it.   *)

SaveFormula ==
    /\ HasConnection
    /\ saved < MaxSaves
    /\ saved' = saved + 1
    /\ UNCHANGED <<invoiceVars, stored, ended, requests>>

ReadAmounts(r) ==
    /\ InFlight(r, "finalize", "arrived")
    /\ HasConnection
    /\ requests' = [requests EXCEPT ![r].formula.amounts = saved,
                      ![r].phase = IF saved = 0 THEN "formula" ELSE "amounts"]
    /\ UNCHANGED <<invoiceVars, stored, saved, ended>>

ReadMetrics(r) ==
    /\ InFlight(r, "finalize", "amounts")
    /\ HasConnection
    /\ requests' = [requests EXCEPT ![r].formula.metrics = saved,
                                    ![r].phase = "metrics"]
    /\ UNCHANGED <<invoiceVars, stored, saved, ended>>

ReadTiers(r) ==
    /\ InFlight(r, "finalize", "metrics")
    /\ HasConnection
    /\ requests' = [requests EXCEPT ![r].formula.tiers = saved,
                                    ![r].phase = "formula"]
    /\ UNCHANGED <<invoiceVars, stored, saved, ended>>

-----------------------------------------------------------------------------
(* The admin's commands, under the contract's row lock.                    *)

BeginCommand(r) ==
    /\ InFlight(r, "add_adjustment", "arrived") \/ InFlight(r, "finalize", "formula")
    /\ HasConnection
    /\ GoTo(r, "waiting")
    /\ UNCHANGED <<invoiceVars, stored, saved, ended>>

\* The SELECT has no FOR UPDATE.
LockContract_PlainSelect(r) ==
    /\ requests[r].kind \in Commands
    /\ requests[r].phase = "waiting"
    /\ GoTo(r, "locked")
    /\ UNCHANGED <<invoiceVars, stored, saved, ended>>

LockContract(r) ==
    /\ requests[r].kind \in Commands
    /\ requests[r].phase = "waiting"
    /\ ~\E q \in Requests : HoldsLock(q, requests[r].contract)
    /\ GoTo(r, "locked")
    /\ UNCHANGED <<invoiceVars, stored, saved, ended>>

CheckAdjust(r) ==
    /\ InFlight(r, "add_adjustment", "locked")
    /\ ProceedIf(r, AssertCan("add_adjustment", status[requests[r].contract]), "read")
    /\ UNCHANGED <<invoiceVars, stored, saved, ended>>

AddAdjustment(r) ==
    LET c == requests[r].contract IN
    /\ InFlight(r, "add_adjustment", "read")
    /\ status' = [status EXCEPT ![c] = StatusOf(@)]
    /\ adjustments' = [adjustments EXCEPT ![c] = @ + 1]
    /\ Finish(r)
    /\ UNCHANGED <<snapshot, comments, proof, stored, saved, ended>>

\* The adjustments are read through the pool, not through the transaction.
CheckFinalize_ReadsThroughPool(r) ==
    LET c == requests[r].contract IN
    /\ InFlight(r, "finalize", "locked")
    /\ HasConnection
    /\ \E settles \in BOOLEAN :
         IF requests[r].late /\ AssertCan("finalize", status[c]) /\ settles
         THEN requests' = [requests EXCEPT ![r].adjustments = adjustments[c],
                                           ![r].phase = "read"]
         ELSE Finish(r)
    /\ UNCHANGED <<invoiceVars, stored, saved, ended>>

\* settles: no component waits for data, or the admin accepts what is measured.
CheckFinalize(r) ==
    LET c == requests[r].contract IN
    /\ InFlight(r, "finalize", "locked")
    /\ \E settles \in BOOLEAN :
         IF requests[r].late /\ AssertCan("finalize", status[c]) /\ settles
         THEN requests' = [requests EXCEPT ![r].adjustments = adjustments[c],
                                           ![r].phase = "read"]
         ELSE Finish(r)
    /\ UNCHANGED <<invoiceVars, stored, saved, ended>>

Finalize(r) ==
    LET q == requests[r]
        c == q.contract
    IN
    /\ InFlight(r, "finalize", "read")
    /\ IF StatusOf(status[c]) = "running"
       THEN /\ status' = [status EXCEPT ![c] = "finalized"]
            /\ snapshot' = [snapshot EXCEPT ![c] =
                 [adjustments |-> q.adjustments, formula |-> q.formula]]
       ELSE UNCHANGED <<status, snapshot>>
    /\ Finish(r)
    /\ UNCHANGED <<adjustments, comments, proof, stored, saved, ended>>

-----------------------------------------------------------------------------
(* The creator's moves, and the thread both sides write in.                *)

ReadForMove(r) ==
    /\ requests[r].kind \in CreatorMoves
    /\ requests[r].phase = "arrived"
    /\ HasConnection
    /\ ProceedIf(r, AssertCan(requests[r].kind, status[requests[r].contract]), "read")
    /\ UNCHANGED <<invoiceVars, stored, saved, ended>>

\* The UPDATE names the contract and trusts the status that was read.
Move_TrustsRead(r) ==
    LET q == requests[r] IN
    /\ q.kind \in CreatorMoves
    /\ q.phase = "read"
    /\ HasConnection
    /\ status' = [status EXCEPT ![q.contract] = To[q.kind]]
    /\ Finish(r)
    /\ UNCHANGED <<adjustments, snapshot, comments, proof, stored, saved, ended>>

Move(r) ==
    LET q == requests[r] IN
    /\ q.kind \in CreatorMoves
    /\ q.phase = "read"
    /\ HasConnection
    /\ status' = [status EXCEPT ![q.contract] =
                    IF @ = From[q.kind] THEN To[q.kind] ELSE @]
    /\ Finish(r)
    /\ UNCHANGED <<adjustments, snapshot, comments, proof, stored, saved, ended>>

\* One transaction, without the contract's lock.
AddComment(c) ==
    /\ HasConnection
    /\ comments[c] < MaxComments
    /\ status' = [status EXCEPT ![c] = StatusOf(@)]
    /\ comments' = [comments EXCEPT ![c] = @ + 1]
    /\ UNCHANGED <<adjustments, snapshot, proof, stored, saved, ended, requests>>

-----------------------------------------------------------------------------
(* The payment proof: the file first, then the row.                        *)

ReadForUpload(r) ==
    /\ InFlight(r, "upload_proof", "arrived")
    /\ HasConnection
    /\ ProceedIf(r, AssertCan("upload_proof", status[requests[r].contract]), "read")
    /\ UNCHANGED <<invoiceVars, stored, saved, ended>>

PutFile(r) ==
    \E f \in Files :
        /\ InFlight(r, "upload_proof", "read")
        /\ IsNewKey(f)
        /\ stored' = stored \cup {f}
        /\ requests' = [requests EXCEPT ![r].file = f, ![r].phase = "stored"]
        /\ UNCHANGED <<invoiceVars, saved, ended>>

\* The store keeps the file and the caller is told it did not.
PutFileUnanswered(r) ==
    \E f \in Files :
        /\ "lost_put" \in Faults
        /\ InFlight(r, "upload_proof", "read")
        /\ IsNewKey(f)
        /\ stored' = stored \cup {f}
        /\ Finish(r)
        /\ UNCHANGED <<invoiceVars, saved, ended>>

\* The guarded UPDATE and the INSERT, which refuses a second proof.
Record(r) ==
    LET c == requests[r].contract IN
    /\ InFlight(r, "upload_proof", "stored")
    /\ HasConnection
    /\ status[c] = From["upload_proof"]
    /\ proof[c] = NoFile
    /\ status' = [status EXCEPT ![c] = To["upload_proof"]]
    /\ proof' = [proof EXCEPT ![c] = requests[r].file]
    /\ UNCHANGED <<adjustments, snapshot, comments, stored, saved, ended>>

RecordProof(r) == Record(r) /\ Finish(r)

\* The commit is made and its answer is lost: the caller sees an error.
RecordUnanswered(r) ==
    /\ "lost_commit" \in Faults
    /\ Record(r)
    /\ GoTo(r, "failed")

\* The invoice waits for no proof any more, or the transaction fails.
RecordFails(r) ==
    /\ InFlight(r, "upload_proof", "stored")
    /\ GoTo(r, "failed")
    /\ UNCHANGED <<invoiceVars, stored, saved, ended>>

\* The key is looked up by the invoice: the loser removes the winner's file.
RemoveUnrecorded_OfInvoice(r) ==
    /\ InFlight(r, "upload_proof", "failed")
    /\ stored' = stored \ {proof[requests[r].contract]}
    /\ Finish(r)
    /\ UNCHANGED <<invoiceVars, saved, ended>>

RemoveUnrecorded(r) ==
    /\ InFlight(r, "upload_proof", "failed")
    /\ stored' = stored \ {requests[r].file}
    /\ Finish(r)
    /\ UNCHANGED <<invoiceVars, saved, ended>>

\* Best effort: the failure is logged.
RemoveFails(r) ==
    /\ "failed_remove" \in Faults
    /\ InFlight(r, "upload_proof", "failed")
    /\ Finish(r)
    /\ UNCHANGED <<invoiceVars, stored, saved, ended>>

-----------------------------------------------------------------------------

\* A contract's last day passes; or its creator's access is revoked on a day that
\* has passed, and a request that came before reads so under the lock.
JudgeAsEnded(c) ==
    requests' = [r \in Requests |->
                   IF requests[r].contract = c THEN [requests[r] EXCEPT !.late = TRUE]
                                               ELSE requests[r]]

ContractEnds(c) ==
    /\ ended' = [ended EXCEPT ![c] = TRUE]
    /\ JudgeAsEnded(c) \/ UNCHANGED requests
    /\ UNCHANGED <<invoiceVars, stored, saved>>

Init ==
    /\ status = [c \in Contracts |-> "absent"]
    /\ adjustments = [c \in Contracts |-> 0]
    /\ snapshot = [c \in Contracts |-> NoSnapshot]
    /\ comments = [c \in Contracts |-> 0]
    /\ proof = [c \in Contracts |-> NoFile]
    /\ stored = {}
    /\ saved = 0
    /\ ended = [c \in Contracts |-> FALSE]
    /\ requests = [r \in Requests |-> Idle]

\* What the program does for a request, whatever comes of it.
Step(r) ==
    \/ ReadAmounts(r)
    \/ ReadMetrics(r)
    \/ ReadTiers(r)
    \/ BeginCommand(r)
    \/ LockContract(r)
    \/ CheckAdjust(r)
    \/ AddAdjustment(r)
    \/ CheckFinalize(r)
    \/ Finalize(r)
    \/ ReadForMove(r)
    \/ Move(r)
    \/ ReadForUpload(r)
    \/ PutFile(r)
    \/ RecordProof(r)
    \/ RecordFails(r)
    \/ RemoveUnrecorded(r)

\* What the world does to it.
Fault(r) ==
    \/ GiveUp(r)
    \/ Crash(r)
    \/ PutFileUnanswered(r)
    \/ RecordUnanswered(r)
    \/ RemoveFails(r)

Next ==
    \/ \E r \in Requests, kind \in Moves, c \in Contracts : Arrive(r, kind, c)
    \/ \E r \in Requests : Step(r)
    \/ \E r \in Requests : Fault(r)
    \/ \E c \in Contracts : AddComment(c)
    \/ \E c \in Contracts : ContractEnds(c)
    \/ SaveFormula

Spec == Init /\ [][Next]_vars

\* The pool and PostgreSQL both serve whoever waits in the order they came, so
\* a request that can go on again and again does go on.
Fairness == \A r \in Requests : SF_vars(Step(r))

FairSpec == Spec /\ Fairness
-----------------------------------------------------------------------------
(* Properties.                                                             *)

Frozen(c) == StatusOf(status[c]) # "running"

\* Every variable holds the rows, files and requests the code can store.
TypeOK ==
    /\ status \in [Contracts -> RowStatuses]
    /\ adjustments \in [Contracts -> Nat]
    /\ snapshot \in [Contracts -> Snapshots]
    /\ comments \in [Contracts -> Nat]
    /\ proof \in [Contracts -> Files \cup {NoFile}]
    /\ stored \subseteq Files
    /\ saved \in Nat
    /\ ended \in [Contracts -> BOOLEAN]
    /\ requests \in [Requests -> RequestStates \cup {Idle}]

\* A frozen invoice counts every adjustment that was ever accepted, though the
\* adjustments are read before the snapshot is written and another admin may
\* add one meanwhile: "the commands on one contract run one after the other"
\* (invoice-command.service.ts, the contract row's lock).
SnapshotKeepsEveryAdjustment ==
    \A c \in Contracts : Frozen(c) => snapshot[c].adjustments = adjustments[c]

\* The creator is asked to confirm a payment exactly when there is a proof of
\* it, and the file behind that proof is in the store whatever became of other
\* uploads for the same invoice (payment-proof.service.ts, upload).
PaymentIsProven ==
    \A c \in Contracts :
        /\ status[c] \in {"payment_uploaded", "paid"} <=> proof[c] # NoFile
        /\ proof[c] # NoFile => proof[c] \in stored

CarriesFile(r) == requests[r].phase \in {"stored", "failed"}

HasOwner(f) ==
    \/ \E c \in Contracts : proof[c] = f
    \/ \E r \in Requests : CarriesFile(r) /\ requests[r].file = f

IsStray(f) == f \in stored /\ ~HasOwner(f)

\* A file in the store is the proof of an invoice, or the request that stored
\* it is still there to record or to remove it: "anything that fails after the
\* upload removes the file again" (payment-proof.service.ts, upload).
EveryFileHasAnOwner == \A f \in stored : HasOwner(f)

\* Nothing the program does leaves a file behind, a refusal after the upload
\* and a commit whose answer was lost included: a file loses its last owner
\* only to an instance that stops, to a store that keeps what it said it had
\* not, or to a removal that fails (payment-proof.service.ts, upload and
\* removeUnrecorded).
OnlyFaultsLeaveFiles ==
    [][\A f \in Files :
         ~IsStray(f) /\ IsStray(f)'
            => \E r \in Requests :
                 Crash(r) \/ PutFileUnanswered(r) \/ RemoveFails(r)]_vars

\* Every request comes to an end of its own accord: none waits forever for the
\* contract's lock or for a connection of the pool, however small
\* (invoice-command.service.ts reads the formula before it opens the
\* transaction and everything else through it).
EveryRequestEnds ==
    \A r \in Requests : requests[r] # Idle ~> requests[r] = Idle

\* An invoice is frozen with a formula an admin saved: what the calculator
\* reads is "The saved formula, or an unconfigured one"
\* (rate-formula.service.ts, read).
FrozenFormulaWasSaved ==
    \A c \in Contracts :
        LET f == snapshot[c].formula IN
        f.amounts = f.metrics /\ f.metrics = f.tiers
-----------------------------------------------------------------------------
(* What the steps above rely on, for the proofs.                           *)

OneLockHolder ==
    \A q, r \in Requests, c \in Contracts :
        HoldsLock(q, c) /\ HoldsLock(r, c) => q = r

\* A command past its check still finds what the check found.
CommandsReadTheTruth ==
    \A r \in Requests :
        LET q == requests[r] IN
        q.kind \in Commands /\ q.phase = "read" =>
            /\ StatusOf(status[q.contract]) = "running"
            /\ q.kind = "finalize" =>
                 /\ q.adjustments = adjustments[q.contract]
                 /\ ended[q.contract]

LateRequestsAreLate ==
    \A r \in Requests : requests[r].late => ended[requests[r].contract]

\* An upload's file is its own: no other request has it, and no invoice.
FilesAreNotShared ==
    /\ \A r \in Requests :
         CarriesFile(r) => /\ requests[r].file \in stored
                           /\ \A c \in Contracts : proof[c] # requests[r].file
    /\ \A q, r \in Requests :
         CarriesFile(q) /\ CarriesFile(r) /\ requests[q].file = requests[r].file
            => q = r

SettlementInv ==
    /\ TypeOK
    /\ OneLockHolder
    /\ CommandsReadTheTruth
    /\ LateRequestsAreLate
    /\ SnapshotKeepsEveryAdjustment

ProofInv ==
    /\ SettlementInv
    /\ FilesAreNotShared
    /\ PaymentIsProven

-----------------------------------------------------------------------------
(* The steps of an invoice, as its row tells them.                         *)

StepOf ==
    [s \in RowStatuses |->
        CASE s = "finalized"        -> 1
          [] s = "creator_acked"    -> 2
          [] s = "payment_uploaded" -> 3
          [] s = "paid"             -> 4
          [] OTHER                  -> 0]

Steps == INSTANCE InvoiceSteps WITH
    step   <- [c \in Contracts |-> StepOf[status[c]]],
    amount <- [c \in Contracts |-> IF Frozen(c) THEN snapshot[c].adjustments
                                                ELSE adjustments[c]],
    over   <- ended

\* Whatever requests race, the rows take the steps an invoice promises: no
\* step is skipped, repeated or taken back, nothing is frozen before the
\* contract is over and no amount changes once it is frozen.
ImplementsSteps == Steps!Spec
=============================================================================
