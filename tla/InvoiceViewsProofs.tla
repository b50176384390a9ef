------------------------- MODULE InvoiceViewsProofs -------------------------
(***************************************************************************)
(* Proofs about InvoiceSettlement and about InvoiceViews, which reads what *)
(* it keeps, for any contracts, slots, keys, pool size and bounds.         *)
(*                                                                         *)
(* Settlement: a request holds the lock of what it is about to change, so  *)
(* what it read still holds when it writes (SettlementInv); a file is a    *)
(* proof or one request's own (ProofInv), and only a fault leaves it to    *)
(* nobody (ActKeepsOwners); every commit is one step of InvoiceSteps or    *)
(* none (NextRefines).                                                     *)
(*                                                                         *)
(* Views: by that refinement the rows only go on (RowsGoOn), so a          *)
(* statement answered earlier tells of an earlier step than one answered   *)
(* later, and what a screen shows of an invoice is never taken back.       *)
(***************************************************************************)
EXTENDS InvoiceViews, TLAPS

-----------------------------------------------------------------------------
(* Statuses.                                                               *)

LEMMA StatusFacts ==
    /\ \A m \in Moves : From[m] \in INVOICE_STATUSES /\ To[m] \in INVOICE_STATUSES
    /\ \A m \in CreatorMoves : From[m] # "running" /\ To[m] # "running"
    /\ From["acknowledge"] = "finalized" /\ To["acknowledge"] = "creator_acked"
    /\ From["confirm_receipt"] = "payment_uploaded" /\ To["confirm_receipt"] = "paid"
    /\ From["upload_proof"] = "creator_acked"
    /\ To["upload_proof"] = "payment_uploaded"
    /\ From["add_adjustment"] = "running" /\ From["finalize"] = "running"
    /\ CreatorMoves = {"acknowledge", "confirm_receipt"}
    /\ CreatorMoves \subseteq Moves /\ Commands \subseteq Moves
    BY DEF From, To, Moves, Commands, CreatorMoves, INVOICE_STATUSES

LEMMA RowFacts ==
    ASSUME NEW s \in RowStatuses
    PROVE  /\ StatusOf(s) \in RowStatuses
           /\ StatusOf(StatusOf(s)) = StatusOf(s)
           /\ StatusOf(s) = "running" <=> s \in {"absent", "running"}
    BY DEF StatusOf, RowStatuses, INVOICE_STATUSES

-----------------------------------------------------------------------------
(* Types.                                                                  *)

LEMMA InFlightType ==
    ASSUME TypeOK, NEW r \in Requests, requests[r].phase # "idle"
    PROVE  /\ requests[r] \in RequestStates
           /\ requests[r].contract \in Contracts
    BY DEF TypeOK, Idle, RequestStates

LEMMA FinishType ==
    ASSUME TypeOK, NEW r \in Requests, Finish(r)
    PROVE  requests' \in [Requests -> RequestStates \cup {Idle}]
    BY DEF TypeOK, Finish

LEMMA GoToType ==
    ASSUME TypeOK, NEW r \in Requests, requests[r].phase # "idle",
           NEW phase \in Phases, GoTo(r, phase)
    PROVE  requests' \in [Requests -> RequestStates \cup {Idle}]
    <1>1. requests[r] \in RequestStates
      BY InFlightType
    <1>2. [requests[r] EXCEPT !.phase = phase] \in RequestStates
      BY <1>1 DEF RequestStates
    <1>. QED  BY <1>2 DEF TypeOK, GoTo

LEMMA ProceedType ==
    ASSUME TypeOK, NEW r \in Requests, requests[r].phase # "idle",
           NEW phase \in Phases, NEW condition \in BOOLEAN,
           ProceedIf(r, condition, phase)
    PROVE  requests' \in [Requests -> RequestStates \cup {Idle}]
    BY FinishType, GoToType DEF ProceedIf

LEMMA InitType == Init => TypeOK
    BY DEF Init, TypeOK, RowStatuses, Snapshots, NoSnapshot, NoFormula, Formulas

LEMMA ArriveType ==
    ASSUME TypeOK, NEW r \in Requests, NEW kind \in Moves, NEW c \in Contracts,
           Arrive(r, kind, c)
    PROVE  TypeOK'
    <1>0. PICK late \in BOOLEAN : late = ended[c]
      BY DEF TypeOK
    <1>1. [Idle EXCEPT !.kind = kind, !.phase = "arrived", !.contract = c,
                       !.late = late] \in RequestStates
      BY DEF Idle, RequestStates, Phases, Formulas, NoFormula
    <1>2. requests' \in [Requests -> RequestStates \cup {Idle}]
      BY <1>0, <1>1 DEF Arrive, TypeOK
    <1>. QED  BY <1>2 DEF Arrive, TypeOK, invoiceVars

LEMMA StepType ==
    ASSUME TypeOK, NEW r \in Requests, Step(r)
    PROVE  TypeOK'
    <1>. DEFINE typed == requests' \in [Requests -> RequestStates \cup {Idle}]
    <1>1. CASE ReadAmounts(r)
      <2>1. requests[r] \in RequestStates /\ saved \in Nat
        BY <1>1, InFlightType DEF ReadAmounts, InFlight, TypeOK
      <2>2. [requests[r] EXCEPT !.formula.amounts = saved,
               !.phase = IF saved = 0 THEN "formula" ELSE "amounts"]
                 \in RequestStates
        BY <2>1 DEF RequestStates, Formulas, Phases
      <2>3. typed
        BY <1>1, <2>2 DEF ReadAmounts, TypeOK
      <2>. QED  BY <1>1, <2>3 DEF ReadAmounts, TypeOK, invoiceVars
    <1>2. CASE ReadMetrics(r)
      <2>1. requests[r] \in RequestStates /\ saved \in Nat
        BY <1>2, InFlightType DEF ReadMetrics, InFlight, TypeOK
      <2>2. [requests[r] EXCEPT !.formula.metrics = saved, !.phase = "metrics"]
                 \in RequestStates
        BY <2>1 DEF RequestStates, Formulas, Phases
      <2>3. typed
        BY <1>2, <2>2 DEF ReadMetrics, TypeOK
      <2>. QED  BY <1>2, <2>3 DEF ReadMetrics, TypeOK, invoiceVars
    <1>3. CASE ReadTiers(r)
      <2>1. requests[r] \in RequestStates /\ saved \in Nat
        BY <1>3, InFlightType DEF ReadTiers, InFlight, TypeOK
      <2>2. [requests[r] EXCEPT !.formula.tiers = saved, !.phase = "formula"]
                 \in RequestStates
        BY <2>1 DEF RequestStates, Formulas, Phases
      <2>3. typed
        BY <1>3, <2>2 DEF ReadTiers, TypeOK
      <2>. QED  BY <1>3, <2>3 DEF ReadTiers, TypeOK, invoiceVars
    <1>4. CASE BeginCommand(r)
      <2>1. typed
        BY <1>4, GoToType DEF BeginCommand, InFlight, Phases
      <2>. QED  BY <1>4, <2>1 DEF BeginCommand, TypeOK, invoiceVars
    <1>5. CASE LockContract(r)
      <2>1. typed
        BY <1>5, GoToType DEF LockContract, Phases
      <2>. QED  BY <1>5, <2>1 DEF LockContract, TypeOK, invoiceVars
    <1>6. CASE CheckAdjust(r)
      <2>1. typed
        BY <1>6, ProceedType DEF CheckAdjust, InFlight, Phases, AssertCan
      <2>. QED  BY <1>6, <2>1 DEF CheckAdjust, TypeOK, invoiceVars
    <1>7. CASE AddAdjustment(r)
      <2>1. requests[r].contract \in Contracts
        BY <1>7, InFlightType DEF AddAdjustment, InFlight
      <2>2. typed
        BY <1>7, FinishType DEF AddAdjustment
      <2>3. /\ status' \in [Contracts -> RowStatuses]
            /\ adjustments' \in [Contracts -> Nat]
        BY <1>7, <2>1, RowFacts DEF AddAdjustment, TypeOK
      <2>. QED  BY <1>7, <2>2, <2>3 DEF AddAdjustment, TypeOK
    <1>8. CASE CheckFinalize(r)
      <2>1. requests[r] \in RequestStates /\ requests[r].contract \in Contracts
        BY <1>8, InFlightType DEF CheckFinalize, InFlight
      <2>2. [requests[r] EXCEPT !.adjustments = adjustments[requests[r].contract],
                                !.phase = "read"] \in RequestStates
        BY <2>1 DEF RequestStates, Phases, TypeOK
      <2>3. typed
        BY <1>8, <2>2, FinishType DEF CheckFinalize, TypeOK
      <2>. QED  BY <1>8, <2>3 DEF CheckFinalize, TypeOK, invoiceVars
    <1>9. CASE Finalize(r)
      <2>1. requests[r] \in RequestStates /\ requests[r].contract \in Contracts
        BY <1>9, InFlightType DEF Finalize, InFlight
      <2>2. typed
        BY <1>9, FinishType DEF Finalize
      <2>3. [adjustments |-> requests[r].adjustments,
             formula |-> requests[r].formula] \in Snapshots
        BY <2>1 DEF RequestStates, Snapshots
      <2>4. /\ status' \in [Contracts -> RowStatuses]
            /\ snapshot' \in [Contracts -> Snapshots]
        BY <1>9, <2>1, <2>3 DEF Finalize, TypeOK, RowStatuses, INVOICE_STATUSES
      <2>. QED  BY <1>9, <2>2, <2>4 DEF Finalize, TypeOK
    <1>10. CASE ReadForMove(r)
      <2>1. typed
        BY <1>10, ProceedType DEF ReadForMove, Phases, AssertCan
      <2>. QED  BY <1>10, <2>1 DEF ReadForMove, TypeOK, invoiceVars
    <1>11. CASE Move(r)
      <2>1. /\ requests[r].contract \in Contracts
            /\ To[requests[r].kind] \in RowStatuses
        BY <1>11, InFlightType, StatusFacts DEF Move, RowStatuses
      <2>2. typed
        BY <1>11, FinishType DEF Move
      <2>3. status' \in [Contracts -> RowStatuses]
        BY <1>11, <2>1 DEF Move, TypeOK
      <2>. QED  BY <1>11, <2>2, <2>3 DEF Move, TypeOK
    <1>12. CASE ReadForUpload(r)
      <2>1. typed
        BY <1>12, ProceedType DEF ReadForUpload, InFlight, Phases, AssertCan
      <2>. QED  BY <1>12, <2>1 DEF ReadForUpload, TypeOK, invoiceVars
    <1>13. CASE PutFile(r)
      <2>1. PICK f \in Files :
              /\ stored' = stored \cup {f}
              /\ requests' = [requests EXCEPT ![r].file = f, ![r].phase = "stored"]
        BY <1>13 DEF PutFile
      <2>2. requests[r] \in RequestStates
        BY <1>13, InFlightType DEF PutFile, InFlight
      <2>3. [requests[r] EXCEPT !.file = f, !.phase = "stored"] \in RequestStates
        BY <2>2 DEF RequestStates, Phases
      <2>4. typed
        BY <2>1, <2>3 DEF TypeOK
      <2>. QED  BY <1>13, <2>1, <2>4 DEF PutFile, TypeOK, invoiceVars
    <1>14. CASE RecordProof(r)
      <2>1. requests[r] \in RequestStates /\ requests[r].contract \in Contracts
        BY <1>14, InFlightType DEF RecordProof, Record, InFlight
      <2>2. typed
        BY <1>14, FinishType DEF RecordProof
      <2>3. /\ status' \in [Contracts -> RowStatuses]
            /\ proof' \in [Contracts -> Files \cup {NoFile}]
        BY <1>14, <2>1, StatusFacts
           DEF RecordProof, Record, TypeOK, RequestStates, RowStatuses, INVOICE_STATUSES
      <2>. QED  BY <1>14, <2>2, <2>3 DEF RecordProof, Record, TypeOK
    <1>15. CASE RecordFails(r)
      <2>1. typed
        BY <1>15, GoToType DEF RecordFails, InFlight, Phases
      <2>. QED  BY <1>15, <2>1 DEF RecordFails, TypeOK, invoiceVars
    <1>16. CASE RemoveUnrecorded(r)
      <2>1. typed
        BY <1>16, FinishType DEF RemoveUnrecorded
      <2>. QED  BY <1>16, <2>1 DEF RemoveUnrecorded, TypeOK, invoiceVars
    <1>. QED
      BY <1>1, <1>2, <1>3, <1>4, <1>5, <1>6, <1>7, <1>8, <1>9, <1>10, <1>11,
         <1>12, <1>13, <1>14, <1>15, <1>16 DEF Step

LEMMA FaultType ==
    ASSUME TypeOK, NEW r \in Requests, Fault(r)
    PROVE  TypeOK'
    <1>1. CASE GiveUp(r)
      BY <1>1, FinishType DEF GiveUp, TypeOK, invoiceVars
    <1>2. CASE Crash(r)
      BY <1>2, FinishType DEF Crash, TypeOK, invoiceVars
    <1>3. CASE PutFileUnanswered(r)
      BY <1>3, FinishType DEF PutFileUnanswered, TypeOK, invoiceVars
    <1>4. CASE RecordUnanswered(r)
      <2>1. requests[r] \in RequestStates /\ requests[r].contract \in Contracts
        BY <1>4, InFlightType DEF RecordUnanswered, Record, InFlight
      <2>2. requests' \in [Requests -> RequestStates \cup {Idle}]
        BY <1>4, GoToType DEF RecordUnanswered, Record, InFlight, Phases
      <2>3. /\ status' \in [Contracts -> RowStatuses]
            /\ proof' \in [Contracts -> Files \cup {NoFile}]
        BY <1>4, <2>1, StatusFacts
           DEF RecordUnanswered, Record, TypeOK, RequestStates, RowStatuses,
               INVOICE_STATUSES
      <2>. QED  BY <1>4, <2>2, <2>3 DEF RecordUnanswered, Record, TypeOK
    <1>5. CASE RemoveFails(r)
      BY <1>5, FinishType DEF RemoveFails, TypeOK, invoiceVars
    <1>. QED  BY <1>1, <1>2, <1>3, <1>4, <1>5 DEF Fault

\* A contract that ends changes nothing of a request but how late it is.
LEMMA EndingSlots ==
    ASSUME TypeOK, NEW c \in Contracts, ContractEnds(c)
    PROVE  /\ requests' \in [Requests -> RequestStates \cup {Idle}]
           /\ \A q \in Requests :
                /\ requests'[q].kind = requests[q].kind
                /\ requests'[q].phase = requests[q].phase
                /\ requests'[q].contract = requests[q].contract
                /\ requests'[q].adjustments = requests[q].adjustments
                /\ requests'[q].file = requests[q].file
                /\ requests'[q].late => requests[q].late \/ requests[q].contract = c
    <1>1. CASE UNCHANGED requests
      BY <1>1 DEF TypeOK
    <1>2. CASE JudgeAsEnded(c)
      <2>1. ASSUME NEW q \in Requests
            PROVE  /\ requests'[q] \in RequestStates \cup {Idle}
                   /\ requests'[q].kind = requests[q].kind
                   /\ requests'[q].phase = requests[q].phase
                   /\ requests'[q].contract = requests[q].contract
                   /\ requests'[q].adjustments = requests[q].adjustments
                   /\ requests'[q].file = requests[q].file
                   /\ requests'[q].late => requests[q].late \/ requests[q].contract = c
        <3>1. CASE requests[q].contract # c
          BY <1>2, <3>1 DEF JudgeAsEnded, TypeOK
        <3>2. CASE requests[q].contract = c
          <4>1. requests[q] \in RequestStates
            BY <3>2, InvoiceSettlementAssumption DEF TypeOK, Idle
          <4>2. requests'[q] = [requests[q] EXCEPT !.late = TRUE]
            BY <1>2, <3>2 DEF JudgeAsEnded
          <4>. QED  BY <3>2, <4>1, <4>2 DEF RequestStates
        <3>. QED  BY <3>1, <3>2
      <2>2. requests' = [q \in Requests |-> requests'[q]]
        BY <1>2 DEF JudgeAsEnded
      <2>. QED  BY <2>1, <2>2
    <1>. QED  BY <1>1, <1>2 DEF ContractEnds

LEMMA NextType == TypeOK /\ [Next]_vars => TypeOK'
    <1>. SUFFICES ASSUME TypeOK, [Next]_vars
                  PROVE  TypeOK'
      OBVIOUS
    <1>1. CASE \E r \in Requests, kind \in Moves, c \in Contracts : Arrive(r, kind, c)
      BY <1>1, ArriveType
    <1>2. CASE \E r \in Requests : Step(r)
      BY <1>2, StepType
    <1>3. CASE \E r \in Requests : Fault(r)
      BY <1>3, FaultType
    <1>4. CASE \E c \in Contracts : AddComment(c)
      BY <1>4, RowFacts DEF AddComment, TypeOK
    <1>5. CASE \E c \in Contracts : ContractEnds(c)
      BY <1>5, EndingSlots DEF ContractEnds, TypeOK, invoiceVars
    <1>6. CASE SaveFormula
      BY <1>6 DEF SaveFormula, TypeOK, invoiceVars
    <1>7. CASE UNCHANGED vars
      BY <1>7 DEF vars, invoiceVars, TypeOK
    <1>. QED  BY <1>1, <1>2, <1>3, <1>4, <1>5, <1>6, <1>7 DEF Next

\* The rows, files and requests are what the code can store.
THEOREM TypeCorrect == Spec => []TypeOK
    BY InitType, NextType, PTL DEF Spec

-----------------------------------------------------------------------------
(* What a step does to the slots and to the rows.                          *)

Acts(r) == Step(r) \/ Fault(r)

\* The slot holds, or has just taken, the lock of its contract.
Locks(q) == q.kind \in Commands /\ q.phase \in {"locked", "read"}

LEMMA SlotChange ==
    ASSUME TypeOK, NEW r \in Requests, NEW q, requests' = [requests EXCEPT ![r] = q]
    PROVE  /\ requests'[r] = q
           /\ \A x \in Requests \ {r} : requests'[x] = requests[x]
    BY DEF TypeOK

LEMMA ActSlot ==
    ASSUME TypeOK, NEW r \in Requests, Acts(r)
    PROVE  /\ \A x \in Requests \ {r} : requests'[x] = requests[x]
           /\ \/ requests'[r] = Idle
              \/ /\ requests'[r].kind = requests[r].kind
                 /\ requests'[r].contract = requests[r].contract
                 /\ requests'[r].late = requests[r].late
           /\ Locks(requests'[r]) => LockContract(r) \/ Locks(requests[r])
           /\ Locks(requests'[r]) /\ requests'[r].phase = "read"
                => CheckAdjust(r) \/ CheckFinalize(r)
    <1>0. ~Locks(Idle) /\ Idle.late = FALSE
      BY DEF Locks, Idle, Commands
    <1>1. requests[r] \in RequestStates \cup {Idle}
      BY DEF TypeOK
    <1>2. CASE Finish(r)
      BY <1>0, <1>2, SlotChange DEF Finish
    <1>3. CASE \E phase \in {"waiting", "failed"} : GoTo(r, phase)
      BY <1>1, <1>3 DEF GoTo, Locks, TypeOK, RequestStates, Idle
    <1>4. CASE ReadAmounts(r) \/ ReadMetrics(r) \/ ReadTiers(r)
      BY <1>1, <1>4 DEF ReadAmounts, ReadMetrics, ReadTiers, InFlight, Locks,
                        TypeOK, RequestStates, Idle
    <1>5. CASE LockContract(r)
      BY <1>1, <1>5 DEF LockContract, GoTo, Locks, TypeOK, RequestStates, Idle
    <1>6. CASE CheckAdjust(r)
      BY <1>1, <1>2, <1>6 DEF CheckAdjust, ProceedIf, GoTo, InFlight, Locks,
                              TypeOK, RequestStates, Idle, Commands
    <1>7. CASE CheckFinalize(r)
      BY <1>1, <1>2, <1>7 DEF CheckFinalize, InFlight, Locks,
                              TypeOK, RequestStates, Idle, Commands
    <1>8. CASE ReadForMove(r) \/ ReadForUpload(r)
      <2>1. requests[r].kind \notin Commands
        BY <1>8 DEF ReadForMove, ReadForUpload, InFlight, Commands, CreatorMoves
      <2>2. CASE Finish(r)
        BY <1>2, <2>2
      <2>3. CASE GoTo(r, "read")
        BY <1>1, <2>1, <2>3 DEF GoTo, Locks, TypeOK, RequestStates, Idle
      <2>. QED  BY <1>8, <2>2, <2>3 DEF ReadForMove, ReadForUpload, ProceedIf
    <1>9. CASE PutFile(r)
      BY <1>1, <1>9 DEF PutFile, Locks, TypeOK, RequestStates, Idle
    <1>. QED
      BY <1>2, <1>3, <1>4, <1>5, <1>6, <1>7, <1>8, <1>9
         DEF Acts, Step, Fault, BeginCommand, AddAdjustment, Finalize, Move,
             RecordProof, RecordFails, RemoveUnrecorded, GiveUp, Crash,
             PutFileUnanswered, RecordUnanswered, RemoveFails

LEMMA ActRows ==
    ASSUME NEW r \in Requests, Acts(r)
    PROVE  /\ ended' = ended
           /\ \/ UNCHANGED <<status, adjustments, snapshot>>
              \/ AddAdjustment(r)
              \/ Finalize(r)
              \/ Move(r)
              \/ Record(r)
    BY DEF Acts, Step, Fault, invoiceVars, ReadAmounts, ReadMetrics, ReadTiers,
           BeginCommand, LockContract, CheckAdjust, AddAdjustment, CheckFinalize,
           Finalize, ReadForMove, Move, ReadForUpload, PutFile, RecordProof, Record,
           RecordFails, RemoveUnrecorded, GiveUp, Crash, PutFileUnanswered,
           RecordUnanswered, RemoveFails

LEMMA ArriveSlot ==
    ASSUME TypeOK, NEW r \in Requests, NEW kind \in Moves, NEW c \in Contracts,
           Arrive(r, kind, c)
    PROVE  /\ \A x \in Requests \ {r} : requests'[x] = requests[x]
           /\ ~Locks(requests'[r])
           /\ requests'[r].contract = c
           /\ requests'[r].late = ended[c]
    BY DEF Arrive, Idle, Locks, TypeOK

-----------------------------------------------------------------------------
(* The contract's row lock.                                                *)

LEMMA LockIsHeld ==
    ASSUME NEW r, NEW c
    PROVE  HoldsLock(r, c) <=> Locks(requests[r]) /\ requests[r].contract = c
    BY DEF HoldsLock, Locks

LEMMA LocksKept ==
    ASSUME OneLockHolder, NEW r \in Requests,
           \A x \in Requests \ {r} : requests'[x] = requests[x],
           \A c \in Contracts : HoldsLock(r, c)' =>
              HoldsLock(r, c) \/ ~\E x \in Requests : HoldsLock(x, c)
    PROVE  OneLockHolder'
    BY DEF OneLockHolder, HoldsLock

LEMMA NextLocks ==
    ASSUME TypeOK, OneLockHolder, [Next]_vars
    PROVE  OneLockHolder'
    <1>1. ASSUME NEW r \in Requests, Acts(r)
          PROVE  OneLockHolder'
      <2>1. ASSUME NEW c \in Contracts, HoldsLock(r, c)'
            PROVE  HoldsLock(r, c) \/ ~\E x \in Requests : HoldsLock(x, c)
        <3>1. Locks(requests'[r]) /\ requests'[r].contract = c
          BY <2>1 DEF HoldsLock, Locks
        <3>2. requests[r].contract = c
          BY <1>1, <3>1, ActSlot DEF Idle, Locks, Commands
        <3>3. LockContract(r) \/ Locks(requests[r])
          BY <1>1, <3>1, ActSlot
        <3>. QED  BY <3>2, <3>3, LockIsHeld DEF LockContract
      <2>. QED  BY <1>1, <2>1, ActSlot, LocksKept
    <1>2. CASE \E r \in Requests, kind \in Moves, c \in Contracts : Arrive(r, kind, c)
      <2>1. PICK r \in Requests, kind \in Moves, c \in Contracts : Arrive(r, kind, c)
        BY <1>2
      <2>2. \A x \in Contracts : ~HoldsLock(r, x)'
        BY <2>1, ArriveSlot DEF HoldsLock, Locks
      <2>. QED  BY <2>1, <2>2, ArriveSlot, LocksKept
    <1>3. CASE UNCHANGED requests
      BY <1>3 DEF OneLockHolder, HoldsLock
    <1>4. CASE \E c \in Contracts : ContractEnds(c)
      BY <1>4, EndingSlots DEF OneLockHolder, HoldsLock
    <1>. QED
      BY <1>1, <1>2, <1>3, <1>4 DEF Next, Acts, AddComment, SaveFormula, vars

-----------------------------------------------------------------------------
(* A command acts on what it read.                                         *)

ReadsTheTruth(q) ==
    Locks(q) /\ q.phase = "read" =>
        /\ StatusOf(status[q.contract]) = "running"
        /\ q.kind = "finalize" =>
             /\ q.adjustments = adjustments[q.contract]
             /\ ended[q.contract]

LEMMA TruthIsRead ==
    CommandsReadTheTruth <=> \A r \in Requests : ReadsTheTruth(requests[r])
    BY DEF CommandsReadTheTruth, ReadsTheTruth, Locks

\* The rows of a contract no other request is changing.
LEMMA RowsKept ==
    ASSUME SettlementInv, NEW r \in Requests, Acts(r),
           NEW x \in Requests \ {r}, Locks(requests[x]), requests[x].phase = "read"
    PROVE  LET d == requests[x].contract IN
           /\ StatusOf(status'[d]) = StatusOf(status[d])
           /\ adjustments'[d] = adjustments[d]
    <1>. DEFINE c == requests[r].contract
                d == requests[x].contract
    <1>0. TypeOK /\ OneLockHolder /\ CommandsReadTheTruth
      BY DEF SettlementInv
    <1>1. d \in Contracts
      BY <1>0, InFlightType DEF Locks
    <1>2. StatusOf(status[d]) = "running" /\ status[d] \in {"absent", "running"}
      BY <1>0, <1>1, TruthIsRead, RowFacts DEF ReadsTheTruth, TypeOK
    <1>3. CASE AddAdjustment(r) \/ Finalize(r)
      <2>1. Locks(requests[r])
        BY <1>3 DEF AddAdjustment, Finalize, InFlight, Locks, Commands
      <2>2. c # d
        BY <1>0, <1>1, <2>1, LockIsHeld DEF OneLockHolder
      <2>. QED  BY <1>0, <1>1, <1>3, <2>2 DEF AddAdjustment, Finalize, TypeOK
    <1>4. CASE Move(r)
      <2>1. From[requests[r].kind] \notin {"absent", "running"}
        BY <1>4, StatusFacts DEF Move, INVOICE_STATUSES
      <2>. QED  BY <1>0, <1>1, <1>2, <1>4, <2>1 DEF Move, TypeOK
    <1>5. CASE Record(r)
      <2>1. c # d
        BY <1>2, <1>5, StatusFacts DEF Record
      <2>. QED  BY <1>0, <1>1, <1>5, <2>1 DEF Record, TypeOK
    <1>. QED  BY <1>3, <1>4, <1>5, ActRows

LEMMA ActTruth ==
    ASSUME SettlementInv, NEW r \in Requests, Acts(r)
    PROVE  CommandsReadTheTruth'
    <1>0. TypeOK /\ CommandsReadTheTruth /\ LateRequestsAreLate
      BY DEF SettlementInv
    <1>1. ASSUME NEW x \in Requests \ {r}
          PROVE  ReadsTheTruth(requests[x])'
      <2>1. requests'[x] = requests[x] /\ ended' = ended
        BY <1>0, ActSlot, ActRows
      <2>2. ReadsTheTruth(requests[x])
        BY <1>0, TruthIsRead
      <2>. QED  BY <2>1, <2>2, RowsKept DEF ReadsTheTruth
    <1>2. ReadsTheTruth(requests[r])'
      <2>1. CASE ~(Locks(requests'[r]) /\ requests'[r].phase = "read")
        BY <2>1 DEF ReadsTheTruth
      <2>2. CASE CheckAdjust(r) /\ requests'[r].phase = "read"
        <3>1. requests[r] \in RequestStates /\ requests[r].kind = "add_adjustment"
          BY <1>0, <2>2, InFlightType DEF CheckAdjust, InFlight
        <3>2. /\ requests'[r].contract = requests[r].contract
              /\ requests'[r].kind = requests[r].kind
              /\ StatusOf(status[requests[r].contract]) = "running"
          BY <1>0, <2>2, <3>1, StatusFacts
             DEF CheckAdjust, ProceedIf, GoTo, Finish, Idle, AssertCan, TypeOK,
                 RequestStates
        <3>. QED  BY <2>2, <3>1, <3>2 DEF ReadsTheTruth, CheckAdjust, invoiceVars
      <2>3. CASE CheckFinalize(r) /\ requests'[r].phase = "read"
        <3>1. requests[r] \in RequestStates
          BY <1>0, <2>3, InFlightType DEF CheckFinalize, InFlight
        <3>2. /\ requests'[r].contract = requests[r].contract
              /\ requests'[r].adjustments = adjustments[requests[r].contract]
              /\ requests[r].late
              /\ StatusOf(status[requests[r].contract]) = "running"
          BY <1>0, <2>3, <3>1, StatusFacts
             DEF CheckFinalize, Finish, Idle, AssertCan, TypeOK, RequestStates
        <3>3. ended[requests[r].contract]
          BY <1>0, <3>2 DEF LateRequestsAreLate
        <3>. QED  BY <2>3, <3>2, <3>3 DEF ReadsTheTruth, CheckFinalize, invoiceVars
      <2>. QED  BY <1>0, <2>1, <2>2, <2>3, ActSlot
    <1>. QED  BY <1>1, <1>2 DEF CommandsReadTheTruth, ReadsTheTruth, Locks

LEMMA ActLate ==
    ASSUME SettlementInv, NEW r \in Requests, Acts(r)
    PROVE  LateRequestsAreLate'
    <1>1. TypeOK /\ LateRequestsAreLate
      BY DEF SettlementInv
    <1>2. Idle.late = FALSE
      BY DEF Idle
    <1>. QED  BY <1>1, <1>2, ActSlot, ActRows DEF LateRequestsAreLate

-----------------------------------------------------------------------------
(* The amount.                                                             *)

LEMMA ActSnapshot ==
    ASSUME SettlementInv, NEW r \in Requests, Acts(r)
    PROVE  SnapshotKeepsEveryAdjustment'
    <1>c. PICK c : c = requests[r].contract
      OBVIOUS
    <1>0. /\ TypeOK /\ CommandsReadTheTruth /\ SnapshotKeepsEveryAdjustment
          /\ \A d \in Contracts : status[d] \in RowStatuses
      BY DEF SettlementInv, TypeOK
    <1>1. CASE UNCHANGED <<status, adjustments, snapshot>>
      BY <1>0, <1>1 DEF SnapshotKeepsEveryAdjustment, Frozen
    <1>2. CASE AddAdjustment(r)
      <2>1. c \in Contracts /\ StatusOf(status[c]) = "running"
        BY <1>0, <1>c, <1>2, InFlightType
           DEF AddAdjustment, InFlight, CommandsReadTheTruth, Commands
      <2>2. ~Frozen(c)'
        BY <1>0, <1>c, <1>2, <2>1, RowFacts DEF AddAdjustment, Frozen, TypeOK
      <2>. QED
        BY <1>0, <1>c, <1>2, <2>1, <2>2
           DEF AddAdjustment, SnapshotKeepsEveryAdjustment, Frozen, TypeOK
    <1>3. CASE Finalize(r)
      <2>1. c \in Contracts /\ requests[r].adjustments = adjustments[c]
        BY <1>0, <1>c, <1>3, InFlightType
           DEF Finalize, InFlight, CommandsReadTheTruth, Commands
      <2>. QED
        BY <1>0, <1>c, <1>3, <2>1
           DEF Finalize, SnapshotKeepsEveryAdjustment, Frozen, TypeOK
    <1>4. CASE Move(r)
      <2>1. ~(From[requests[r].kind] \in {"absent", "running"})
        BY <1>4, StatusFacts DEF Move, INVOICE_STATUSES
      <2>2. ASSUME NEW d \in Contracts, Frozen(d)'
            PROVE  Frozen(d)
        BY <1>0, <1>4, <2>1, <2>2, RowFacts DEF Move, Frozen, TypeOK
      <2>. QED  BY <1>0, <1>4, <2>2 DEF Move, SnapshotKeepsEveryAdjustment
    <1>5. CASE Record(r)
      <2>1. ASSUME NEW d \in Contracts, Frozen(d)'
            PROVE  Frozen(d)
        BY <1>0, <1>5, <2>1, StatusFacts, RowFacts DEF Record, Frozen, TypeOK
      <2>. QED  BY <1>0, <1>5, <2>1 DEF Record, SnapshotKeepsEveryAdjustment
    <1>. QED  BY <1>1, <1>2, <1>3, <1>4, <1>5, ActRows

LEMMA ActInv ==
    ASSUME SettlementInv, NEW r \in Requests, Acts(r)
    PROVE  SettlementInv'
    <1>1. [Next]_vars
      BY DEF Acts, Next
    <1>. QED
      BY <1>1, NextType, NextLocks, ActTruth, ActLate, ActSnapshot DEF SettlementInv

LEMMA NextInv == SettlementInv /\ [Next]_vars => SettlementInv'
    <1>. SUFFICES ASSUME SettlementInv, [Next]_vars
                  PROVE  SettlementInv'
      OBVIOUS
    <1>0. /\ TypeOK /\ CommandsReadTheTruth /\ LateRequestsAreLate
          /\ SnapshotKeepsEveryAdjustment
          /\ \A d \in Contracts : status[d] \in RowStatuses
          /\ TypeOK' /\ OneLockHolder'
      BY NextType, NextLocks DEF SettlementInv, TypeOK
    <1>1. CASE \E r \in Requests : Acts(r)
      BY <1>1, ActInv
    <1>2. CASE \E r \in Requests, kind \in Moves, c \in Contracts : Arrive(r, kind, c)
      <2>1. PICK r \in Requests, kind \in Moves, c \in Contracts : Arrive(r, kind, c)
        BY <1>2
      <2>2. UNCHANGED <<status, adjustments, snapshot, ended>>
        BY <2>1 DEF Arrive, invoiceVars
      <2>3. CommandsReadTheTruth'
        BY <1>0, <2>1, <2>2, ArriveSlot DEF CommandsReadTheTruth, Locks
      <2>4. LateRequestsAreLate'
        BY <1>0, <2>1, <2>2, ArriveSlot DEF LateRequestsAreLate
      <2>. QED
        BY <1>0, <2>2, <2>3, <2>4
           DEF SettlementInv, SnapshotKeepsEveryAdjustment, Frozen
    <1>3. CASE \E c \in Contracts : AddComment(c)
      <2>1. \A d \in Contracts : StatusOf(status'[d]) = StatusOf(status[d])
        BY <1>0, <1>3, RowFacts DEF AddComment, TypeOK
      <2>2. UNCHANGED <<adjustments, snapshot, ended, requests>>
        BY <1>3 DEF AddComment
      <2>3. CommandsReadTheTruth'
        <3>1. ASSUME NEW x \in Requests, Locks(requests[x])
              PROVE  requests[x].contract \in Contracts
          BY <1>0, <3>1, InFlightType DEF Locks
        <3>. QED
          BY <1>0, <2>1, <2>2, <3>1 DEF CommandsReadTheTruth, Locks
      <2>. QED
        BY <1>0, <2>1, <2>2, <2>3
           DEF SettlementInv, SnapshotKeepsEveryAdjustment, Frozen,
               LateRequestsAreLate
    <1>4. CASE \E c \in Contracts : ContractEnds(c)
      <2>1. \A d \in Contracts : ended[d] => ended'[d]
        BY <1>0, <1>4 DEF ContractEnds, TypeOK
      <2>2. UNCHANGED <<status, adjustments, snapshot>>
        BY <1>4 DEF ContractEnds, invoiceVars
      <2>3. \A x \in Requests :
              requests[x].phase # "idle" => requests[x].contract \in Contracts
        BY <1>0, InFlightType
      <2>4. \A x \in Requests :
              requests[x].late => requests[x].contract \in Contracts
        BY <1>0, <2>3 DEF Idle, TypeOK, RequestStates, Phases
      <2>5. CommandsReadTheTruth'
        <3>1. ASSUME NEW x \in Requests, requests'[x].kind \in Commands,
                     requests'[x].phase = "read"
              PROVE  /\ StatusOf(status'[requests'[x].contract]) = "running"
                     /\ requests'[x].kind = "finalize" =>
                          /\ requests'[x].adjustments = adjustments'[requests'[x].contract]
                          /\ ended'[requests'[x].contract]
          <4>1. requests[x].kind \in Commands /\ requests[x].phase = "read"
            BY <1>0, <1>4, <3>1, EndingSlots
          <4>2. requests[x].contract \in Contracts
            BY <2>3, <4>1
          <4>. QED
            BY <1>0, <1>4, <2>1, <2>2, <4>1, <4>2, EndingSlots DEF CommandsReadTheTruth
        <3>. QED  BY <3>1 DEF CommandsReadTheTruth
      <2>6. LateRequestsAreLate'
        <3>1. PICK c \in Contracts : ContractEnds(c)
          BY <1>4
        <3>2. ended'[c]
          BY <1>0, <3>1 DEF ContractEnds, TypeOK
        <3>3. ASSUME NEW x \in Requests, requests'[x].late
              PROVE  ended'[requests'[x].contract]
          BY <1>0, <2>1, <2>4, <3>1, <3>2, <3>3, EndingSlots DEF LateRequestsAreLate
        <3>. QED  BY <3>3 DEF LateRequestsAreLate
      <2>. QED
        BY <1>0, <2>2, <2>5, <2>6
           DEF SettlementInv, SnapshotKeepsEveryAdjustment, Frozen
    <1>5. CASE SaveFormula \/ UNCHANGED vars
      <2>1. UNCHANGED <<status, adjustments, snapshot, ended, requests>>
        BY <1>5 DEF SaveFormula, vars, invoiceVars
      <2>. QED
        BY <1>0, <2>1
           DEF SettlementInv, SnapshotKeepsEveryAdjustment, Frozen,
               CommandsReadTheTruth, LateRequestsAreLate
    <1>. QED  BY <1>1, <1>2, <1>3, <1>4, <1>5 DEF Next, Acts

LEMMA InitInv == Init => SettlementInv
    <1>. SUFFICES ASSUME Init
                  PROVE  SettlementInv
      OBVIOUS
    <1>1. \A r \in Requests : requests[r] = Idle
      BY DEF Init
    <1>2. \A c \in Contracts : ~Frozen(c)
      BY DEF Init, Frozen, StatusOf
    <1>. QED
      BY <1>1, <1>2, InitType
         DEF SettlementInv, OneLockHolder, HoldsLock, CommandsReadTheTruth,
             LateRequestsAreLate, SnapshotKeepsEveryAdjustment, Idle, Commands

\* The amount of an invoice and the locks that protect it hold together.
THEOREM SettlementInvariant == Spec => []SettlementInv
    BY InitInv, NextInv, PTL DEF Spec

\* A frozen invoice counts every adjustment that was accepted, whatever else
\* goes wrong.
THEOREM AmountCorrect == Spec => []SnapshotKeepsEveryAdjustment
    BY SettlementInvariant, PTL DEF SettlementInv

-----------------------------------------------------------------------------
(* The payment proof and its file, while no commit's answer is lost.       *)

LEMMA FinishCarriesNothing ==
    ASSUME TypeOK, NEW r \in Requests, Finish(r)
    PROVE  ~CarriesFile(r)'
    <1>1. requests'[r] = Idle
      BY DEF TypeOK, Finish
    <1>. QED  BY <1>1 DEF CarriesFile, Idle

LEMMA ActFiles ==
    ASSUME TypeOK, "lost_commit" \notin Faults, NEW r \in Requests, Acts(r)
    PROVE  \/ /\ UNCHANGED <<proof, stored>>
              /\ CarriesFile(r)' =>
                   CarriesFile(r) /\ requests'[r].file = requests[r].file
           \/ PutFile(r) \/ PutFileUnanswered(r)
           \/ RecordProof(r) \/ RemoveUnrecorded(r)
    <1>1. ASSUME Finish(r)
          PROVE  ~CarriesFile(r)'
      BY <1>1, FinishCarriesNothing
    <1>2. ASSUME GoTo(r, "waiting") \/ GoTo(r, "locked") \/ GoTo(r, "read")
          PROVE  ~CarriesFile(r)'
      BY <1>2 DEF GoTo, CarriesFile, TypeOK, RequestStates, Idle
    <1>3. CASE ReadAmounts(r) \/ ReadMetrics(r) \/ ReadTiers(r) \/ BeginCommand(r)
               \/ LockContract(r)
      <2>1. ASSUME ReadAmounts(r) \/ ReadMetrics(r) \/ ReadTiers(r)
            PROVE  ~CarriesFile(r)'
        BY <2>1 DEF ReadAmounts, ReadMetrics, ReadTiers, InFlight, CarriesFile,
                    TypeOK, RequestStates, Idle
      <2>. QED
        BY <1>2, <1>3, <2>1
           DEF ReadAmounts, ReadMetrics, ReadTiers, BeginCommand, LockContract,
               invoiceVars
    <1>4. CASE CheckAdjust(r) \/ AddAdjustment(r) \/ CheckFinalize(r) \/ Finalize(r)
      <2>1. ASSUME CheckFinalize(r)
            PROVE  ~CarriesFile(r)'
        BY <1>1, <2>1 DEF CheckFinalize, CarriesFile, TypeOK, RequestStates, Idle
      <2>. QED
        BY <1>1, <1>2, <1>4, <2>1
           DEF CheckAdjust, AddAdjustment, CheckFinalize, Finalize, ProceedIf,
               invoiceVars
    <1>5. CASE ReadForMove(r) \/ Move(r) \/ ReadForUpload(r)
      BY <1>1, <1>2, <1>5
         DEF ReadForMove, Move, ReadForUpload, ProceedIf, invoiceVars
    <1>6. CASE RecordFails(r)
      BY <1>6 DEF RecordFails, GoTo, InFlight, CarriesFile, invoiceVars, TypeOK,
                  RequestStates, Idle
    <1>7. CASE GiveUp(r) \/ Crash(r) \/ RemoveFails(r)
      BY <1>1, <1>7 DEF GiveUp, Crash, RemoveFails, invoiceVars
    <1>8. ~RecordUnanswered(r)
      BY DEF RecordUnanswered
    <1>. QED
      BY <1>3, <1>4, <1>5, <1>6, <1>7, <1>8 DEF Acts, Step, Fault

Proven(s) == s \in {"payment_uploaded", "paid"}

\* Only recording a proof makes an invoice wait for the receipt.
LEMMA ActProven ==
    ASSUME TypeOK, NEW r \in Requests, Acts(r), ~Record(r), NEW d \in Contracts
    PROVE  Proven(status'[d]) <=> Proven(status[d])
    <1>1. status[d] \in RowStatuses
      BY DEF TypeOK
    <1>2. CASE UNCHANGED status
      BY <1>2
    <1>3. CASE AddAdjustment(r) \/ Finalize(r)
      BY <1>1, <1>3 DEF AddAdjustment, Finalize, StatusOf, Proven, TypeOK
    <1>4. CASE Move(r)
      BY <1>1, <1>4, StatusFacts DEF Move, Proven, TypeOK
    <1>. QED  BY <1>2, <1>3, <1>4, ActRows

LEMMA ActProof ==
    ASSUME ProofInv, "lost_commit" \notin Faults, NEW r \in Requests, Acts(r)
    PROVE  FilesAreNotShared' /\ PaymentIsProven'
    <1>0. TypeOK /\ FilesAreNotShared /\ PaymentIsProven
      BY DEF ProofInv, SettlementInv
    <1>1. \A x \in Requests \ {r} : requests'[x] = requests[x]
      BY <1>0, ActSlot
    <1>2. CASE /\ UNCHANGED <<proof, stored>>
               /\ CarriesFile(r)' =>
                    CarriesFile(r) /\ requests'[r].file = requests[r].file
      <2>1. CASE Record(r)
        BY <1>0, <1>2, <2>1, InFlightType
           DEF Record, InFlight, TypeOK, RequestStates, FilesAreNotShared, CarriesFile
      <2>2. CASE ~Record(r)
        <3>1. PaymentIsProven'
          BY <1>0, <1>2, <2>2, ActProven DEF PaymentIsProven, Proven
        <3>2. FilesAreNotShared'
          BY <1>0, <1>1, <1>2 DEF FilesAreNotShared, CarriesFile
        <3>. QED  BY <3>1, <3>2
      <2>. QED  BY <2>1, <2>2
    <1>3. CASE PutFile(r) \/ PutFileUnanswered(r)
      <2>1. PICK f \in Files :
              /\ IsNewKey(f)
              /\ stored' = stored \cup {f}
              /\ Finish(r) \/ requests' = [requests EXCEPT ![r].file = f,
                                                           ![r].phase = "stored"]
              /\ UNCHANGED <<status, proof>>
        BY <1>3 DEF PutFile, PutFileUnanswered, invoiceVars
      <2>2. CarriesFile(r)' => requests'[r].file = f
        BY <1>0, <2>1 DEF Finish, CarriesFile, Idle, TypeOK, RequestStates
      <2>3. FilesAreNotShared'
        BY <1>0, <1>1, <2>1, <2>2 DEF FilesAreNotShared, CarriesFile, IsNewKey
      <2>4. PaymentIsProven'
        BY <1>0, <2>1 DEF PaymentIsProven
      <2>. QED  BY <2>3, <2>4
    <1>4. CASE RecordProof(r)
      <2>c. PICK c : c = requests[r].contract
        OBVIOUS
      <2>f. PICK f : f = requests[r].file
        OBVIOUS
      <2>1. /\ c \in Contracts /\ CarriesFile(r) /\ f \in stored
            /\ f # NoFile
        BY <1>0, <1>4, <2>c, <2>f, InFlightType, InvoiceSettlementAssumption
           DEF RecordProof, Record, InFlight, CarriesFile, FilesAreNotShared, TypeOK
      <2>2. /\ status' = [status EXCEPT ![c] = "payment_uploaded"]
            /\ proof' = [proof EXCEPT ![c] = f]
            /\ UNCHANGED stored
        BY <1>4, <2>c, <2>f, StatusFacts DEF RecordProof, Record
      <2>3. ~CarriesFile(r)'
        BY <1>0, <1>4, FinishCarriesNothing DEF RecordProof
      <2>4. PaymentIsProven'
        BY <1>0, <2>1, <2>2 DEF PaymentIsProven, TypeOK
      <2>5. FilesAreNotShared'
        BY <1>0, <1>1, <2>f, <2>1, <2>2, <2>3
           DEF FilesAreNotShared, CarriesFile, TypeOK
      <2>. QED  BY <2>4, <2>5
    <1>5. CASE RemoveUnrecorded(r)
      <2>1. /\ CarriesFile(r)
            /\ stored' = stored \ {requests[r].file}
            /\ UNCHANGED <<status, proof>>
        BY <1>5 DEF RemoveUnrecorded, InFlight, CarriesFile, invoiceVars
      <2>2. ~CarriesFile(r)'
        BY <1>0, <1>5, FinishCarriesNothing DEF RemoveUnrecorded
      <2>3. PaymentIsProven'
        BY <1>0, <2>1 DEF PaymentIsProven, FilesAreNotShared
      <2>4. FilesAreNotShared'
        BY <1>0, <1>1, <2>1, <2>2 DEF FilesAreNotShared, CarriesFile
      <2>. QED  BY <2>3, <2>4
    <1>. QED  BY <1>0, <1>2, <1>3, <1>4, <1>5, ActFiles

LEMMA NextProof ==
    ASSUME "lost_commit" \notin Faults
    PROVE  ProofInv /\ [Next]_vars => ProofInv'
    <1>. SUFFICES ASSUME ProofInv, [Next]_vars
                  PROVE  ProofInv'
      OBVIOUS
    <1>0. /\ TypeOK /\ FilesAreNotShared /\ PaymentIsProven
          /\ \A d \in Contracts : status[d] \in RowStatuses
          /\ SettlementInv'
      BY NextInv DEF ProofInv, SettlementInv, TypeOK
    <1>1. CASE \E r \in Requests : Acts(r)
      BY <1>0, <1>1, ActProof DEF ProofInv
    <1>2. CASE \E r \in Requests, kind \in Moves, c \in Contracts : Arrive(r, kind, c)
      <2>1. PICK r \in Requests, kind \in Moves, c \in Contracts : Arrive(r, kind, c)
        BY <1>2
      <2>2. ~CarriesFile(r)'
        BY <1>0, <2>1 DEF Arrive, Idle, CarriesFile, TypeOK
      <2>3. UNCHANGED <<status, proof, stored>>
        BY <2>1 DEF Arrive, invoiceVars
      <2>4. FilesAreNotShared'
        BY <1>0, <2>1, <2>2, <2>3, ArriveSlot DEF FilesAreNotShared, CarriesFile
      <2>. QED  BY <1>0, <2>3, <2>4 DEF ProofInv, PaymentIsProven
    <1>3. CASE \E c \in Contracts : AddComment(c)
      <2>1. UNCHANGED <<proof, stored, requests>>
        BY <1>3 DEF AddComment
      <2>2. \A d \in Contracts : Proven(status'[d]) <=> Proven(status[d])
        BY <1>0, <1>3 DEF AddComment, StatusOf, Proven, TypeOK
      <2>. QED
        BY <1>0, <2>1, <2>2
           DEF ProofInv, PaymentIsProven, Proven, FilesAreNotShared, CarriesFile
    <1>5. CASE \E c \in Contracts : ContractEnds(c)
      <2>1. UNCHANGED <<status, proof, stored>>
        BY <1>5 DEF ContractEnds, invoiceVars
      <2>2. FilesAreNotShared'
        BY <1>0, <1>5, <2>1, EndingSlots DEF ProofInv, FilesAreNotShared, CarriesFile
      <2>. QED
        BY <1>0, <2>1, <2>2 DEF ProofInv, PaymentIsProven
    <1>4. CASE SaveFormula \/ UNCHANGED vars
      <2>1. UNCHANGED <<status, proof, stored, requests>>
        BY <1>4 DEF SaveFormula, vars, invoiceVars
      <2>. QED
        BY <1>0, <2>1 DEF ProofInv, PaymentIsProven, FilesAreNotShared, CarriesFile
    <1>. QED  BY <1>1, <1>2, <1>3, <1>4, <1>5 DEF Next, Acts

LEMMA InitProof == Init => ProofInv
    <1>. SUFFICES ASSUME Init
                  PROVE  ProofInv
      OBVIOUS
    <1>1. \A r \in Requests : ~CarriesFile(r)
      BY DEF Init, CarriesFile, Idle
    <1>2. FilesAreNotShared
      BY <1>1 DEF FilesAreNotShared
    <1>3. PaymentIsProven
      BY DEF Init, PaymentIsProven
    <1>. QED  BY <1>2, <1>3, InitInv DEF ProofInv

\* Unless the answer of a commit is lost, the proof of a payment is there to be
\* opened exactly when the creator is asked to confirm it.
THEOREM PaymentCorrect ==
    ASSUME "lost_commit" \notin Faults
    PROVE  Spec => []PaymentIsProven
    <1>1. ProofInv => PaymentIsProven
      BY DEF ProofInv
    <1>2. ProofInv /\ [Next]_vars => ProofInv'
      BY NextProof
    <1>. QED  BY <1>1, <1>2, InitProof, PTL DEF Spec

-----------------------------------------------------------------------------
(* Files, and who leaves them behind.                                      *)

LosesFile(r) == Crash(r) \/ PutFileUnanswered(r) \/ RemoveFails(r)

LEMMA ActOwners ==
    ASSUME NEW r \in Requests, Acts(r), ~LosesFile(r)
    PROVE  \/ UNCHANGED <<proof, stored>> /\ ~CarriesFile(r)
           \/ PutFile(r) /\ ~CarriesFile(r)
           \/ RecordFails(r)
           \/ Record(r)
           \/ RemoveUnrecorded(r)
    BY DEF Acts, Step, Fault, LosesFile, invoiceVars, CarriesFile, InFlight,
           ReadAmounts, ReadMetrics, ReadTiers, BeginCommand, LockContract,
           CheckAdjust, AddAdjustment, CheckFinalize, Finalize, ReadForMove, Move,
           ReadForUpload, PutFile, RecordProof, RecordUnanswered, GiveUp

LEMMA ActKeepsOwners ==
    ASSUME TypeOK, NEW r \in Requests, Acts(r), ~LosesFile(r),
           NEW f \in Files, ~IsStray(f), f \in stored'
    PROVE  HasOwner(f)'
    <1>0. \A x \in Requests \ {r} : requests'[x] = requests[x]
      BY ActSlot
    <1>1. \A q \in Requests \ {r} : CarriesFile(q) =>
             CarriesFile(q)' /\ requests'[q].file = requests[q].file
      BY <1>0 DEF CarriesFile
    <1>2. CASE UNCHANGED <<proof, stored>> /\ ~CarriesFile(r)
      BY <1>1, <1>2 DEF IsStray, HasOwner
    <1>3. CASE PutFile(r) /\ ~CarriesFile(r)
      <2>1. PICK g \in Files :
              /\ stored' = stored \cup {g} /\ proof' = proof
              /\ requests' = [requests EXCEPT ![r].file = g, ![r].phase = "stored"]
        BY <1>3 DEF PutFile, invoiceVars
      <2>2. requests[r] \in RequestStates
        BY <1>3, InFlightType DEF PutFile, InFlight
      <2>3. CarriesFile(r)' /\ requests'[r].file = g
        BY <2>1, <2>2 DEF CarriesFile, RequestStates, TypeOK
      <2>. QED  BY <1>1, <1>3, <2>1, <2>3 DEF IsStray, HasOwner
    <1>4. CASE RecordFails(r)
      <2>1. requests[r] \in RequestStates
        BY <1>4, InFlightType DEF RecordFails, InFlight
      <2>2. CarriesFile(r)' /\ requests'[r].file = requests[r].file
        BY <1>4, <2>1 DEF RecordFails, GoTo, CarriesFile, RequestStates, TypeOK
      <2>3. UNCHANGED <<proof, stored>>
        BY <1>4 DEF RecordFails, invoiceVars
      <2>. QED  BY <1>1, <2>2, <2>3 DEF IsStray, HasOwner
    <1>5. CASE Record(r)
      <2>c. PICK c : c = requests[r].contract
        OBVIOUS
      <2>1. /\ c \in Contracts /\ stored' = stored /\ proof[c] = NoFile
            /\ proof' = [proof EXCEPT ![c] = requests[r].file]
        BY <1>5, <2>c, InFlightType DEF Record, InFlight
      <2>2. /\ proof'[c] = requests[r].file
            /\ \A d \in Contracts \ {c} : proof'[d] = proof[d]
        BY <2>1 DEF TypeOK
      <2>3. HasOwner(f)
        BY <2>1 DEF IsStray
      <2>4. CASE \E d \in Contracts : proof[d] = f
        BY <2>1, <2>2, <2>4, InvoiceSettlementAssumption DEF HasOwner
      <2>5. CASE \E q \in Requests : CarriesFile(q) /\ requests[q].file = f
        <3>1. PICK q \in Requests : CarriesFile(q) /\ requests[q].file = f
          BY <2>5
        <3>2. CASE q = r
          BY <2>1, <2>2, <3>1, <3>2 DEF HasOwner
        <3>3. CASE q # r
          BY <1>1, <3>1, <3>3 DEF HasOwner
        <3>. QED  BY <3>2, <3>3
      <2>. QED  BY <2>3, <2>4, <2>5 DEF HasOwner
    <1>6. CASE RemoveUnrecorded(r)
      <2>1. stored' = stored \ {requests[r].file} /\ proof' = proof
        BY <1>6 DEF RemoveUnrecorded, invoiceVars
      <2>. QED  BY <1>1, <2>1 DEF IsStray, HasOwner
    <1>. QED  BY <1>2, <1>3, <1>4, <1>5, <1>6, ActOwners

LEMMA NextKeepsOwners ==
    ASSUME TypeOK, [Next]_vars, \A r \in Requests : ~LosesFile(r),
           NEW f \in Files, ~IsStray(f), f \in stored'
    PROVE  HasOwner(f)'
    <1>1. CASE \E r \in Requests : Acts(r)
      BY <1>1, ActKeepsOwners
    <1>2. CASE \E r \in Requests, kind \in Moves, c \in Contracts : Arrive(r, kind, c)
      <2>1. PICK r \in Requests, kind \in Moves, c \in Contracts : Arrive(r, kind, c)
        BY <1>2
      <2>2. ~CarriesFile(r) /\ UNCHANGED <<proof, stored>>
        BY <2>1 DEF Arrive, Idle, CarriesFile, invoiceVars
      <2>3. \A q \in Requests : CarriesFile(q) =>
               CarriesFile(q)' /\ requests'[q].file = requests[q].file
        BY <2>1, <2>2, ArriveSlot DEF CarriesFile
      <2>. QED  BY <2>2, <2>3 DEF IsStray, HasOwner
    <1>3. CASE UNCHANGED <<proof, stored, requests>>
      BY <1>3 DEF IsStray, HasOwner, CarriesFile
    <1>4. CASE \E c \in Contracts : ContractEnds(c)
      <2>1. UNCHANGED <<proof, stored>>
        BY <1>4 DEF ContractEnds, invoiceVars
      <2>. QED  BY <1>4, <2>1, EndingSlots DEF IsStray, HasOwner, CarriesFile
    <1>. QED
      BY <1>1, <1>2, <1>3, <1>4
         DEF Next, Acts, AddComment, SaveFormula, vars, invoiceVars

\* Whatever the program does and whatever goes wrong with it, a file is left
\* without an owner by an instance that stops, a lost answer of the store or a
\* failed removal, and by nothing else.
THEOREM StraysComeFromFaults == Spec => OnlyFaultsLeaveFiles
    <1>. DEFINE blamed == \A f \in Files :
                 ~IsStray(f) /\ IsStray(f)'
                    => \E r \in Requests :
                         Crash(r) \/ PutFileUnanswered(r) \/ RemoveFails(r)
    <1>1. TypeOK /\ [Next]_vars => blamed
      BY NextKeepsOwners DEF LosesFile, IsStray
    <1>2. TypeOK /\ [Next]_vars => [blamed]_vars
      BY <1>1
    <1>. QED  BY <1>2, TypeCorrect, PTL DEF Spec, OnlyFaultsLeaveFiles

\* So the code itself leaves no file behind.
THEOREM FilesOwned ==
    ASSUME Faults = {}
    PROVE  Spec => []EveryFileHasAnOwner
    <1>1. Init => EveryFileHasAnOwner
      BY DEF Init, EveryFileHasAnOwner
    <1>2. ASSUME TypeOK, TypeOK', EveryFileHasAnOwner, [Next]_vars
          PROVE  EveryFileHasAnOwner'
      <2>1. \A r \in Requests : ~LosesFile(r)
        BY DEF LosesFile, Crash, PutFileUnanswered, RemoveFails
      <2>2. \A f \in Files : ~IsStray(f)
        BY <1>2 DEF IsStray, EveryFileHasAnOwner
      <2>3. stored' \subseteq Files
        BY <1>2 DEF TypeOK
      <2>. QED  BY <1>2, <2>1, <2>2, <2>3, NextKeepsOwners DEF EveryFileHasAnOwner
    <1>3. TypeOK /\ TypeOK' /\ EveryFileHasAnOwner /\ [Next]_vars
            => EveryFileHasAnOwner'
      BY <1>2
    <1>. QED  BY <1>1, <1>3, TypeCorrect, PTL DEF Spec

-----------------------------------------------------------------------------
(* The rows take the steps of InvoiceSteps.                                *)

stepNow   == [c \in Contracts |-> StepOf[status[c]]]
amountNow == [c \in Contracts |-> IF Frozen(c) THEN snapshot[c].adjustments
                                              ELSE adjustments[c]]

LEMMA StepFacts ==
    /\ StepOf["absent"] = 0 /\ StepOf["running"] = 0 /\ StepOf["finalized"] = 1
    /\ StepOf["creator_acked"] = 2 /\ StepOf["payment_uploaded"] = 3
    /\ StepOf["paid"] = 4
    BY DEF StepOf, RowStatuses, INVOICE_STATUSES

LEMMA StepsActions ==
    ASSUME NEW c \in Contracts,
           Steps!Grow(c) \/ Steps!Freeze(c) \/ Steps!TakeTurn(c) \/ Steps!End(c)
    PROVE  Steps!Next
    BY DEF Steps!Next

\* A frozen invoice moves on by one and keeps its amount.
LEMMA TurnIsTaken ==
    ASSUME TypeOK, NEW c \in Contracts, NEW s, NEW t,
           \/ s = "finalized" /\ t = "creator_acked"
           \/ s = "creator_acked" /\ t = "payment_uploaded"
           \/ s = "payment_uploaded" /\ t = "paid",
           status[c] = s, status' = [status EXCEPT ![c] = t],
           UNCHANGED <<adjustments, snapshot, ended>>
    PROVE  Steps!Next
    <1>0. StepOf[s] \in 1..3 /\ StepOf[t] = StepOf[s] + 1
      BY StepFacts
    <1>1. /\ stepNow[c] \in 1..3
          /\ stepNow' = [stepNow EXCEPT ![c] = stepNow[c] + 1]
      BY <1>0 DEF stepNow, TypeOK
    <1>2. \A d \in Contracts : Frozen(d)' <=> Frozen(d)
      BY DEF Frozen, StatusOf, TypeOK
    <1>3. amountNow' = amountNow
      BY <1>2 DEF amountNow
    <1>4. Steps!TakeTurn(c)
      BY <1>1, <1>3 DEF Steps!TakeTurn, Steps!LastStep, stepNow, amountNow
    <1>. QED  BY <1>4, StepsActions

LEMMA ActRefines ==
    ASSUME SettlementInv, NEW r \in Requests, Acts(r)
    PROVE  Steps!Next \/ UNCHANGED Steps!vars
    <1>c. PICK c : c = requests[r].contract
      OBVIOUS
    <1>0. TypeOK /\ CommandsReadTheTruth /\ ended' = ended
      BY ActRows DEF SettlementInv
    <1>1. ASSUME UNCHANGED <<status, adjustments, snapshot>>
          PROVE  UNCHANGED Steps!vars
      BY <1>0, <1>1 DEF Steps!vars, Frozen
    <1>2. CASE AddAdjustment(r)
      <2>1. c \in Contracts /\ status[c] \in {"absent", "running"}
        BY <1>0, <1>c, <1>2, InFlightType, RowFacts
           DEF AddAdjustment, InFlight, CommandsReadTheTruth, Commands, TypeOK
      <2>2. /\ status' = [status EXCEPT ![c] = "running"]
            /\ adjustments' = [adjustments EXCEPT ![c] = adjustments[c] + 1]
            /\ snapshot' = snapshot
        BY <1>0, <1>c, <1>2, <2>1 DEF AddAdjustment, StatusOf, TypeOK
      <2>3. stepNow[c] = 0 /\ stepNow' = stepNow
        BY <1>0, <2>1, <2>2, StepFacts DEF stepNow, TypeOK
      <2>4. ~Frozen(c) /\ ~Frozen(c)'
        BY <1>0, <2>1, <2>2 DEF Frozen, StatusOf, TypeOK
      <2>5. \A d \in Contracts : Frozen(d)' <=> Frozen(d)
        BY <1>0, <2>1, <2>2, <2>4 DEF Frozen, TypeOK
      <2>6. amountNow' = [amountNow EXCEPT ![c] = amountNow[c] + 1]
        BY <1>0, <2>1, <2>2, <2>4, <2>5 DEF amountNow, TypeOK
      <2>7. Steps!Grow(c)
        BY <1>0, <2>3, <2>6 DEF Steps!Grow, stepNow, amountNow
      <2>. QED  BY <2>1, <2>7, StepsActions
    <1>3. CASE Finalize(r)
      <2>1. /\ c \in Contracts /\ status[c] \in {"absent", "running"}
            /\ requests[r].adjustments = adjustments[c] /\ ended[c]
        BY <1>0, <1>c, <1>3, InFlightType, RowFacts
           DEF Finalize, InFlight, CommandsReadTheTruth, Commands, TypeOK
      <2>2. /\ status' = [status EXCEPT ![c] = "finalized"]
            /\ snapshot' = [snapshot EXCEPT ![c] =
                 [adjustments |-> adjustments[c], formula |-> requests[r].formula]]
            /\ adjustments' = adjustments
        BY <1>0, <1>c, <1>3, <2>1 DEF Finalize, StatusOf
      <2>3. stepNow[c] = 0 /\ stepNow' = [stepNow EXCEPT ![c] = 1]
        BY <1>0, <2>1, <2>2, StepFacts DEF stepNow, TypeOK
      <2>4. ~Frozen(c) /\ Frozen(c)'
        BY <1>0, <2>1, <2>2 DEF Frozen, StatusOf, TypeOK
      <2>5. \A d \in Contracts \ {c} : Frozen(d)' <=> Frozen(d)
        BY <1>0, <2>1, <2>2 DEF Frozen, TypeOK
      <2>6. amountNow' = amountNow
        BY <1>0, <2>1, <2>2, <2>4, <2>5 DEF amountNow, TypeOK
      <2>7. Steps!Freeze(c)
        BY <1>0, <2>1, <2>3, <2>6 DEF Steps!Freeze, stepNow, amountNow
      <2>. QED  BY <2>1, <2>7, StepsActions
    <1>4. CASE Move(r)
      <2>1. c \in Contracts /\ requests[r].kind \in CreatorMoves
        BY <1>0, <1>c, <1>4, InFlightType DEF Move
      <2>2. CASE status[c] # From[requests[r].kind]
        <3>1. status' = status
          BY <1>0, <1>c, <1>4, <2>1, <2>2 DEF Move, TypeOK
        <3>. QED  BY <1>1, <1>4, <3>1 DEF Move
      <2>3. CASE status[c] = From[requests[r].kind]
        <3>1. status' = [status EXCEPT ![c] = To[requests[r].kind]]
          BY <1>0, <1>c, <1>4, <2>3 DEF Move
        <3>3. PICK s, t : s = From[requests[r].kind] /\ t = To[requests[r].kind]
          OBVIOUS
        <3>2. /\ \/ s = "finalized" /\ t = "creator_acked"
                 \/ s = "payment_uploaded" /\ t = "paid"
              /\ UNCHANGED <<adjustments, snapshot, ended>>
          BY <1>0, <1>4, <2>1, <3>3, StatusFacts DEF Move
        <3>. QED  BY <1>0, <2>1, <2>3, <3>1, <3>2, <3>3, TurnIsTaken
      <2>. QED  BY <2>2, <2>3
    <1>5. CASE Record(r)
      <2>1. /\ c \in Contracts
            /\ status[c] = "creator_acked"
            /\ status' = [status EXCEPT ![c] = "payment_uploaded"]
            /\ UNCHANGED <<adjustments, snapshot, ended>>
        BY <1>0, <1>c, <1>5, InFlightType, StatusFacts DEF Record, InFlight
      <2>. QED  BY <1>0, <2>1, TurnIsTaken
    <1>. QED  BY <1>1, <1>2, <1>3, <1>4, <1>5, ActRows

LEMMA NextRefines == SettlementInv /\ [Next]_vars => [Steps!Next]_(Steps!vars)
    <1>. SUFFICES ASSUME SettlementInv, [Next]_vars
                  PROVE  Steps!Next \/ UNCHANGED Steps!vars
      OBVIOUS
    <1>0. TypeOK
      BY DEF SettlementInv
    <1>1. CASE \E r \in Requests : Acts(r)
      BY <1>1, ActRefines
    <1>2. CASE UNCHANGED <<status, adjustments, snapshot, ended>>
      BY <1>2 DEF Steps!vars, Frozen
    <1>3. CASE \E c \in Contracts : AddComment(c)
      <2>1. /\ \A d \in Contracts : StepOf[status'[d]] = StepOf[status[d]]
            /\ \A d \in Contracts : Frozen(d)' <=> Frozen(d)
        BY <1>0, <1>3, StepFacts DEF AddComment, StatusOf, Frozen, TypeOK
      <2>2. UNCHANGED <<adjustments, snapshot, ended>>
        BY <1>3 DEF AddComment
      <2>3. stepNow' = stepNow
        BY <2>1 DEF stepNow
      <2>4. amountNow' = amountNow
        BY <2>1, <2>2 DEF amountNow
      <2>. QED  BY <2>2, <2>3, <2>4 DEF Steps!vars, stepNow, amountNow
    <1>4. CASE \E c \in Contracts : ContractEnds(c)
      <2>1. PICK c \in Contracts : ContractEnds(c)
        BY <1>4
      <2>2. UNCHANGED <<stepNow, amountNow>>
        BY <2>1 DEF ContractEnds, invoiceVars, stepNow, amountNow, Frozen
      <2>3. Steps!End(c)
        BY <2>1, <2>2 DEF ContractEnds, Steps!End, stepNow, amountNow
      <2>. QED  BY <2>3, StepsActions
    <1>. QED
      BY <1>1, <1>2, <1>3, <1>4
         DEF Next, Acts, Arrive, SaveFormula, vars, invoiceVars

LEMMA InitRefines == Init => Steps!Init
    BY StepFacts DEF Init, Steps!Init, Frozen, StatusOf

\* Whatever requests race and whatever fails, the invoice takes the steps it
\* promises, one at a time, and its amount never changes once it is frozen.
THEOREM StepsImplemented == Spec => ImplementsSteps
    BY InitRefines, NextRefines, SettlementInvariant, PTL
       DEF Spec, ImplementsSteps, Steps!Spec

-----------------------------------------------------------------------------
(* The rows go on.                                                         *)

LEMMA FrozenSteps ==
    ASSUME NEW s \in RowStatuses
    PROVE  /\ StepOf[s] \in 0..4
           /\ StatusOf(s) # "running" <=> StepOf[s] >= 1
           /\ StepOf[StatusOf(s)] = StepOf[s]
           /\ StatusOf(s) \in RowStatuses
           /\ s \in {"payment_uploaded", "paid"} <=> StepOf[s] >= 3
    BY StepFacts DEF StatusOf, RowStatuses, INVOICE_STATUSES

LEMMA ProofIsKept ==
    ASSUME ProofInv, "lost_commit" \notin Faults, [Next]_vars,
           NEW c \in Contracts, proof[c] # NoFile
    PROVE  proof'[c] = proof[c]
    <1>0. TypeOK
      BY DEF ProofInv, SettlementInv
    <1>1. CASE \E r \in Requests : Acts(r)
      <2>1. PICK r \in Requests : Acts(r)
        BY <1>1
      <2>2. CASE UNCHANGED proof
        BY <2>2
      <2>3. CASE RecordProof(r)
        <3>1. /\ requests[r].contract \in Contracts
              /\ proof[requests[r].contract] = NoFile
              /\ proof' = [proof EXCEPT ![requests[r].contract] = requests[r].file]
          BY <1>0, <2>3, InFlightType DEF RecordProof, Record, InFlight
        <3>. QED  BY <1>0, <3>1 DEF TypeOK
      <2>. QED
        BY <1>0, <2>1, <2>2, <2>3, ActFiles
           DEF PutFile, PutFileUnanswered, RemoveUnrecorded, invoiceVars
    <1>2. CASE ~\E r \in Requests : Acts(r)
      <2>1. UNCHANGED proof
        BY <1>2
           DEF Next, Acts, Arrive, AddComment, ContractEnds, SaveFormula, vars,
               invoiceVars
      <2>. QED  BY <2>1
    <1>. QED  BY <1>1, <1>2

LEMMA RowsGoOn ==
    ASSUME ProofInv, "lost_commit" \notin Faults, [Next]_vars, NEW c \in Contracts
    PROVE  /\ StepOf[status[c]] \in 0..4 /\ StepOf[status'[c]] \in 0..4
           /\ StepOf[status[c]] <= StepOf[status'[c]]
           /\ adjustments[c] \in Nat /\ adjustments'[c] \in Nat
           /\ adjustments[c] <= adjustments'[c]
           /\ StepOf[status[c]] >= 1 => adjustments'[c] = adjustments[c]
           /\ proof[c] # NoFile => proof'[c] = proof[c]
    <1>1. SettlementInv /\ SettlementInv' /\ TypeOK /\ TypeOK'
      BY NextInv DEF ProofInv, SettlementInv
    <1>2. /\ StepOf[status[c]] \in 0..4 /\ StepOf[status'[c]] \in 0..4
          /\ stepNow[c] = StepOf[status[c]] /\ stepNow'[c] = StepOf[status'[c]]
      BY <1>1, FrozenSteps DEF TypeOK, stepNow
    <1>3. /\ amountNow[c] = adjustments[c] /\ adjustments[c] \in Nat
          /\ amountNow'[c] = adjustments'[c] /\ adjustments'[c] \in Nat
      BY <1>1
         DEF SettlementInv, SnapshotKeepsEveryAdjustment, amountNow, Frozen, TypeOK
    <1>4. CASE UNCHANGED Steps!vars
      <2>1. stepNow' = stepNow /\ amountNow' = amountNow
        BY <1>4 DEF Steps!vars, stepNow, amountNow
      <2>. QED  BY <1>2, <1>3, <2>1, ProofIsKept
    <1>5. CASE Steps!Next
      <2>1. PICK d \in Contracts :
              Steps!Grow(d) \/ Steps!Freeze(d) \/ Steps!TakeTurn(d) \/ Steps!End(d)
        BY <1>5 DEF Steps!Next
      <2>2. \/ /\ stepNow[d] = 0 /\ stepNow' = stepNow
               /\ amountNow' = [amountNow EXCEPT ![d] = amountNow[d] + 1]
            \/ /\ stepNow' = [stepNow EXCEPT ![d] = 1]
               /\ stepNow[d] = 0 /\ amountNow' = amountNow
            \/ /\ stepNow' = [stepNow EXCEPT ![d] = stepNow[d] + 1]
               /\ amountNow' = amountNow
            \/ stepNow' = stepNow /\ amountNow' = amountNow
        BY <2>1
           DEF Steps!Grow, Steps!Freeze, Steps!TakeTurn, Steps!End, stepNow, amountNow
      <2>3. /\ stepNow[c] <= stepNow'[c]
            /\ amountNow[c] <= amountNow'[c]
            /\ stepNow[c] >= 1 => amountNow'[c] = amountNow[c]
        <3>1. DOMAIN stepNow = Contracts /\ DOMAIN amountNow = Contracts
          BY DEF stepNow, amountNow
        <3>. QED  BY <1>2, <1>3, <2>2, <3>1
      <2>. QED  BY <1>2, <1>3, <2>3, ProofIsKept
    <1>. QED  BY <1>1, <1>4, <1>5, NextRefines

-----------------------------------------------------------------------------
(* A step of the rows, and a statement of a read.                          *)

LEMMA Asking ==
    ASSUME ViewTypeOK, NEW s \in Statements, Reading(s)
    PROVE  /\ view \in Views /\ view # NoView /\ view.contract \in Contracts
           /\ s \notin view.answered
           /\ s = "sum" => view.screen = "list" /\ "saved" \in view.answered
           /\ s = "lines" => /\ view.screen = "list" => "sum" \in view.answered
                             /\ view.screen # "list" => "saved" \in view.answered
           /\ view.screen = "list" =>
                /\ s = "saved" => "status" \in view.answered
                /\ s = "proof" => "sum" \in view.answered
           /\ view.screen = "mine" /\ s = "proof" => "status" \in view.answered
    <1>1. view \in Views /\ view # NoView /\ view.screen \in {"list", "detail", "mine"}
      BY DEF Reading, ViewTypeOK, NoView, Views, Screens
    <1>2. /\ s \in Asked[view.screen] \ view.answered
          /\ Waits[view.screen][s] \subseteq view.answered
      BY DEF Reading
    <1>3. s = "sum" => view.screen = "list"
      BY <1>1, <1>2 DEF Asked, Statements
    <1>4. /\ view.screen = "list" =>
               /\ s = "saved" => Waits[view.screen][s] = {"status"}
               /\ s = "sum" => Waits[view.screen][s] = {"saved"}
               /\ s \in {"lines", "proof"} => Waits[view.screen][s] = {"sum"}
          /\ view.screen \in {"detail", "mine"} /\ s = "lines" =>
               Waits[view.screen][s] = {"saved"}
          /\ view.screen = "mine" /\ s = "proof" =>
               Waits[view.screen][s] = {"status", "saved", "lines"}
      BY DEF Waits, After, Statements
    <1>. QED  BY <1>1, <1>2, <1>3, <1>4 DEF Views

LEMMA RowsKeepViews ==
    ASSUME ViewInv, "lost_commit" \notin Faults, [Next]_vars, UNCHANGED view
    PROVE  ViewInv'
    <1>1. ProofInv /\ ProofInv'
      BY NextProof DEF ViewInv
    <1>2. ViewTypeOK' /\ ReadInOrder' /\ StatusComesFirst'
      BY DEF ViewInv, ViewTypeOK, ReadInOrder, StatusComesFirst
    <1>3. ASSUME view # NoView
          PROVE  /\ view \in Views /\ view.contract \in Contracts
                 /\ StepOf[view.status] \in 0..4 /\ StepOf[view.saved] \in 0..4
                 /\ SavedFrozen <=> StepOf[view.saved] >= 1
      BY <1>3, FrozenSteps DEF ViewInv, ViewTypeOK, Views, SavedFrozen
    <1>4. ReadsAreBehind'
      BY <1>1, <1>3, RowsGoOn DEF ViewInv, ReadsAreBehind
    <1>5. AmountsAreKept'
      <2>. SUFFICES ASSUME view # NoView
                    PROVE  AmountsAreKept'
        BY DEF AmountsAreKept
      <2>1. /\ adjustments[view.contract] \in Nat /\ adjustments'[view.contract] \in Nat
            /\ adjustments[view.contract] <= adjustments'[view.contract]
            /\ StepOf[status[view.contract]] \in 0..4
            /\ StepOf[status[view.contract]] >= 1
                 => adjustments'[view.contract] = adjustments[view.contract]
        BY <1>1, <1>3, RowsGoOn
      <2>2. StepOf[view.saved] <= StepOf[status[view.contract]]
        BY DEF ViewInv, ReadsAreBehind
      <2>3. SavedFrozen => adjustments'[view.contract] = adjustments[view.contract]
        BY <1>3, <2>1, <2>2
      <2>4. SavedFrozen' <=> SavedFrozen
        BY DEF SavedFrozen
      <2>5. view.sum \in Nat
        BY <1>3 DEF Views
      <2>. QED  BY <2>1, <2>3, <2>4, <2>5 DEF ViewInv, AmountsAreKept
    <1>. QED  BY <1>1, <1>2, <1>4, <1>5 DEF ViewInv

\* The rows as a statement finds them.
LEMMA RowsNow ==
    ASSUME ProofInv, NEW c \in Contracts
    PROVE  /\ status[c] \in RowStatuses
           /\ StepOf[status[c]] \in 0..4
           /\ adjustments[c] \in Nat
           /\ Frozen(c) <=> StepOf[status[c]] >= 1
           /\ Frozen(c) => snapshot[c].adjustments = adjustments[c]
           /\ proof[c] \in Files \cup {NoFile}
           /\ StepOf[status[c]] >= 3 => proof[c] # NoFile
    BY FrozenSteps
       DEF ProofInv, SettlementInv, SnapshotKeepsEveryAdjustment, PaymentIsProven,
           Frozen, TypeOK

LEMMA ViewNow ==
    ASSUME ViewInv, view # NoView
    PROVE  /\ view \in Views /\ view.contract \in Contracts
           /\ view.answered \subseteq Statements
           /\ StepOf[view.status] \in 0..4 /\ StepOf[view.saved] \in 0..4
           /\ SavedFrozen <=> StepOf[view.saved] >= 1
           /\ view.sum \in Nat /\ view.lines \in Nat /\ view.frozen \in Nat
    BY FrozenSteps DEF ViewInv, ViewTypeOK, Views, SavedFrozen

LEMMA RowsStay == ProofInv /\ UNCHANGED vars => ProofInv'
    BY DEF ProofInv, SettlementInv, vars, invoiceVars, TypeOK, OneLockHolder,
           CommandsReadTheTruth, LateRequestsAreLate, SnapshotKeepsEveryAdjustment,
           FilesAreNotShared, PaymentIsProven, HoldsLock, Frozen, CarriesFile

LEMMA StatusIsRead ==
    ASSUME ViewInv, ReadStatus
    PROVE  ViewInv'
    <1>. DEFINE c == view.contract
    <1>0. /\ Reading("status") /\ UNCHANGED vars
          /\ view' = [view EXCEPT !.status = StatusOf(status[c]),
                                  !.answered = @ \cup {"status"}]
      BY DEF ReadStatus
    <1>1. /\ view \in Views /\ view # NoView /\ c \in Contracts
          /\ "status" \notin view.answered
      BY <1>0, Asking DEF Statements, ViewInv
    <1>2. /\ status[c] \in RowStatuses
          /\ StatusOf(status[c]) \in RowStatuses
          /\ StepOf[StatusOf(status[c])] = StepOf[status[c]]
          /\ StepOf[status[c]] \in 0..4
      BY <1>1, RowsNow, FrozenSteps DEF ViewInv
    <1>3. view' \in Views /\ view' # NoView
      BY <1>0, <1>1, <1>2 DEF Views, NoView, Screens, Statements
    <1>4. ProofInv'
      BY <1>0, RowsStay DEF ViewInv
    <1>5. ReadInOrder'
      BY <1>0, <1>1 DEF ViewInv, ReadInOrder, Views
    <1>6. ReadsAreBehind'
      BY <1>0, <1>1, <1>2, <1>3
         DEF ViewInv, ReadsAreBehind, vars, invoiceVars, Views
    <1>7. AmountsAreKept'
      BY <1>0, <1>1, <1>3
         DEF ViewInv, AmountsAreKept, SavedFrozen, vars, invoiceVars, Views
    <1>8. StatusComesFirst'
      BY <1>0, <1>1 DEF ViewInv, StatusComesFirst, ReadInOrder, Views
    <1>. QED  BY <1>3, <1>4, <1>5, <1>6, <1>7, <1>8 DEF ViewInv, ViewTypeOK

LEMMA SavedIsRead ==
    ASSUME ViewInv, ReadSaved
    PROVE  ViewInv'
    <1>. DEFINE c == view.contract
    <1>0. /\ Reading("saved") /\ UNCHANGED vars
          /\ view' = [view EXCEPT !.saved = status[c],
                            !.frozen = IF Frozen(c) THEN snapshot[c].adjustments ELSE 0,
                            !.answered = @ \cup {"saved"}]
      BY DEF ReadSaved
    <1>1. /\ view \in Views /\ view # NoView /\ c \in Contracts
          /\ "saved" \notin view.answered
          /\ view.screen = "list" => "status" \in view.answered
      BY <1>0, Asking DEF Statements, ViewInv
    <1>2. /\ status[c] \in RowStatuses /\ StepOf[status[c]] \in 0..4
          /\ Frozen(c) <=> StatusOf(status[c]) # "running"
          /\ Frozen(c) => snapshot[c].adjustments = adjustments[c]
          /\ adjustments[c] \in Nat
          /\ StepOf[view.status] <= StepOf[status[c]]
      BY <1>1, RowsNow DEF ViewInv, ReadsAreBehind, Frozen
    <1>3. view' \in Views /\ view' # NoView
      BY <1>0, <1>1, <1>2 DEF Views, NoView, Screens, Statements
    <1>4. ProofInv'
      BY <1>0, RowsStay DEF ViewInv
    <1>5. ReadInOrder'
      BY <1>0, <1>1 DEF ViewInv, ReadInOrder, Views
    <1>6. ReadsAreBehind'
      BY <1>0, <1>1, <1>2, <1>3
         DEF ViewInv, ReadsAreBehind, vars, invoiceVars, Views
    <1>7. AmountsAreKept'
      BY <1>0, <1>1, <1>2, <1>3
         DEF ViewInv, AmountsAreKept, ReadInOrder, SavedFrozen, vars, invoiceVars, Views
    <1>8. StatusComesFirst'
      BY <1>0, <1>1, <1>2 DEF ViewInv, StatusComesFirst, ReadInOrder, ReadsAreBehind, Views
    <1>. QED  BY <1>3, <1>4, <1>5, <1>6, <1>7, <1>8 DEF ViewInv, ViewTypeOK

LEMMA SumIsRead ==
    ASSUME ViewInv, ReadSum
    PROVE  ViewInv'
    <1>. DEFINE c == view.contract
    <1>0. /\ Reading("sum") /\ UNCHANGED vars
          /\ view' = [view EXCEPT !.sum = IF view.saved # "absent" /\ ~SavedFrozen
                                    THEN adjustments[c] ELSE 0,
                            !.answered = @ \cup {"sum"}]
      BY DEF ReadSum
    <1>1. /\ view \in Views /\ view # NoView /\ c \in Contracts
          /\ "sum" \notin view.answered
          /\ view.screen = "list" /\ "saved" \in view.answered
      BY <1>0, Asking DEF Statements, ViewInv
    <1>2. /\ adjustments[c] \in Nat
          /\ SavedFrozen' <=> SavedFrozen
      BY <1>0, <1>1, RowsNow DEF ViewInv, SavedFrozen, Views
    <1>3. view' \in Views /\ view' # NoView
      BY <1>0, <1>1, <1>2 DEF Views, NoView, Screens, Statements
    <1>4. ProofInv'
      BY <1>0, RowsStay DEF ViewInv
    <1>5. ReadInOrder'
      BY <1>0, <1>1 DEF ViewInv, ReadInOrder, Views
    <1>6. ReadsAreBehind'
      BY <1>0, <1>1, <1>2, <1>3
         DEF ViewInv, ReadsAreBehind, vars, invoiceVars, Views
    <1>7. AmountsAreKept'
      BY <1>0, <1>1, <1>2, <1>3
         DEF ViewInv, AmountsAreKept, ReadInOrder, SavedFrozen, vars, invoiceVars, Views
    <1>8. StatusComesFirst'
      BY <1>0, <1>1, <1>2 DEF ViewInv, StatusComesFirst, ReadInOrder, ReadsAreBehind, Views
    <1>. QED  BY <1>3, <1>4, <1>5, <1>6, <1>7, <1>8 DEF ViewInv, ViewTypeOK

LEMMA LinesAreRead ==
    ASSUME ViewInv, ReadLines
    PROVE  ViewInv'
    <1>. DEFINE c == view.contract
    <1>0. /\ Reading("lines") /\ UNCHANGED vars
          /\ view' = [view EXCEPT !.lines = IF view.saved = "absent" THEN 0
                                      ELSE adjustments[c],
                            !.answered = @ \cup {"lines"}]
      BY DEF ReadLines
    <1>1. /\ view \in Views /\ view # NoView /\ c \in Contracts
          /\ "lines" \notin view.answered
          /\ view.screen = "list" => "sum" \in view.answered
          /\ view.screen # "list" => "saved" \in view.answered
      BY <1>0, Asking DEF Statements, ViewInv
    <1>2. /\ adjustments[c] \in Nat /\ view.sum \in Nat
          /\ SavedFrozen' <=> SavedFrozen
          /\ SavedFrozen => view.saved # "absent"
      BY <1>0, <1>1, RowsNow DEF ViewInv, SavedFrozen, StatusOf, Views
    <1>3. view' \in Views /\ view' # NoView
      BY <1>0, <1>1, <1>2 DEF Views, NoView, Screens, Statements
    <1>4. ProofInv'
      BY <1>0, RowsStay DEF ViewInv
    <1>5. ReadInOrder'
      BY <1>0, <1>1 DEF ViewInv, ReadInOrder, Views
    <1>6. ReadsAreBehind'
      BY <1>0, <1>1, <1>2, <1>3
         DEF ViewInv, ReadsAreBehind, vars, invoiceVars, Views
    <1>7. AmountsAreKept'
      BY <1>0, <1>1, <1>2, <1>3
         DEF ViewInv, AmountsAreKept, ReadInOrder, SavedFrozen, vars, invoiceVars, Views
    <1>8. StatusComesFirst'
      BY <1>0, <1>1, <1>2 DEF ViewInv, StatusComesFirst, ReadInOrder, ReadsAreBehind, Views
    <1>. QED  BY <1>3, <1>4, <1>5, <1>6, <1>7, <1>8 DEF ViewInv, ViewTypeOK

LEMMA ProofIsRead ==
    ASSUME ViewInv, ReadProof
    PROVE  ViewInv'
    <1>. DEFINE c == view.contract
    <1>0. /\ Reading("proof") /\ UNCHANGED vars
          /\ view' = [view EXCEPT !.proof = proof[c],
                            !.answered = @ \cup {"proof"}]
      BY DEF ReadProof
    <1>1. /\ view \in Views /\ view # NoView /\ c \in Contracts
          /\ "proof" \notin view.answered
          /\ view.screen = "list" => "sum" \in view.answered
          /\ view.screen = "mine" => "status" \in view.answered
      BY <1>0, Asking DEF Statements, ViewInv
    <1>2. /\ proof[c] \in Files \cup {NoFile}
          /\ StepOf[status[c]] \in 0..4 /\ StepOf[view.status] \in 0..4
          /\ StepOf[status[c]] >= 3 => proof[c] # NoFile
          /\ StepOf[view.status] <= StepOf[status[c]]
          /\ SavedFrozen' <=> SavedFrozen
      BY <1>0, <1>1, RowsNow, ViewNow DEF ViewInv, ReadsAreBehind, SavedFrozen, Views
    <1>3. view' \in Views /\ view' # NoView
      BY <1>0, <1>1, <1>2 DEF Views, NoView, Screens, Statements
    <1>4. ProofInv'
      BY <1>0, RowsStay DEF ViewInv
    <1>5. ReadInOrder'
      BY <1>0, <1>1 DEF ViewInv, ReadInOrder, Views
    <1>6. ReadsAreBehind'
      BY <1>0, <1>1, <1>2, <1>3
         DEF ViewInv, ReadsAreBehind, vars, invoiceVars, Views
    <1>7. AmountsAreKept'
      BY <1>0, <1>1, <1>2, <1>3
         DEF ViewInv, AmountsAreKept, ReadInOrder, SavedFrozen, vars, invoiceVars, Views
    <1>8. StatusComesFirst'
      BY <1>0, <1>1, <1>2 DEF ViewInv, StatusComesFirst, ReadInOrder, ReadsAreBehind, Views
    <1>. QED  BY <1>3, <1>4, <1>5, <1>6, <1>7, <1>8 DEF ViewInv, ViewTypeOK

LEMMA NothingRead ==
    ASSUME ProofInv', view' = NoView
    PROVE  ViewInv'
    BY DEF ViewInv, ViewTypeOK, ReadInOrder, ReadsAreBehind, AmountsAreKept,
           StatusComesFirst, NoView

LEMMA ViewIsOpened ==
    ASSUME ViewInv, NEW screen \in Screens, NEW c \in Contracts, OpenView(screen, c)
    PROVE  ViewInv'
    <1>1. /\ view' = [NoView EXCEPT !.screen = screen, !.contract = c]
          /\ UNCHANGED vars
      BY DEF OpenView
    <1>2. ProofInv'
      BY <1>1, RowsStay DEF ViewInv
    <1>3. /\ view' \in Views /\ view'.contract = c /\ view'.answered = {}
          /\ view'.status = "absent" /\ view'.saved = "absent"
          /\ view'.sum = 0 /\ view'.proof = NoFile
      BY <1>1 DEF NoView, Views, Statements, RowStatuses
    <1>4. StepOf[status'[c]] \in 0..4 /\ adjustments'[c] \in Nat
      BY <1>1, RowsNow DEF ViewInv, vars, invoiceVars
    <1>5. ReadInOrder' /\ StatusComesFirst'
      BY <1>3 DEF ReadInOrder, StatusComesFirst
    <1>6. ReadsAreBehind'
      BY <1>3, <1>4, StepFacts DEF ReadsAreBehind
    <1>7. AmountsAreKept'
      BY <1>3, <1>4 DEF AmountsAreKept, SavedFrozen, StatusOf
    <1>. QED  BY <1>2, <1>3, <1>5, <1>6, <1>7 DEF ViewInv, ViewTypeOK

LEMMA NextViewInv ==
    ASSUME "lost_commit" \notin Faults
    PROVE  ViewInv /\ [ViewNext]_viewVars => ViewInv'
    <1>. SUFFICES ASSUME ViewInv, [ViewNext]_viewVars
                  PROVE  ViewInv'
      OBVIOUS
    <1>1. CASE Next /\ UNCHANGED view
      BY <1>1, RowsKeepViews
    <1>2. CASE \E screen \in Screens, c \in Contracts : OpenView(screen, c)
      BY <1>2, ViewIsOpened
    <1>3. CASE ReadStatement
      BY <1>3, StatusIsRead, SavedIsRead, SumIsRead, LinesAreRead, ProofIsRead
         DEF ReadStatement
    <1>4. CASE ReadFails
      BY <1>4, NothingRead, RowsStay DEF ReadFails, ViewInv
    <1>5. CASE UNCHANGED viewVars
      BY <1>5, RowsKeepViews DEF viewVars
    <1>. QED  BY <1>1, <1>2, <1>3, <1>4, <1>5 DEF ViewNext

LEMMA InitViewInv == ViewInit => ViewInv
    BY InitProof
       DEF ViewInit, ViewInv, ViewTypeOK, ReadInOrder, ReadsAreBehind, AmountsAreKept,
           StatusComesFirst, NoView

LEMMA ViewInvariant ==
    ASSUME "lost_commit" \notin Faults
    PROVE  ViewSpec => []ViewInv
    <1>1. ViewInv /\ [ViewNext]_viewVars => ViewInv'
      BY NextViewInv
    <1>. QED  BY <1>1, InitViewInv, PTL DEF ViewSpec

-----------------------------------------------------------------------------
(* What the screens show.                                                  *)

\* Every step the admin's row paints green has its day.
THEOREM GreenStepsDated ==
    ASSUME "lost_commit" \notin Faults
    PROVE  ViewSpec => []GreenStepsAreDated
    <1>1. ViewInv => GreenStepsAreDated
      <2>. SUFFICES ASSUME ViewInv, Shown, view.screen = "list",
                           NEW i \in 2..(StepOf[view.status] + 1)
                    PROVE  Tracker[i] \in ReachedAt
        BY DEF GreenStepsAreDated, DoneSteps
      <2>1. /\ StepOf[view.status] \in 0..4 /\ StepOf[view.saved] \in 0..4
            /\ SavedFrozen <=> StepOf[view.saved] >= 1
        BY ViewNow DEF Shown, NoView
      <2>2. /\ StepOf[view.status] <= StepOf[view.saved]
            /\ StepOf[view.status] >= 3 => view.proof # NoFile
        BY DEF ViewInv, StatusComesFirst, Shown, Asked, Statements
      <2>3. CASE i = 2
        BY <2>1, <2>2, <2>3 DEF Tracker, ReachedAt
      <2>4. CASE i = 3
        BY <2>1, <2>2, <2>4 DEF Tracker, ReachedAt
      <2>5. CASE i = 4
        BY <2>1, <2>2, <2>5 DEF Tracker, ReachedAt
      <2>6. CASE i = 5
        BY <2>1, <2>2, <2>6 DEF Tracker, ReachedAt
      <2>. QED  BY <2>1, <2>3, <2>4, <2>5, <2>6
    <1>. QED  BY <1>1, ViewInvariant, PTL

\* The total and the lines of a screen tell one amount, the frozen one at last.
THEOREM AmountsAddUp ==
    ASSUME "lost_commit" \notin Faults
    PROVE  ViewSpec => []LinesAddUp
    <1>1. ViewInv => LinesAddUp
      <2>. SUFFICES ASSUME ViewInv, Shown
                    PROVE  LinesAddUp
        BY DEF LinesAddUp
      <2>1. /\ view # NoView /\ view \in Views /\ view.contract \in Contracts
            /\ view.sum \in Nat /\ view.lines \in Nat
            /\ SavedFrozen <=> StepOf[view.saved] >= 1
            /\ StepOf[view.saved] \in 0..4
        BY ViewNow DEF Shown, NoView
      <2>2. "lines" \in view.answered
        BY <2>1 DEF Shown, Asked, Statements, Views, Screens
      <2>3. SavedFrozen => /\ snapshot[view.contract].adjustments = adjustments[view.contract]
                           /\ view.frozen = adjustments[view.contract]
                           /\ view.lines = adjustments[view.contract]
        <3>1. StepOf[view.saved] <= StepOf[status[view.contract]]
          BY <2>1 DEF ViewInv, ReadsAreBehind
        <3>2. /\ StepOf[status[view.contract]] \in 0..4
              /\ Frozen(view.contract) <=> StepOf[status[view.contract]] >= 1
              /\ Frozen(view.contract)
                   => snapshot[view.contract].adjustments = adjustments[view.contract]
          BY <2>1, RowsNow DEF ViewInv
        <3>. QED  BY <2>1, <2>2, <3>1, <3>2 DEF ViewInv, AmountsAreKept
      <2>4. view.sum <= view.lines
        BY <2>1, <2>2 DEF ViewInv, AmountsAreKept
      <2>. QED  BY <2>1, <2>3, <2>4 DEF LinesAddUp, Total
    <1>. QED  BY <1>1, ViewInvariant, PTL

\* A creator asked to confirm a payment can open its proof.
THEOREM ProofIsBesideTheAsk ==
    ASSUME "lost_commit" \notin Faults
    PROVE  ViewSpec => []ConfirmComesWithProof
    <1>1. ViewInv => ConfirmComesWithProof
      <2>. SUFFICES ASSUME ViewInv, Shown, view.screen = "mine",
                           view.status \in {"payment_uploaded", "paid"}
                    PROVE  view.proof \in stored
        BY DEF ConfirmComesWithProof
      <2>1. view # NoView /\ view.contract \in Contracts
        BY ViewNow DEF Shown, NoView
      <2>2. "proof" \in view.answered /\ StepOf[view.status] >= 3
        BY StepFacts DEF Shown, Asked, Statements
      <2>3. view.proof # NoFile
        BY <2>2 DEF ViewInv, StatusComesFirst
      <2>. QED
        BY <2>1, <2>3 DEF ViewInv, ReadsAreBehind, ProofInv, PaymentIsProven
    <1>. QED  BY <1>1, ViewInvariant, PTL

\* What a page shows or offers, the invoice has come to for good.
THEOREM ViewsAreBehind ==
    ASSUME "lost_commit" \notin Faults
    PROVE  ViewSpec => []ViewsAreNeverAhead
    <1>1. ViewInv => ViewsAreNeverAhead
      <2>. SUFFICES ASSUME ViewInv, view # NoView
                    PROVE  ViewsAreNeverAhead
        BY DEF ViewsAreNeverAhead
      <2>1. /\ view.contract \in Contracts
            /\ StepOf[view.status] \in 0..4
            /\ StepOf[status[view.contract]] \in 0..4
        BY ViewNow, RowsNow DEF ViewInv
      <2>2. \A move \in Offers : StepOf[From[move]] = StepOf[view.status]
        BY StepFacts, StatusFacts
           DEF Offers, CreatorNextStep, AdminNextStep, From, Moves, Commands, CreatorMoves
      <2>. QED  BY <2>1, <2>2 DEF ViewInv, ReadsAreBehind, ViewsAreNeverAhead
    <1>. QED  BY <1>1, ViewInvariant, PTL

\* However the statements of a read meet the requests that move the invoice,
\* what its screen dates, adds up, asks for and offers is borne out by the rows.
THEOREM ViewsTellTheTruth ==
    ASSUME "lost_commit" \notin Faults
    PROVE  ViewSpec => []ViewsAreTrue
    <1>1. /\ GreenStepsAreDated /\ LinesAddUp
          /\ ConfirmComesWithProof /\ ViewsAreNeverAhead
          => ViewsAreTrue
      BY DEF ViewsAreTrue
    <1>2. QED
      BY <1>1, GreenStepsDated, AmountsAddUp, ProofIsBesideTheAsk,
         ViewsAreBehind, PTL
=============================================================================
