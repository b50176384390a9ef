-------------------------- MODULE InvoiceLifecycle --------------------------
(***************************************************************************)
(* The statuses of an invoice, and which move each of them allows.  A      *)
(* contract nobody has adjusted, commented or finalized has no invoice row *)
(* yet; every rule treats it as running.                                   *)
(***************************************************************************)

INVOICE_STATUSES ==
    {"running", "finalized", "creator_acked", "payment_uploaded", "paid"}

RowStatuses == INVOICE_STATUSES \cup {"absent"}

StatusOf(row) == IF row = "absent" THEN "running" ELSE row

\* The commands of the admin that run under the contract's row lock.
Commands == {"add_adjustment", "finalize"}

\* The creator's two moves on their own invoice.
CreatorMoves == {"acknowledge", "confirm_receipt"}

Moves == Commands \cup CreatorMoves \cup {"upload_proof"}

\* The status a move leaves, and the status it reaches.
From ==
    [m \in Moves |->
        CASE m = "acknowledge"     -> "finalized"
          [] m = "upload_proof"    -> "creator_acked"
          [] m = "confirm_receipt" -> "payment_uploaded"
          [] OTHER                 -> "running"]

To ==
    [m \in Moves |->
        CASE m = "add_adjustment"  -> "running"
          [] m = "finalize"        -> "finalized"
          [] m = "acknowledge"     -> "creator_acked"
          [] m = "upload_proof"    -> "payment_uploaded"
          [] m = "confirm_receipt" -> "paid"]

AssertCan(move, row) == StatusOf(row) = From[move]
=============================================================================
