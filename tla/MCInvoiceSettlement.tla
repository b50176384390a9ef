------------------------ MODULE MCInvoiceSettlement ------------------------
(* The instance of InvoiceSettlement for TLC.  Requests are interchangeable *)
(* but no symmetry is used: it is not sound for what has to happen.         *)
EXTENDS InvoiceSettlement
=============================================================================
