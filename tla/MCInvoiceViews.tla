--------------------------- MODULE MCInvoiceViews ---------------------------
(* Instances of InvoiceViews for TLC: requests are interchangeable, and so *)
(* are the keys of files.                                                  *)
EXTENDS InvoiceViews, TLC

Symmetry == Permutations(Requests) \cup Permutations(Files)
=============================================================================
