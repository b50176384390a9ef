--------------------------- MODULE MCInvoiceScreens ---------------------------
(* Two periods: the first waits for its payment proof and the second runs, or *)
(* each waits for its creator.                                               *)
EXTENDS InvoiceScreens

MCContracts == 1..2
MCOpenings == {<<2, 0>>, <<3, 1>>}
MCFilters == {0..LastStep, {0}}
=============================================================================
