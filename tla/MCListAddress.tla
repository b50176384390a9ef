--------------------------- MODULE MCListAddress ---------------------------
(* Two searches and a blank one, on the three pages that build on what was *)
(* last sent; the sort header of the other two drops a filter on its way.  *)
EXTENDS ListAddress

MCPages  == {"plan", "tasks", "roster"}
MCWords  == {"raya", "rayaku"}
=============================================================================
