--------------------------- MODULE MCAppSessions ---------------------------
(* Instances of AppSessions for TLC. *)
EXTENDS AppSessions, TLC

\* Slots are interchangeable.
Symmetry == Permutations(Requests)
=============================================================================
