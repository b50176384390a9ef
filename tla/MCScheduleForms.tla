--------------------------- MODULE MCScheduleForms ---------------------------
(* A contract older than the code with room for one Evergreen content, and   *)
(* an address that is not on it.                                             *)
EXTENDS ScheduleForms

CONSTANTS c1, c2, e1, e2

MCSeeded == c1 :> [email |-> e1, start |-> 0, end |-> 3, quota |-> 1]

MCTerm(email, end, interval, quota) ==
    [email |-> email, start |-> 0, end |-> end, interval |-> interval,
     quota |-> quota, complete |-> TRUE]

\* Two that need a day picked by hand: one with an interval too large for its
\* column, and one without the room for the pick that the other has.
MCTerms == {MCTerm(e2, 3, 4, 2), MCTerm(e2, 2, 2, 2)}

MCContents == {[type |-> "evergreen", deadline |-> 2, complete |-> FALSE],
               [type |-> "specific", deadline |-> 3, complete |-> TRUE]}

MCSymmetry == Permutations(ContentIds) \cup Permutations(Requests)
=============================================================================
