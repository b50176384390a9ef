-------------------------- MODULE MCEvergreenSlots --------------------------
(* Two admins, a contract older than the code with room for two Evergreen   *)
(* contents, and bodies no form would send.                                 *)
EXTENDS EvergreenSlots

CONSTANTS c1, c2, c3, e1, e2

MCSeeded == c1 :> [email |-> e1, start |-> 0, end |-> 4, quota |-> 2]

MCCreator(email, deadlines) ==
    [email |-> email, start |-> 0, end |-> 3, interval |-> 1,
     quota |-> Len(deadlines), complete |-> TRUE, deadlines |-> deadlines]

\* Two for one new address, one of them out of order; one for an address that
\* is taken; one with more contents than a contract may have.
MCRawCreators == {MCCreator(e2, <<3, 2>>), MCCreator(e2, <<2>>),
                  MCCreator(e1, <<2>>), MCCreator(e2, <<2, 2, 3>>)}

MCContent(type, contract, deadline) ==
    [contract |-> contract, type |-> type, deadline |-> deadline, complete |-> TRUE]

MCRawContents == {MCContent("evergreen", c1, 4), MCContent("evergreen", c1, 2),
                  MCContent("specific", c1, 3), MCContent("evergreen", c2, 3)}

MCSymmetry == Permutations(ContentIds) \cup Permutations(Requests)
=============================================================================
