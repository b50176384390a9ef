--------------------------- MODULE MCCreatorAccess ---------------------------
(* An instance of CreatorAccess for TLC: a creator whose first contract ends *)
(* on day 0 and whose second begins later, an admin, and a user without a    *)
(* profile.                                                                  *)
EXTENDS CreatorAccess, TLC

CONSTANTS ana, adm, bare, c1, c2

MCKind == ana :> "creator" @@ adm :> "admin" @@ bare :> "bare"
MCOwner == c1 :> ana @@ c2 :> ana
MCStartDay == c1 :> 0 @@ c2 :> 3
MCEndDay == c1 :> 0 @@ c2 :> 3

\* Slots are interchangeable.
Symmetry == Permutations(Requests)
=============================================================================
