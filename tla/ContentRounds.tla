---------------------------- MODULE ContentRounds ----------------------------
(***************************************************************************)
(* What the workflow of a content promises, without requests, reads or     *)
(* rows: whose turn it is.  Creator and admin alternate; each hand-in is   *)
(* one round; a content is finished from an approval or, once it is late,  *)
(* from a draft that still waits for one, and never without a draft.       *)
(***************************************************************************)
EXTENDS Naturals

CONSTANT Contents

VARIABLES
    turn,       \* whose turn it is
    rounds,     \* how many times the creator has handed in
    late        \* whether the grace window is open; it never closes

vars == <<turn, rounds, late>>

Turns == {"unborn", "proposed", "creator", "admin", "cleared", "done", "discarded"}

Init ==
    /\ turn \in [Contents -> {"unborn", "proposed"}]
    /\ rounds = [c \in Contents |-> 0]
    /\ late \in [Contents -> BOOLEAN]

Becomes(c, t) == turn' = [turn EXCEPT ![c] = t]

\* Work is assigned: proposals, several at a time, or one new content.
Assign(S) ==
    /\ \/ \A c \in S : turn[c] = "proposed"
       \/ \E c \in Contents : S = {c} /\ turn[c] = "unborn"
    /\ turn' = [c \in Contents |-> IF c \in S THEN "creator" ELSE turn[c]]
    /\ UNCHANGED <<rounds, late>>

Discard(c) ==
    /\ turn[c] = "proposed"
    /\ Becomes(c, "discarded")
    /\ UNCHANGED <<rounds, late>>

HandIn(c) ==
    /\ turn[c] = "creator"
    /\ Becomes(c, "admin")
    /\ rounds' = [rounds EXCEPT ![c] = rounds[c] + 1]
    /\ UNCHANGED late

SendBack(c) ==
    /\ turn[c] = "admin"
    /\ Becomes(c, "creator")
    /\ UNCHANGED <<rounds, late>>

Clear(c) ==
    /\ turn[c] = "admin"
    /\ Becomes(c, "cleared")
    /\ UNCHANGED <<rounds, late>>

Publish(c) ==
    /\ turn[c] = "cleared" \/ (turn[c] = "admin" /\ late[c])
    /\ Becomes(c, "done")
    /\ UNCHANGED <<rounds, late>>

TimePasses ==
    /\ late' \in [Contents -> BOOLEAN]
    /\ \A c \in Contents : late[c] => late'[c]
    /\ UNCHANGED <<turn, rounds>>

Next ==
    \/ \E S \in SUBSET Contents : Assign(S)
    \/ \E c \in Contents :
         Discard(c) \/ HandIn(c) \/ SendBack(c) \/ Clear(c) \/ Publish(c)
    \/ TimePasses

Spec == Init /\ [][Next]_vars
=============================================================================
