---------------------------- MODULE InvoiceSteps ----------------------------
(***************************************************************************)
(* What an invoice promises the two people who settle it.  It grows while  *)
(* the contract runs.  Once the contract is over the admin freezes it, and *)
(* from then on the amount stays what it was and the creator and the admin *)
(* take turns: the creator accepts it, the admin proves the payment, the   *)
(* creator confirms it.  No turn is skipped, repeated or taken back.       *)
(***************************************************************************)
EXTENDS Naturals

CONSTANT Contracts

VARIABLES
    step,       \* how far each invoice has come: 0 while it grows, 4 when paid
    amount,     \* how many adjustments its amount counts
    over        \* whether its contract is over

vars == <<step, amount, over>>

LastStep == 4

Init ==
    /\ step = [c \in Contracts |-> 0]
    /\ amount = [c \in Contracts |-> 0]
    /\ over = [c \in Contracts |-> FALSE]

Grow(c) ==
    /\ step[c] = 0
    /\ amount' = [amount EXCEPT ![c] = amount[c] + 1]
    /\ UNCHANGED <<step, over>>

Freeze(c) ==
    /\ step[c] = 0
    /\ over[c]
    /\ step' = [step EXCEPT ![c] = 1]
    /\ UNCHANGED <<amount, over>>

TakeTurn(c) ==
    /\ step[c] \in 1..(LastStep - 1)
    /\ step' = [step EXCEPT ![c] = step[c] + 1]
    /\ UNCHANGED <<amount, over>>

End(c) ==
    /\ over' = [over EXCEPT ![c] = TRUE]
    /\ UNCHANGED <<step, amount>>

Next == \E c \in Contracts : Grow(c) \/ Freeze(c) \/ TakeTurn(c) \/ End(c)

Spec == Init /\ [][Next]_vars
=============================================================================
