---------------------------- MODULE SlotAllocator ----------------------------
(***************************************************************************)
(* What the schedule of a contract promises: a contract is opened with a   *)
(* quota, and its Evergreen numbers 1, 2, ... are given out one by one, or *)
(* all at once when it is opened, each exactly once and none beyond the    *)
(* quota.  A login belongs to at most one contract it was opened with.     *)
(***************************************************************************)
EXTENDS Naturals

CONSTANTS Contracts, Logins, NoLogin, MaxQuota

Quotas == 0 .. MaxQuota

VARIABLES
    quota,      \* the quota of each contract; 0 while it is not open
    given,      \* the numbers given out so far: 1 .. given
    owner       \* the login each contract was opened for

vars == <<quota, given, owner>>

Init ==
    /\ quota \in [Contracts -> Quotas]
    /\ given \in [Contracts -> Quotas]
    /\ \A c \in Contracts : given[c] <= quota[c]
    /\ owner \in [Contracts -> Logins \cup {NoLogin}]
    /\ \A c, d \in Contracts : owner[c] = owner[d] /\ c # d => owner[c] = NoLogin

\* A contract opens for a login nobody has, with all of its numbers given out.
Open(c, login, q) ==
    /\ quota[c] = 0 /\ q > 0
    /\ \A d \in Contracts : owner[d] # login
    /\ quota' = [quota EXCEPT ![c] = q]
    /\ given' = [given EXCEPT ![c] = q]
    /\ owner' = [owner EXCEPT ![c] = login]

Give(c) ==
    /\ given[c] < quota[c]
    /\ given' = [given EXCEPT ![c] = given[c] + 1]
    /\ UNCHANGED <<quota, owner>>

Next ==
    \E c \in Contracts :
        \/ Give(c)
        \/ \E login \in Logins, q \in Quotas : Open(c, login, q)

Spec == Init /\ [][Next]_vars
=============================================================================
