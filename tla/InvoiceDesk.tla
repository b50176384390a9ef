---------------------------- MODULE InvoiceDesk ----------------------------
(***************************************************************************)
(* The server as the invoicing screens meet it: it takes a request in one  *)
(* step and keeps, for each contract, how far its invoice has walked (0    *)
(* while it runs, 4 once paid), which state of the four amounts and their  *)
(* lines holds, and its comment thread.  What an adjustment adds to the    *)
(* total travels with the row and is left out.  How one request races      *)
(* another inside the server is InvoiceSettlement's.                       *)
(***************************************************************************)
EXTENDS Integers, Sequences, FiniteSetsExt, Functions

CONSTANTS
    Contracts,      \* the periods of a creator, numbered from 1
    Openings,       \* where the invoices may stand when the screen is opened
    MaxLines,       \* bound: how often the amounts of an invoice may move
    MaxComments,    \* bound: comments in all threads together
    MaxElsewhere,   \* bound: moves and comments made from other browsers
    MaxPresses      \* bound: presses on the screen

ASSUME DeskAssumption ==
    /\ IsFiniteSet(Contracts) /\ Contracts = 1..Cardinality(Contracts)
    /\ Openings \subseteq [Contracts -> 0..4]
    /\ {MaxLines, MaxComments, MaxElsewhere, MaxPresses} \subseteq Nat

VARIABLES
    invoices,       \* [Contracts -> [step, lines]]
    comments,       \* [Contracts -> the thread's comments, oldest first]
    periods,        \* the contracts the creator has so far
    elsewhere,      \* the moves and comments made from other browsers so far
    presses         \* the presses on the screen so far

held == <<invoices, comments, periods>>
deskVars == <<held, elsewhere, presses>>

LastStep == 4

DeskInit ==
    /\ \E opening \in Openings :
          invoices = [c \in Contracts |-> [step |-> opening[c], lines |-> 0]]
    /\ comments = [c \in Contracts |-> <<>>]
    /\ elsewhere = 0 /\ presses = 0

Invoices == [step : 0..LastStep, lines : 0..MaxLines]

DeskTypeOK ==
    /\ invoices \in [Contracts -> Invoices]
    /\ comments \in [Contracts -> Seq(1..MaxComments)]
    /\ periods \subseteq Contracts
    /\ elsewhere \in 0..MaxElsewhere /\ presses \in 0..MaxPresses

\* The step an invoice must stand on for a move; only an adjustment leaves it there.
AsksFor == [adjust |-> 0, finalize |-> 0, acknowledge |-> 1, upload |-> 2, confirm |-> 3]

Takes(move, c) == invoices[c].step = AsksFor[move]

Moved(move, c) ==
    IF move = "adjust" THEN invoices ELSE [invoices EXCEPT ![c].step = @ + 1]

\* A comment is numbered by the moment it was saved.
Said == Cardinality(UNION {Range(comments[c]) : c \in Contracts})

Commented(c) == [comments EXCEPT ![c] = Append(@, Said + 1)]

Elsewhere ==
    /\ elsewhere < MaxElsewhere
    /\ elsewhere' = elsewhere + 1
    /\ UNCHANGED presses

Press ==
    /\ presses < MaxPresses
    /\ presses' = presses + 1
    /\ UNCHANGED elsewhere

\* While an invoice runs its amounts follow the formula and the contents.
AmountsMove(c) ==
    /\ Elsewhere
    /\ invoices[c].step = 0
    /\ invoices[c].lines < MaxLines
    /\ invoices' = [invoices EXCEPT ![c].lines = @ + 1]
    /\ UNCHANGED <<comments, periods>>

\* A turn taken from any other browser.
MovedElsewhere(move, c) ==
    /\ Elsewhere
    /\ Takes(move, c)
    /\ invoices' = Moved(move, c)
    /\ UNCHANGED <<comments, periods>>

\* A comment written in another browser, or in a thread that was closed while
\* it was on its way: the request goes on without its thread.
CommentedElsewhere(c) ==
    /\ Elsewhere
    /\ Said < MaxComments
    /\ comments' = Commented(c)
    /\ UNCHANGED <<invoices, periods>>

\* A renewed creator gets the next contract, and with it an invoice.
Renewed(c) ==
    /\ Elsewhere
    /\ c \in Contracts \ periods
    /\ periods' = periods \cup {c}
    /\ UNCHANGED <<invoices, comments>>
=============================================================================
