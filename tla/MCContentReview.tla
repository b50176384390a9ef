-------------------------- MODULE MCContentReview --------------------------
(* Small instances of ContentViews: the deadline of the content, the        *)
(* symmetry of the request slots, and the view without comments and stamps. *)
EXTENDS ContentViews, TLC

CONSTANT c1

\* One content whose grace window opens on day 1.
OneDeadline == c1 :> 2

\* A period that begins after its deadline and one that ends before it: a period
\* that holds the deadline hides nothing anyway.
PeriodsAround == {[from |-> 3, to |-> NoLimit], [from |-> 0, to |-> 1]}

RequestSymmetry == Permutations(Requests)

\* Nothing but the next comment reads how many there are, and nothing but the
\* order events are shown in reads when they were stamped, so states that differ
\* in these alone go on alike.
WithoutStamps ==
    LET told(c)  == [i \in 1..Len(history[c]) |-> <<history[c][i].type, history[c][i].draft>>]
        asked(r) == [requests[r] EXCEPT !.since = 0]
    IN <<status, video, drafts, noted, [c \in Contents |-> told(c)], today,
         [r \in Requests |-> asked(r)], draftDay>>
=============================================================================
