---------------------------- MODULE ListAddress ----------------------------
(***************************************************************************)
(* A list page and its address.  The filters, the tab, the sort and the    *)
(* page number live only in the query string, and several controls that    *)
(* do not know each other rewrite it: a filter bar with a search box, a    *)
(* tab bar, a sort header, a detail panel that names its content there.    *)
(* The address lags behind by a server render, so the controls share one   *)
(* record of what was last sent and build the next change on that.         *)
(*                                                                         *)
(* The router is external: it has navigations under way.  A newer one      *)
(* overtakes the older ones, except that the one sent just before it may   *)
(* still land, late.  A query is its checked values; the order in which    *)
(* a query string spells them is left out, and of the pick filters one is  *)
(* kept, the status, which is the one a tab change drops.                  *)
(***************************************************************************)
EXTENDS Naturals, Sequences

CONSTANTS
    Pages,      \* the list pages there are, out of ListPages
    Words,      \* what a search can be for
    Blank,      \* a search made only of spaces
    NoQuery,    \* what is held when nothing is ahead of the address
    MaxPresses, \* bound: how often the visitor acts on one page
    MaxBehind   \* bound: how many entries of the page Back can walk through

ListPages == {"plan", "tasks", "roster", "invoices", "detail"}

ASSUME ListAddressAssumption ==
    /\ Pages \subseteq ListPages
    /\ Blank \notin Words
    /\ "" \notin Words \cup {Blank}
    /\ MaxPresses \in Nat
    /\ MaxBehind \in Nat

VARIABLES
    page,       \* the list page that is open
    bar,        \* the address, what is held ahead of it and what is under way
    behind,     \* the queries of the page's earlier entries in the browser history
    box,        \* the search box and the search it last sent
    panelOpen,  \* whether a content's detail panel is open
    asked,      \* for the properties: what the visitor has asked for
    presses     \* how often the visitor has acted

addressVars == <<page, bar, behind, box, panelOpen, asked, presses>>

-----------------------------------------------------------------------------
(* A query.  kept is what no filter reset touches: Task Saya's calendar    *)
(* view, Creator Detail's contract.                                        *)

Searches == Words \cup {""}

Query == [tab : {"all", "done"}, q : Searches, status : {"all", "picked"},
          sort : {"default", "flipped"}, page : 1..2, kept : BOOLEAN,
          content : BOOLEAN]

\* null, to the code: no query at all.
ASSUME QueryAssumption == NoQuery \notin Query

BareQuery == [tab |-> "all", q |-> "", status |-> "all", sort |-> "default",
              page |-> 1, kept |-> FALSE, content |-> FALSE]

\* What each page has.  order: what its sort header turns over, and what it
\* builds on: the query last sent, that query with the order on show, or only
\* what is on show.  kept: whether something outlives a reset.  links: whether
\* the open panel is written into the address.
PlanPage    == [tabs |-> TRUE, order |-> "sent", kept |-> FALSE, links |-> TRUE]
TasksPage   == [tabs |-> TRUE, order |-> "sent", kept |-> TRUE, links |-> TRUE]
RosterPage  == [tabs |-> FALSE, order |-> "none", kept |-> FALSE, links |-> FALSE]
InvoicePage == [tabs |-> FALSE, order |-> "shown order", kept |-> FALSE, links |-> FALSE]
DetailPage  == [tabs |-> TRUE, order |-> "shown", kept |-> TRUE, links |-> FALSE]

Controls ==
    [plan |-> PlanPage, tasks |-> TasksPage, roster |-> RosterPage,
     invoices |-> InvoicePage, detail |-> DetailPage][page]

-----------------------------------------------------------------------------
(* What each control makes of a query.                                     *)

WithSearch(s, u) == [u EXCEPT !.q = IF s = Blank THEN "" ELSE s, !.page = 1]

WithStatus(s, u) == [u EXCEPT !.status = s, !.page = 1]

\* Read as the page's checked state and written back: what the page does not
\* know, the panel's link among it, is gone.
Rebuilt(u) == [u EXCEPT !.content = FALSE]

\* The tab's contract: the search carries over; the status picks, the sort and
\* the page belong to the tab that was left.
AfterTabChange(t, u) ==
    [Rebuilt(u) EXCEPT !.tab = t, !.status = "all", !.sort = "default", !.page = 1]

Turned(order) == IF order = "default" THEN "flipped" ELSE "default"

SortedBy(order, u) == [u EXCEPT !.sort = order, !.page = 1]

Flipped(u) == SortedBy(Turned(u.sort), u)

\* What is left of the address once every filter is gone.
Unfiltered(u) == [BareQuery EXCEPT !.tab = u.tab, !.kept = u.kept]

WithLink(u)    == [u EXCEPT !.content = TRUE]
WithoutLink(u) == [u EXCEPT !.content = FALSE]

-----------------------------------------------------------------------------
(* The shared record.  bar.address is also what the record last saw of it: *)
(* the effect that reads it runs with every move of the address.           *)

LatestQuery_Address(b) == b.address

LatestQuery(b) == IF b.held = NoQuery THEN b.address ELSE b.held

Navigation(u, by) == [query |-> u, by |-> by]

\* External: a newer navigation overtakes all but the last one sent.
UnderWay(going, n) ==
    IF going = <<>> THEN <<n>> ELSE <<going[Len(going)], n>>

ReplaceQuery(b, u, by) ==
    LET ahead == u # b.address IN
    [address |-> b.address,
     held |-> IF ahead THEN u ELSE NoQuery,
     onTheirWay |-> IF ahead THEN Append(b.onTheirWay, u) ELSE <<>>,
     going |-> UnderWay(b.going, Navigation(u, by))]

\* Straight into the address; it makes the router drop what it overtakes.
ReplaceQuietly(b, u) ==
    IF b.held # NoQuery
    THEN ReplaceQuery(b, u, "panel")
    ELSE [b EXCEPT !.address = u, !.going = <<>>]

\* The newest change landing is taken for one more of the page's own.
Landed_KeepsHeld(b, u) ==
    LET older == {i \in 1..Len(b.onTheirWay) : b.onTheirWay[i] = u}
        last  == CHOOSE i \in older : \A j \in older : j <= i
    IN
    IF u = b.address THEN b
    ELSE IF older # {}
         THEN [b EXCEPT !.address = u,
                        !.onTheirWay = SubSeq(@, last + 1, Len(@))]
         ELSE [b EXCEPT !.address = u, !.onTheirWay = <<>>, !.held = NoQuery]

\* The record after the address moved to u.
Landed(b, u) ==
    LET older == {i \in 1..Len(b.onTheirWay) : b.onTheirWay[i] = u}
        last  == CHOOSE i \in older : \A j \in older : j <= i
    IN
    IF u = b.address THEN b
    ELSE IF b.held # NoQuery /\ u # b.held /\ older # {}
         THEN [b EXCEPT !.address = u,
                        !.onTheirWay = SubSeq(@, last + 1, Len(@))]
         ELSE [b EXCEPT !.address = u, !.onTheirWay = <<>>, !.held = NoQuery]

\* The board's effect, when the content the address links to has changed.
Relinked(b, old) ==
    IF /\ Controls.links
       /\ panelOpen
       /\ b.address.content # old.content
       /\ ~LatestQuery(b).content
    THEN ReplaceQuietly(b, WithLink(LatestQuery(b)))
    ELSE b

\* The box keeps what was typed into it.
BoxFollows_Never(old, new) == box' = box

\* The box follows a search the address changed on its own.
BoxFollows(old, new) ==
    box' = IF new.q # old.q /\ new.q # box.lastSent
           THEN [search |-> new.q, lastSent |-> new.q]
           ELSE box

\* The address moves: the record, the panel's link and the box follow.
AddressMoves(b, u) ==
    /\ bar' = Relinked(Landed(b, u), b.address)
    /\ BoxFollows(b.address, u)

-----------------------------------------------------------------------------
(* For the properties: wanted is what the visitor's presses come to since  *)
(* the page last followed somebody else; crossed says that one of the      *)
(* page's own navigations was overtaken by a link, by Back or by an empty  *)
(* list's reset, or that a press went back to what the address shows while *)
(* another was under way.                                                  *)

Own(n) == n.by # "link"

Wants(fn(_), b) ==
    asked' = [wanted |-> fn(asked.wanted),
              crossed |-> asked.crossed
                 \/ (fn(LatestQuery(b)) = b.address /\ b.going # <<>>)]

Press ==
    /\ presses < MaxPresses
    /\ presses' = presses + 1

-----------------------------------------------------------------------------
(* The controls.  The panel is modal: while it is open only its own close  *)
(* can be pressed, but a search typed before can still be sent.            *)

Type(s) ==
    /\ Press
    /\ ~panelOpen
    /\ s # box.search
    /\ box' = [box EXCEPT !.search = s]
    /\ UNCHANGED <<page, bar, behind, panelOpen, asked>>

\* The pause in typing has lasted SEARCH_DEBOUNCE_MS.
SearchPauses ==
    LET fn(u) == WithSearch(box.search, u) IN
    /\ box.search # box.lastSent
    /\ box' = [box EXCEPT !.lastSent = box.search]
    /\ bar' = ReplaceQuery(bar, fn(LatestQuery(bar)), "bar")
    /\ Wants(fn, bar)
    /\ UNCHANGED <<page, behind, panelOpen, presses>>

PickStatus(s) ==
    LET fn(u) == WithStatus(s, u) IN
    /\ Press
    /\ ~panelOpen
    /\ s # LatestQuery(bar).status
    /\ bar' = ReplaceQuery(bar, fn(LatestQuery(bar)), "bar")
    /\ Wants(fn, bar)
    /\ UNCHANGED <<page, behind, box, panelOpen>>

SelectTab(t) ==
    LET fn(u) == AfterTabChange(t, u) IN
    /\ Press
    /\ Controls.tabs
    /\ ~panelOpen
    /\ bar' = ReplaceQuery(bar, fn(LatestQuery(bar)), "tab")
    /\ Wants(fn, bar)
    /\ UNCHANGED <<page, behind, box, panelOpen>>

ToggleSort ==
    LET sent  == LatestQuery(bar)
        shown == bar.address
        next  == CASE Controls.order = "sent"        -> Flipped(sent)
                   [] Controls.order = "shown order" -> SortedBy(Turned(shown.sort), sent)
                   [] Controls.order = "shown"       -> Flipped(shown)
    IN
    /\ Controls.order # "none"
    /\ Press
    /\ ~panelOpen
    /\ bar' = ReplaceQuery(bar, next, "sort")
    /\ Wants(Flipped, bar)
    /\ UNCHANGED <<page, behind, box, panelOpen>>

\* The bar's Reset, held while a change of the bar is on its way.  It keeps the
\* tab it was pressed on: the one on show.
Reset ==
    LET fn(u) == Unfiltered(bar.address) IN
    /\ Press
    /\ ~panelOpen
    /\ \A i \in 1..Len(bar.going) : bar.going[i].by # "bar"
    /\ box' = [search |-> "", lastSent |-> ""]
    /\ bar' = ReplaceQuery(bar, fn(LatestQuery(bar)), "bar")
    /\ Wants(fn, bar)
    /\ UNCHANGED <<page, behind, panelOpen>>

IsFiltered(u) == u.q # "" \/ u.status # "all"

\* The way back an empty list offers, when the filters on show matched nothing.
\* It does not reach the search box, which lets go of its search only when the
\* address moves off it.  A month has no such offer.
ResetEmpty ==
    LET fn(u) == Unfiltered(bar.address) IN
    /\ Press
    /\ ~panelOpen
    /\ IsFiltered(bar.address)
    /\ page = "tasks" => ~bar.address.kept
    /\ bar' = ReplaceQuery(bar, fn(LatestQuery(bar)), "board")
    /\ asked' = [wanted |-> fn(asked.wanted),
                 crossed |-> asked.crossed \/ bar.going # <<>>]
    /\ UNCHANGED <<page, behind, box, panelOpen>>

\* The panel's content goes into the address as it opens.
OpenPanel ==
    LET sent == ReplaceQuietly(bar, WithLink(LatestQuery(bar))) IN
    /\ Press
    /\ ~panelOpen
    /\ panelOpen' = TRUE
    /\ IF Controls.links /\ ~LatestQuery(bar).content
       THEN bar' = sent /\ Wants(WithLink, bar)
       ELSE UNCHANGED <<bar, asked>>
    /\ UNCHANGED <<page, behind, box>>

ClosePanel ==
    /\ Press
    /\ panelOpen
    /\ panelOpen' = FALSE
    /\ IF Controls.links
       THEN /\ bar' = ReplaceQuietly(bar, WithoutLink(LatestQuery(bar)))
            /\ Wants(WithoutLink, bar)
       ELSE UNCHANGED <<bar, asked>>
    /\ UNCHANGED <<page, behind, box>>

-----------------------------------------------------------------------------
(* The address moves.                                                      *)

\* Where the page's links lead, built on the query the server rendered: another
\* page of the list (a month has none), Task Saya's other view, or another
\* contract, which opens unfiltered.
PageLinks(u) == {[Rebuilt(u) EXCEPT !.page = 3 - u.page]}

ViewLinks(u) == {[Rebuilt(u) EXCEPT !.page = 1, !.kept = ~u.kept]}

PeriodLinks(u) == {[BareQuery EXCEPT !.kept = ~u.kept]}

LinkTargets ==
    LET shown == bar.address IN
    CASE page = "tasks" /\ shown.kept  -> ViewLinks(shown)
      [] page = "tasks" /\ ~shown.kept -> ViewLinks(shown) \cup PageLinks(shown)
      [] page = "detail"               -> PeriodLinks(shown) \cup PageLinks(shown)
      [] OTHER                         -> PageLinks(shown)

\* A press on a link: one more navigation under way, and not the record's.
FollowLink(u) ==
    /\ Press
    /\ ~panelOpen
    /\ bar' = [bar EXCEPT !.going = UnderWay(@, Navigation(u, "link"))]
    /\ asked' = [asked EXCEPT !.crossed = @ \/ bar.going # <<>>]
    /\ UNCHANGED <<page, behind, box, panelOpen>>

\* A navigation lands, and those sent before it never will.
Land(i) ==
    LET n    == bar.going[i]
        left == [bar EXCEPT !.going = SubSeq(@, i + 1, Len(@))]
    IN
    /\ AddressMoves(left, n.query)
    /\ IF Own(n)
       THEN UNCHANGED <<behind, asked>>
       ELSE /\ behind' = IF Len(behind) < MaxBehind
                         THEN Append(behind, bar.address) ELSE behind
            /\ asked' = [wanted |-> IF i = Len(bar.going)
                                    THEN LatestQuery(bar') ELSE asked.wanted,
                         crossed |-> asked.crossed \/ i < Len(bar.going)]
    /\ UNCHANGED <<page, panelOpen, presses>>

\* Back, to an earlier entry of the page: at once, and nothing under way lands.
GoBack ==
    LET to   == behind[Len(behind)]
        left == [bar EXCEPT !.going = <<>>]
    IN
    /\ Press
    /\ behind # <<>>
    /\ behind' = SubSeq(behind, 1, Len(behind) - 1)
    /\ AddressMoves(left, to)
    /\ asked' = [wanted |-> LatestQuery(bar'),
                 crossed |-> asked.crossed \/ bar.going # <<>>]
    /\ UNCHANGED <<page, panelOpen>>

-----------------------------------------------------------------------------

\* A page opens on an address: nothing is on record from the page before.
AddressInit ==
    /\ page \in Pages
    /\ \E u \in {BareQuery, WithLink(BareQuery)} \cup
                {[BareQuery EXCEPT !.q = w, !.page = 2] : w \in Words} :
         /\ u.content => Controls.links
         /\ bar = [address |-> u, held |-> NoQuery, onTheirWay |-> <<>>,
                   going |-> <<>>]
         /\ box = [search |-> u.q, lastSent |-> u.q]
         /\ panelOpen = u.content
         /\ asked = [wanted |-> u, crossed |-> FALSE]
    /\ behind = <<>>
    /\ presses = 0

Acts ==
    \/ \E s \in Searches \cup {Blank} : Type(s)
    \/ \E s \in {"all", "picked"} : PickStatus(s)
    \/ \E t \in {"all", "done"} : SelectTab(t)
    \/ ToggleSort
    \/ Reset
    \/ ResetEmpty
    \/ OpenPanel
    \/ ClosePanel
    \/ \E u \in LinkTargets : FollowLink(u)
    \/ GoBack

AddressNext ==
    \/ Acts
    \/ SearchPauses
    \/ \E i \in 1..Len(bar.going) : Land(i)

AddressSpec == AddressInit /\ [][AddressNext]_addressVars

\* Only landing ends what a press began.
Router == \E i \in 1..Len(bar.going) : Land(i)

FairSpec == AddressSpec /\ WF_addressVars(Router) /\ WF_addressVars(SearchPauses)
-----------------------------------------------------------------------------
(* Properties.                                                             *)

AtRest == bar.going = <<>>

Bars == [address : Query, held : Query \cup {NoQuery},
         onTheirWay : Seq(Query),
         going : Seq([query : Query, by : {"bar", "tab", "sort", "panel", "board", "link"}])]

\* The variables hold what the page can hold.
AddressTypeOK ==
    /\ page \in Pages
    /\ bar \in Bars
    /\ Len(bar.going) <= 2
    /\ behind \in Seq(Query)
    /\ box \in [search : Searches \cup {Blank}, lastSent : Searches \cup {Blank}]
    /\ panelOpen \in BOOLEAN
    /\ asked \in [wanted : Query, crossed : BOOLEAN]
    /\ presses \in 0..MaxPresses

\* "each change builds on the one before, whoever made it" (url-query.ts): what
\* the next change builds on is what all presses so far come to, however many
\* of them the address still has to show and in whatever order they land.
ChangesAddUp == ~asked.crossed => LatestQuery(bar) = asked.wanted

\* Once nothing is under way the controls are not ahead of the address any more,
\* and the address shows everything that was asked for (url-query.ts, "null once
\* the two agree").
AgreesAtRest ==
    AtRest /\ ~asked.crossed =>
        /\ bar.held = NoQuery
        /\ bar.onTheirWay = <<>>
        /\ bar.address = asked.wanted

\* Once nothing is under way and the pause is over, the list is searched for
\* what the box shows (use-url-filters.ts).
BoxShowsTheSearch ==
    AtRest /\ ~asked.crossed /\ box.search = box.lastSent =>
        bar.address.q = IF box.search = Blank THEN "" ELSE box.search

\* The address names the open panel's content for as long as it is open, after
\* Back too, and no content once it is closed (my-task-board.tsx).
LinkNamesThePanel ==
    AtRest /\ Controls.links /\ ~asked.crossed => bar.address.content = panelOpen

\* Whatever is held ahead of the address is given up in the end, by landing or
\* because the address went elsewhere (the settling effect of useUrlQuery).
HeldIsLetGo ==
    bar.held # NoQuery /\ ~asked.crossed
        ~> bar.held = NoQuery \/ asked.crossed

\* With nothing under way the address, the box, the controls and the panel's
\* link say the same.
ControlsAgree ==
    /\ AddressTypeOK
    /\ AgreesAtRest
    /\ BoxShowsTheSearch
    /\ LinkNamesThePanel
=============================================================================
