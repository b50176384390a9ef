------------------------- MODULE ContentReviewProofs -------------------------
(***************************************************************************)
(* Proofs about ContentReview and ContentViews, for any contents,          *)
(* deadlines, request slots, periods and bounds.                           *)
(***************************************************************************)
EXTENDS ContentViews, FiniteSetTheorems, TLAPS

-----------------------------------------------------------------------------
(* Sequences.                                                              *)

\* Appending keeps what was there and adds one element at the end.
LEMMA AppendFacts ==
    ASSUME NEW S, NEW s \in Seq(S), NEW e \in S
    PROVE  /\ Append(s, e) \in Seq(S)
           /\ Len(Append(s, e)) = Len(s) + 1
           /\ \A i \in 1..Len(s) : Append(s, e)[i] = s[i]
           /\ Append(s, e)[Len(s) + 1] = e
           /\ Append(s, e) # <<>>
    OBVIOUS

-----------------------------------------------------------------------------
(* Types.                                                                  *)

LEMMA StatusFacts ==
    /\ CONTENT_STATUSES \subseteq RowStatuses
    /\ COMMITTED_STATUSES \subseteq CONTENT_STATUSES
    /\ REVIEWABLE_STATUSES \subseteq COMMITTED_STATUSES
    /\ \A t \in EventTypes : ResultOf[t] \in COMMITTED_STATUSES
    BY DEF CONTENT_STATUSES, COMMITTED_STATUSES, REVIEWABLE_STATUSES,
           RowStatuses, EventTypes, ResultOf

LEMMA EventFacts ==
    ASSUME NEW t \in EventTypes, NEW d \in Nat, NEW n \in Nat
    PROVE  Event(t, d, n) \in Events /\ Event(t, d, n).type = t
    BY DEF Event, Events

\* A guarded move of one row keeps the rows and the histories well typed.
LEMMA MovesType ==
    ASSUME TypeOK, NEW c \in Contents, NEW from, NEW e \in Events,
           Moves(c, from, e)
    PROVE  /\ status' \in [Contents -> RowStatuses]
           /\ history' \in [Contents -> Seq(Events)]
    <1>1. ResultOf[e.type] \in RowStatuses
      BY StatusFacts DEF Events
    <1>2. Append(history[c], e) \in Seq(Events)
      BY AppendFacts DEF TypeOK
    <1>. QED  BY <1>1, <1>2 DEF TypeOK, Moves

LEMMA FinishType ==
    ASSUME TypeOK, NEW r \in Requests, Finish(r)
    PROVE  requests' \in [Requests -> RequestStates \cup {Idle}]
    BY DEF TypeOK, Finish

LEMMA ProceedType ==
    ASSUME TypeOK, NEW r \in Requests, NEW seen \in RowStatuses,
           requests[r].phase # "idle", Proceed(r, seen)
    PROVE  requests' \in [Requests -> RequestStates \cup {Idle}]
    <1>1. requests[r] \in RequestStates
      BY DEF TypeOK, Idle
    <1>2. [requests[r] EXCEPT !.phase = "read", !.seen = seen] \in RequestStates
      BY <1>1 DEF RequestStates
    <1>. QED  BY <1>2 DEF TypeOK, Proceed

\* A slot in flight holds a request on an existing content.
LEMMA InFlightType ==
    ASSUME TypeOK, NEW r \in Requests, NEW kind, NEW phase,
           InFlight(r, kind, phase), phase # "idle"
    PROVE  /\ requests[r] \in RequestStates
           /\ requests[r].content \in Contents
           /\ requests[r].draft \in Nat
           /\ requests[r].since \in Nat
           /\ requests[r].day \in Days
           /\ requests[r].clock \in Days
    BY DEF TypeOK, InFlight, RequestStates, Idle

LEMMA ScheduleDueType ==
    ASSUME TypeOK, ScheduleDue
    PROVE  /\ status' \in [Contents -> RowStatuses]
           /\ history' \in [Contents -> Seq(Events)]
    <1>1. ASSUME NEW c \in Contents
          PROVE  Append(history[c], Event("Auto Scheduled", 0, Len(history[c])))
                    \in Seq(Events)
      <2>1. history[c] \in Seq(Events) /\ Len(history[c]) \in Nat
        BY DEF TypeOK
      <2>2. "Auto Scheduled" \in EventTypes
        BY DEF EventTypes, ResultOf
      <2>. QED  BY <2>1, <2>2, EventFacts, AppendFacts
    <1>2. status' \in [Contents -> RowStatuses]
      BY DEF TypeOK, ScheduleDue, RowStatuses, CONTENT_STATUSES
    <1>3. history' \in [Contents -> Seq(Events)]
      BY <1>1 DEF TypeOK, ScheduleDue
    <1>. QED  BY <1>2, <1>3

LEMMA InitType == Init => TypeOK
    <1>1. CONTENT_STATUSES \cup {"absent", "removed"} = RowStatuses
      BY DEF RowStatuses
    <1>2. NoVideo \in [handedIn : Days \cup {NoDay}, bypassed : BOOLEAN]
      BY DEF NoVideo
    <1>3. 0 \in Days
      BY ContentReviewAssumption DEF Days
    <1>4. \A c \in Contents : <<>> \in Seq(Events)
      OBVIOUS
    <1>5. {"absent", "pending"} \subseteq RowStatuses
      BY DEF RowStatuses, CONTENT_STATUSES
    <1>. QED  BY <1>2, <1>3, <1>4, <1>5 DEF Init, TypeOK

LEMMA ArriveType ==
    ASSUME TypeOK, NEW r \in Requests, NEW c \in Contents, NEW kind \in Kinds,
           NEW d \in Nat, Arrive(r, kind, c, d)
    PROVE  TypeOK'
    <1>1. ScheduleDue
      BY DEF Arrive
    <1>2. /\ status' \in [Contents -> RowStatuses]
          /\ history' \in [Contents -> Seq(Events)]
      BY <1>1, ScheduleDueType
    <1>. DEFINE q == [kind |-> kind, phase |-> "arrived", content |-> c,
                      draft |-> d, seen |-> "absent", day |-> today,
                      clock |-> 0, since |-> 0]
    <1>4. 0 \in Nat /\ 0 \in Days
      BY ContentReviewAssumption DEF Days
    <1>5. q \in RequestStates
      BY <1>4 DEF RequestStates, RowStatuses, TypeOK
    <1>6. requests' = [requests EXCEPT ![r] = q]
      BY DEF Arrive
    <1>7. requests' \in [Requests -> RequestStates \cup {Idle}]
      BY <1>5, <1>6 DEF TypeOK
    <1>. QED  BY <1>1, <1>2, <1>7 DEF TypeOK, Arrive, ScheduleDue

LEMMA BeginType ==
    ASSUME TypeOK, NEW r \in Requests, Begin(r)
    PROVE  TypeOK'
    <1>1. CASE \E c \in Contents, kind \in Kinds \ Decisions :
                 Arrive(r, kind, c, 0)
      BY <1>1, ArriveType
    <1>2. CASE \E c \in Contents, kind \in Decisions :
                 \E d \in 1..drafts[c] : Arrive(r, kind, c, d)
      <2>1. PICK c \in Contents, kind \in Decisions :
              \E d \in 1..drafts[c] : Arrive(r, kind, c, d)
        BY <1>2
      <2>2. PICK d \in 1..drafts[c] : Arrive(r, kind, c, d)
        BY <2>1
      <2>3. d \in Nat /\ kind \in Kinds
        BY DEF TypeOK, Kinds
      <2>. QED  BY <2>2, <2>3, ArriveType
    <1>. QED  BY <1>1, <1>2 DEF Begin

\* The moves of one row, one step of a request each.
LEMMA StepType ==
    ASSUME TypeOK, NEW r \in Requests, Step(r)
    PROVE  TypeOK'
    <1>. DEFINE c == requests[r].content
                d == requests[r].draft
                seen == requests[r].seen
                n == Len(history[c])
    <1>0. \A x \in Contents : Len(history[x]) \in Nat
      BY DEF TypeOK
    <1>1. CASE Create(r)
      <2>1. c \in Contents
        BY <1>1, InFlightType DEF Create
      <2>2. Event("Scheduled", 0, 0) \in Events
        BY EventFacts DEF EventTypes, ResultOf
      <2>3. /\ status' \in [Contents -> RowStatuses]
            /\ history' \in [Contents -> Seq(Events)]
        BY <1>1, <2>1, <2>2, MovesType DEF Create
      <2>. QED  BY <1>1, <2>3, FinishType DEF Create, TypeOK
    <1>2. CASE ApproveProposal(r)
      <2>1. c \in Contents
        BY <1>2, InFlightType DEF ApproveProposal
      <2>2. Event("Proposal Approved", 0, n) \in Events
        BY <1>0, <2>1, EventFacts DEF EventTypes, ResultOf
      <2>3. /\ status' \in [Contents -> RowStatuses]
            /\ history' \in [Contents -> Seq(Events)]
        BY <1>2, <2>1, <2>2, MovesType DEF ApproveProposal
      <2>. QED  BY <1>2, <2>3, FinishType DEF ApproveProposal, TypeOK
    <1>3. CASE ReadProposal(r)
      <2>1. c \in Contents /\ status[c] \in RowStatuses
        BY <1>3, InFlightType DEF ReadProposal, TypeOK
      <2>2. requests' \in [Requests -> RequestStates \cup {Idle}]
        BY <1>3, <2>1, ProceedType DEF ReadProposal, InFlight
      <2>. QED  BY <1>3, <2>2 DEF ReadProposal, contentVars, TypeOK
    <1>4. CASE RejectProposal(r)
      <2>1. c \in Contents
        BY <1>4, InFlightType DEF RejectProposal
      <2>2. "removed" \in RowStatuses /\ NoVideo \in
              [handedIn : Days \cup {NoDay}, bypassed : BOOLEAN]
        BY DEF RowStatuses, NoVideo
      <2>3. <<>> \in Seq(Events)
        OBVIOUS
      <2>. QED
        BY <1>4, <2>1, <2>2, <2>3, FinishType DEF RejectProposal, Discard, TypeOK
    <1>5. CASE ReadForDraft(r)
      <2>1. c \in Contents /\ status[c] \in RowStatuses
        BY <1>5, InFlightType DEF ReadForDraft, TypeOK
      <2>2. requests' \in [Requests -> RequestStates \cup {Idle}]
        BY <1>5, <2>1, ProceedType DEF ReadForDraft, InFlight
      <2>. QED  BY <1>5, <2>2 DEF ReadForDraft, contentVars, TypeOK
    <1>6. CASE SubmitDraft(r)
      <2>1. c \in Contents
        BY <1>6, InFlightType DEF SubmitDraft
      <2>2. drafts[c] + 1 \in Nat /\ n \in Nat
        BY <1>0, <2>1 DEF TypeOK
      <2>3. "Draft Submitted" \in EventTypes
        BY DEF EventTypes, ResultOf
      <2>4. Event("Draft Submitted", drafts[c] + 1, n) \in Events
        BY <2>2, <2>3, EventFacts
      <2>5. /\ status' \in [Contents -> RowStatuses]
            /\ history' \in [Contents -> Seq(Events)]
        BY <1>6, <2>1, <2>4, MovesType DEF SubmitDraft
      <2>6. drafts' \in [Contents -> Nat]
        BY <1>6, <2>1, <2>2 DEF SubmitDraft, TypeOK
      <2>7. requests' \in [Requests -> RequestStates \cup {Idle}]
        BY <1>6, FinishType DEF SubmitDraft
      <2>. QED  BY <1>6, <2>5, <2>6, <2>7 DEF SubmitDraft, TypeOK
    <1>t. CASE TakeTheTime(r)
      <2>. DEFINE p == [requests[r] EXCEPT !.phase = "timed", !.clock = today, !.since = n]
      <2>1. c \in Contents /\ n \in Nat /\ today \in Days /\ requests[r] \in RequestStates
        BY <1>0, <1>t, InFlightType DEF TakeTheTime, TypeOK
      <2>2. p \in RequestStates
        BY <2>1 DEF RequestStates
      <2>3. requests' = [requests EXCEPT ![r] = p]
        BY <1>t DEF TakeTheTime
      <2>. HIDE DEF p
      <2>4. requests' \in [Requests -> RequestStates \cup {Idle}]
        BY <2>2, <2>3 DEF TypeOK
      <2>. QED  BY <1>t, <2>4 DEF TakeTheTime, contentVars, TypeOK
    <1>7. CASE ReadForVideo(r)
      <2>1. c \in Contents /\ status[c] \in RowStatuses
        BY <1>7, InFlightType DEF ReadForVideo, TypeOK
      <2>2. requests' \in [Requests -> RequestStates \cup {Idle}]
        BY <1>7, <2>1, ProceedType DEF ReadForVideo, InFlight
      <2>. QED  BY <1>7, <2>2 DEF ReadForVideo, contentVars, TypeOK
    <1>8. CASE SubmitVideo(r)
      <2>1. c \in Contents /\ requests[r].since \in Nat /\ requests[r].clock \in Days
        BY <1>8, InFlightType DEF SubmitVideo
      <2>2. Event("Link Submitted", 0, requests[r].since) \in Events
        BY <2>1, EventFacts DEF EventTypes, ResultOf
      <2>3. /\ status' \in [Contents -> RowStatuses]
            /\ history' \in [Contents -> Seq(Events)]
        BY <1>8, <2>1, <2>2, MovesType DEF SubmitVideo
      <2>. QED  BY <1>8, <2>1, <2>3, FinishType DEF SubmitVideo, TypeOK
    <1>9. CASE \E kind \in Decisions : FindUnderReview(r, kind)
      <2>1. PICK kind \in Decisions : FindUnderReview(r, kind)
        BY <1>9
      <2>2. c \in Contents /\ status[c] \in RowStatuses
        BY <2>1, InFlightType DEF FindUnderReview, TypeOK
      <2>3. requests' \in [Requests -> RequestStates \cup {Idle}]
        BY <2>1, <2>2, ProceedType DEF FindUnderReview, InFlight
      <2>. QED  BY <2>1, <2>3 DEF FindUnderReview, contentVars, TypeOK
    <1>10. CASE ApproveDraft(r)
      <2>1. c \in Contents /\ d \in Nat
        BY <1>10, InFlightType DEF ApproveDraft
      <2>2. Event("Draft Approved", d, n) \in Events
        BY <1>0, <2>1, EventFacts DEF EventTypes, ResultOf
      <2>3. /\ status' \in [Contents -> RowStatuses]
            /\ history' \in [Contents -> Seq(Events)]
        BY <1>10, <2>1, <2>2, MovesType DEF ApproveDraft
      <2>. QED  BY <1>10, <2>3, FinishType DEF ApproveDraft, TypeOK
    <1>11. CASE RequestRevision(r)
      <2>1. c \in Contents /\ d \in Nat
        BY <1>11, InFlightType DEF RequestRevision
      <2>2. Event("Revision Requested", d, n) \in Events
        BY <1>0, <2>1, EventFacts DEF EventTypes, ResultOf
      <2>3. /\ status' \in [Contents -> RowStatuses]
            /\ history' \in [Contents -> Seq(Events)]
        BY <1>11, <2>1, <2>2, MovesType DEF RequestRevision
      <2>. QED  BY <1>11, <2>1, <2>3, FinishType DEF RequestRevision, TypeOK
    <1>12. CASE GiveUp(r)
      BY <1>12, FinishType DEF GiveUp, contentVars, TypeOK
    <1>. QED
      BY <1>1, <1>2, <1>3, <1>4, <1>5, <1>6, <1>7, <1>8, <1>9, <1>10, <1>11,
         <1>12, <1>t DEF Step

LEMMA NextType == TypeOK /\ [Next]_vars => TypeOK'
    <1>. SUFFICES ASSUME TypeOK, [Next]_vars
                  PROVE  TypeOK'
      OBVIOUS
    <1>1. CASE \E r \in Requests : Begin(r)
      BY <1>1, BeginType
    <1>2. CASE \E r \in Requests : Step(r)
      BY <1>2, StepType
    <1>3. CASE \E c \in Contents : AddComment(c)
      BY <1>3 DEF AddComment, TypeOK
    <1>4. CASE ReadOnlyRequest
      BY <1>4, ScheduleDueType DEF ReadOnlyRequest, ScheduleDue, TypeOK
    <1>5. CASE DayPasses
      BY <1>5, ContentReviewAssumption DEF DayPasses, contentVars, TypeOK, Days
    <1>6. CASE UNCHANGED vars
      BY <1>6 DEF vars, contentVars, TypeOK
    <1>. QED  BY <1>1, <1>2, <1>3, <1>4, <1>5, <1>6 DEF Next

\* Rows and requests only ever hold what the code can store.
THEOREM TypeCorrect == Spec => []TypeOK
    BY InitType, NextType, PTL DEF Spec

-----------------------------------------------------------------------------
(* The history tells the status.                                           *)

\* From a status, an event may follow: the content is scheduled, or it moves
\* along an arrow of the lifecycle.
MayFollow(s, e) ==
    \/ s \in {"absent", "pending"} /\ ResultOf[e.type] = "scheduled"
    \/ s \in COMMITTED_STATUSES /\ CanTransition(s, ResultOf[e.type])

\* A walk that is extended by an event that may follow is a walk.
LEMMA WalkStep ==
    ASSUME NEW h \in Seq(Events), NEW s, NEW e \in Events,
           IsWalkTo(h, s), MayFollow(s, e)
    PROVE  IsWalkTo(Append(h, e), ResultOf[e.type])
    <1>. DEFINE g == Append(h, e)
                t == ResultOf[e.type]
    <1>1. /\ g \in Seq(Events)
          /\ Len(g) = Len(h) + 1
          /\ \A i \in 1..Len(h) : g[i] = h[i]
          /\ g[Len(h) + 1] = e
          /\ g # <<>>
      BY AppendFacts
    <1>2. Len(h) \in Nat /\ (h = <<>> <=> Len(h) = 0)
      OBVIOUS
    <1>3. t \in COMMITTED_STATUSES
      BY StatusFacts DEF Events
    <1>4. t \notin {"absent", "pending", "removed"}
      BY <1>3 DEF COMMITTED_STATUSES, CONTENT_STATUSES
    <1>5. CASE h = <<>>
      <2>1. s \in {"absent", "pending", "removed"}
        BY <1>5 DEF IsWalkTo
      <2>2. t = "scheduled"
        BY <2>1 DEF MayFollow, COMMITTED_STATUSES, CONTENT_STATUSES
      <2>3. Len(g) = 1 /\ g[1] = e
        BY <1>1, <1>2, <1>5
      <2>. HIDE DEF g, t
      <2>4. g[1].type = e.type /\ ResultOf[g[1].type] = t
        BY <2>3 DEF t
      <2>. QED  BY <1>1, <1>4, <2>2, <2>3, <2>4 DEF IsWalkTo
    <1>6. CASE h # <<>>
      <2>1. /\ s \notin {"absent", "pending", "removed"}
            /\ ResultOf[h[1].type] = "scheduled"
            /\ ResultOf[h[Len(h)].type] = s
            /\ \A i \in 1..(Len(h) - 1) :
                 CanTransition(ResultOf[h[i].type], ResultOf[h[i + 1].type])
        BY <1>6 DEF IsWalkTo
      <2>2. CanTransition(s, t)
        BY <2>1 DEF MayFollow
      <2>3. Len(h) >= 1
        BY <1>2, <1>6
      <2>. HIDE DEF g
      <2>4. g[1] = h[1] /\ g[Len(g)] = e /\ g[Len(h)] = h[Len(h)]
        BY <1>1, <1>2, <2>3
      <2>5. ASSUME NEW i \in 1..(Len(g) - 1)
            PROVE  CanTransition(ResultOf[g[i].type], ResultOf[g[i + 1].type])
        <3>1. CASE i = Len(h)
          BY <3>1, <1>1, <2>1, <2>2, <2>4
        <3>2. CASE i # Len(h)
          <4>1. i \in 1..(Len(h) - 1) /\ i \in 1..Len(h) /\ i + 1 \in 1..Len(h)
            BY <1>1, <1>2, <3>2
          <4>2. g[i] = h[i] /\ g[i + 1] = h[i + 1]
            BY <1>1, <4>1
          <4>. QED  BY <2>1, <4>1, <4>2
        <3>. QED  BY <3>1, <3>2
      <2>. QED  BY <1>1, <1>4, <2>1, <2>4, <2>5 DEF IsWalkTo
    <1>. QED  BY <1>5, <1>6

-----------------------------------------------------------------------------
(* Versions.                                                               *)

\* Whatever event is appended, a history that numbers its hand-ins still does,
\* if a hand-in carries the next number.
LEMMA NumbersStep ==
    ASSUME NEW h \in Seq(Events), NEW n \in Nat, NEW e \in Events,
           NumbersHandIns(h, n)
    PROVE  /\ ~IsHandIn(e) => NumbersHandIns(Append(h, e), n)
           /\ IsHandIn(e) /\ e.draft = n + 1
                => NumbersHandIns(Append(h, e), n + 1)
    <1>. DEFINE g == Append(h, e)
    <1>1. /\ Len(g) = Len(h) + 1
          /\ \A i \in 1..Len(h) : g[i] = h[i]
          /\ g[Len(h) + 1] = e
      BY AppendFacts
    <1>2. Len(h) \in Nat
      OBVIOUS
    <1>. HIDE DEF g
    <1>3. ASSUME NEW v \in 1..n
          PROVE  \E i \in 1..Len(g) : IsHandIn(g[i]) /\ g[i].draft = v
      <2>1. PICK i \in 1..Len(h) : IsHandIn(h[i]) /\ h[i].draft = v
        BY DEF NumbersHandIns
      <2>2. i \in 1..Len(g) /\ g[i] = h[i]
        BY <1>1, <1>2
      <2>. QED  BY <2>1, <2>2
    <1>4. ASSUME ~IsHandIn(e)
          PROVE  NumbersHandIns(g, n)
      <2>1. ASSUME NEW i \in 1..Len(g), IsHandIn(g[i])
            PROVE  i \in 1..Len(h) /\ g[i] = h[i]
        BY <1>1, <1>2, <1>4, <2>1
      <2>2. \A i \in 1..Len(g) : IsHandIn(g[i]) => g[i].draft \in 1..n
        BY <2>1 DEF NumbersHandIns
      <2>3. \A i, j \in 1..Len(g) :
              i < j /\ IsHandIn(g[i]) /\ IsHandIn(g[j]) => g[i].draft < g[j].draft
        BY <2>1 DEF NumbersHandIns
      <2>. QED  BY <1>3, <2>2, <2>3 DEF NumbersHandIns
    <1>5. ASSUME IsHandIn(e), e.draft = n + 1
          PROVE  NumbersHandIns(g, n + 1)
      <2>1. ASSUME NEW i \in 1..Len(g)
            PROVE  \/ i \in 1..Len(h) /\ g[i] = h[i]
                   \/ i = Len(h) + 1 /\ g[i] = e
        BY <1>1, <1>2
      <2>2. ASSUME NEW i \in 1..Len(g), IsHandIn(g[i])
            PROVE  g[i].draft \in 1..(n + 1)
        <3>1. CASE i \in 1..Len(h) /\ g[i] = h[i]
          <4>1. g[i].draft \in 1..n
            BY <2>2, <3>1 DEF NumbersHandIns
          <4>. QED  BY <4>1
        <3>2. CASE g[i] = e
          BY <1>5, <3>2
        <3>. QED  BY <2>1, <3>1, <3>2
      <2>3. ASSUME NEW i \in 1..Len(g), NEW j \in 1..Len(g),
                   i < j, IsHandIn(g[i]), IsHandIn(g[j])
            PROVE  g[i].draft < g[j].draft
        <3>1. i \in 1..Len(h) /\ g[i] = h[i]
          BY <1>1, <1>2, <2>1, <2>3
        <3>2. h[i].draft \in 1..n
          BY <2>3, <3>1 DEF NumbersHandIns
        <3>3. CASE j \in 1..Len(h) /\ g[j] = h[j]
          BY <2>3, <3>1, <3>3 DEF NumbersHandIns
        <3>4. CASE g[j] = e
          BY <1>5, <3>1, <3>2, <3>4
        <3>. QED  BY <2>1, <3>3, <3>4
      <2>4. ASSUME NEW v \in 1..(n + 1)
            PROVE  \E i \in 1..Len(g) : IsHandIn(g[i]) /\ g[i].draft = v
        <3>1. CASE v \in 1..n
          BY <1>3, <3>1
        <3>2. CASE v = n + 1
          <4>1. Len(h) + 1 \in 1..Len(g)
            BY <1>1, <1>2
          <4>. QED  BY <1>1, <1>5, <3>2, <4>1
        <3>. QED  BY <3>1, <3>2
      <2>. QED  BY <2>2, <2>3, <2>4 DEF NumbersHandIns
    <1>. QED  BY <1>4, <1>5 DEF g

-----------------------------------------------------------------------------
(* What a move of one row does.                                            *)

LEMMA MovesFacts ==
    ASSUME TypeOK, NEW c \in Contents, NEW from, NEW e \in Events,
           Moves(c, from, e)
    PROVE  /\ status[c] = from
           /\ status'[c] = ResultOf[e.type]
           /\ history'[c] = Append(history[c], e)
           /\ \A x \in Contents : x # c => /\ status'[x] = status[x]
                                           /\ history'[x] = history[x]
    BY DEF TypeOK, Moves

LEMMA MovesWalk ==
    ASSUME TypeOK, HistoryTellsStatus, NEW c \in Contents, NEW from,
           NEW e \in Events, Moves(c, from, e), MayFollow(from, e)
    PROVE  HistoryTellsStatus'
    <1>1. /\ status[c] = from
          /\ status'[c] = ResultOf[e.type]
          /\ history'[c] = Append(history[c], e)
          /\ \A x \in Contents : x # c => /\ status'[x] = status[x]
                                          /\ history'[x] = history[x]
      BY MovesFacts
    <1>2. history[c] \in Seq(Events) /\ IsWalkTo(history[c], from)
      BY <1>1 DEF TypeOK, HistoryTellsStatus
    <1>3. IsWalkTo(Append(history[c], e), ResultOf[e.type])
      BY <1>2, WalkStep
    <1>4. ASSUME NEW x \in Contents
          PROVE  IsWalkTo(history'[x], status'[x])
      BY <1>1, <1>3 DEF HistoryTellsStatus
    <1>. QED  BY <1>4 DEF HistoryTellsStatus, IsWalkTo

\* An approval is in the history after the move if it was before, or if it is
\* the move.
LEMMA ApprovedAfter ==
    ASSUME NEW h \in Seq(Events), NEW e \in Events
    PROVE  (\E i \in 1..Len(Append(h, e)) : Append(h, e)[i].type = "Draft Approved")
             <=> \/ \E i \in 1..Len(h) : h[i].type = "Draft Approved"
                 \/ e.type = "Draft Approved"
    <1>. DEFINE g == Append(h, e)
    <1>1. /\ Len(g) = Len(h) + 1
          /\ \A i \in 1..Len(h) : g[i] = h[i]
          /\ g[Len(h) + 1] = e
      BY AppendFacts
    <1>2. Len(h) \in Nat
      OBVIOUS
    <1>. HIDE DEF g
    <1>3. \A i \in 1..Len(g) : i \in 1..Len(h) \/ i = Len(h) + 1
      BY <1>1, <1>2
    <1>4. Len(h) + 1 \in 1..Len(g) /\ 1..Len(h) \subseteq 1..Len(g)
      BY <1>1, <1>2
    <1>5. (\E i \in 1..Len(g) : g[i].type = "Draft Approved")
             <=> \/ \E i \in 1..Len(h) : h[i].type = "Draft Approved"
                 \/ e.type = "Draft Approved"
      BY <1>1, <1>3, <1>4
    <1>. QED  BY <1>5 DEF g

LEMMA MovesApproved ==
    ASSUME TypeOK, NEW c \in Contents, NEW from, NEW e \in Events,
           Moves(c, from, e), NEW x \in Contents
    PROVE  WasApproved(x)' <=> WasApproved(x) \/ (x = c /\ e.type = "Draft Approved")
    <1>1. CASE x = c
      <2>1. history'[x] = Append(history[x], e) /\ history[x] \in Seq(Events)
        BY <1>1, MovesFacts DEF TypeOK
      <2>2. (\E i \in 1..Len(Append(history[x], e)) :
                Append(history[x], e)[i].type = "Draft Approved")
              <=> \/ \E i \in 1..Len(history[x]) :
                        history[x][i].type = "Draft Approved"
                  \/ e.type = "Draft Approved"
        BY <2>1, ApprovedAfter
      <2>. QED  BY <1>1, <2>1, <2>2 DEF WasApproved
    <1>2. CASE x # c
      BY <1>2, MovesFacts DEF WasApproved
    <1>. QED  BY <1>1, <1>2

LEMMA MovesApproval ==
    ASSUME TypeOK, ApprovalIsFinal, NEW c \in Contents, NEW from,
           NEW e \in Events, Moves(c, from, e), MayFollow(from, e)
    PROVE  ApprovalIsFinal'
    <1>. DEFINE t == ResultOf[e.type]
    <1>1. (t = "draft_approved") <=> (e.type = "Draft Approved")
      BY DEF Events, EventTypes, ResultOf
    <1>2. from = "draft_approved" => t = "link_submitted"
      BY DEF MayFollow, CanTransition, NEXT_STATUSES, CONTENT_STATUSES
    <1>3. from # "link_submitted"
      BY DEF MayFollow, CanTransition, NEXT_STATUSES, CONTENT_STATUSES,
             COMMITTED_STATUSES
    <1>4. /\ status[c] = from
          /\ status'[c] = t
          /\ \A x \in Contents : x # c => status'[x] = status[x]
      BY MovesFacts
    <1>. HIDE DEF t
    <1>5. ASSUME NEW x \in Contents
          PROVE  /\ status'[x] = "draft_approved" => WasApproved(x)'
                 /\ WasApproved(x)' =>
                      status'[x] \in {"draft_approved", "link_submitted"}
      <2>1. WasApproved(x)' <=> WasApproved(x) \/ (x = c /\ e.type = "Draft Approved")
        BY MovesApproved
      <2>2. CASE x = c
        BY <1>1, <1>2, <1>3, <1>4, <2>1, <2>2 DEF ApprovalIsFinal
      <2>3. CASE x # c
        BY <1>4, <2>1, <2>3 DEF ApprovalIsFinal
      <2>. QED  BY <2>2, <2>3
    <1>. QED  BY <1>5 DEF ApprovalIsFinal

-----------------------------------------------------------------------------
(* What the middleware does.                                               *)

DueEvent(x) == Event("Auto Scheduled", 0, Len(history[x]))

LEMMA ScheduleDueFacts ==
    ASSUME TypeOK, ScheduleDue, NEW x \in Contents
    PROVE  /\ DueEvent(x) \in Events
           /\ DueEvent(x).type = "Auto Scheduled"
           /\ ResultOf["Auto Scheduled"] = "scheduled"
           /\ x \in DueProposals =>
                /\ status[x] = "pending"
                /\ status'[x] = "scheduled"
                /\ history'[x] = Append(history[x], DueEvent(x))
           /\ x \notin DueProposals => /\ status'[x] = status[x]
                                       /\ history'[x] = history[x]
    <1>1. "Auto Scheduled" \in EventTypes /\ Len(history[x]) \in Nat
      BY DEF EventTypes, ResultOf, TypeOK
    <1>2. DueEvent(x) \in Events /\ DueEvent(x).type = "Auto Scheduled"
      BY <1>1, EventFacts DEF DueEvent
    <1>3. ResultOf["Auto Scheduled"] = "scheduled"
      BY DEF ResultOf
    <1>. QED  BY <1>2, <1>3 DEF ScheduleDue, DueProposals, DueEvent

\* The middleware's promotion keeps every property of the rows.
LEMMA ScheduleDueInv ==
    ASSUME ReviewInv, ScheduleDue
    PROVE  /\ HistoryTellsStatus'
           /\ ApprovalIsFinal'
           /\ BypassFlagTellsTheTruth'
           /\ VersionsCountHandIns'
    <1>. USE DEF ReviewInv
    <1>0. TypeOK
      OBVIOUS
    <1>1. ASSUME NEW x \in Contents
          PROVE  IsWalkTo(history'[x], status'[x])
      <2>1. CASE x \in DueProposals
        <3>1. history[x] \in Seq(Events) /\ IsWalkTo(history[x], "pending")
          BY <1>0, <2>1, ScheduleDueFacts DEF TypeOK, HistoryTellsStatus
        <3>2. MayFollow("pending", DueEvent(x))
          BY <1>0, ScheduleDueFacts DEF MayFollow
        <3>3. DueEvent(x) \in Events /\ ResultOf[DueEvent(x).type] = "scheduled"
          BY <1>0, ScheduleDueFacts
        <3>4. IsWalkTo(Append(history[x], DueEvent(x)), ResultOf[DueEvent(x).type])
          BY <3>1, <3>2, <3>3, WalkStep
        <3>. QED  BY <1>0, <2>1, <3>3, <3>4, ScheduleDueFacts
      <2>2. CASE x \notin DueProposals
        BY <1>0, <2>2, ScheduleDueFacts DEF HistoryTellsStatus
      <2>. QED  BY <2>1, <2>2
    <1>2. ASSUME NEW x \in Contents
          PROVE  WasApproved(x)' <=> WasApproved(x)
      <2>1. CASE x \in DueProposals
        <3>1. /\ history[x] \in Seq(Events)
              /\ DueEvent(x) \in Events
              /\ DueEvent(x).type # "Draft Approved"
              /\ history'[x] = Append(history[x], DueEvent(x))
          BY <1>0, <2>1, ScheduleDueFacts DEF TypeOK
        <3>2. (\E i \in 1..Len(Append(history[x], DueEvent(x))) :
                  Append(history[x], DueEvent(x))[i].type = "Draft Approved")
                <=> \/ \E i \in 1..Len(history[x]) :
                          history[x][i].type = "Draft Approved"
                    \/ DueEvent(x).type = "Draft Approved"
          BY <3>1, ApprovedAfter
        <3>. QED  BY <3>1, <3>2 DEF WasApproved
      <2>2. CASE x \notin DueProposals
        BY <1>0, <2>2, ScheduleDueFacts DEF WasApproved
      <2>. QED  BY <2>1, <2>2
    <1>3. \A x \in Contents :
            \/ status'[x] = status[x]
            \/ status[x] = "pending" /\ status'[x] = "scheduled"
      BY <1>0, ScheduleDueFacts
    <1>4. ASSUME NEW x \in Contents
          PROVE  NumbersHandIns(history'[x], drafts[x])
      <2>1. CASE x \in DueProposals
        <3>1. /\ history[x] \in Seq(Events)
              /\ drafts[x] \in Nat
              /\ DueEvent(x) \in Events
              /\ ~IsHandIn(DueEvent(x))
              /\ history'[x] = Append(history[x], DueEvent(x))
          BY <1>0, <2>1, ScheduleDueFacts DEF TypeOK, IsHandIn
        <3>2. NumbersHandIns(Append(history[x], DueEvent(x)), drafts[x])
          BY <3>1, NumbersStep DEF VersionsCountHandIns
        <3>. QED  BY <3>1, <3>2
      <2>2. CASE x \notin DueProposals
        BY <1>0, <2>2, ScheduleDueFacts DEF VersionsCountHandIns
      <2>. QED  BY <2>1, <2>2
    <1>5. video' = video /\ drafts' = drafts
      BY DEF ScheduleDue
    <1>6. HistoryTellsStatus'
      BY <1>1 DEF HistoryTellsStatus, IsWalkTo
    <1>7. ApprovalIsFinal'
      BY <1>2, <1>3 DEF ApprovalIsFinal
    <1>8. BypassFlagTellsTheTruth'
      BY <1>2, <1>3, <1>5 DEF BypassFlagTellsTheTruth
    <1>9. VersionsCountHandIns'
      BY <1>4, <1>5 DEF VersionsCountHandIns, NumbersHandIns, IsHandIn
    <1>. QED  BY <1>6, <1>7, <1>8, <1>9

-----------------------------------------------------------------------------
(* Requests.                                                               *)

\* A step starts no request, changes the day of none, and takes no time but now.
SameDays ==
    \A q \in Requests :
        requests'[q] # Idle =>
            /\ requests[q] # Idle /\ requests'[q].day = requests[q].day
            /\ requests'[q].clock \in {requests[q].clock, today}

LEMMA FinishRequests ==
    ASSUME TypeOK, ReadsAllow, NEW r \in Requests, Finish(r)
    PROVE  ReadsAllow' /\ SameDays
    <1>1. \A q \in Requests : requests'[q] = IF q = r THEN Idle ELSE requests[q]
      BY DEF TypeOK, Finish
    <1>2. Idle.phase # "read"
      BY DEF Idle
    <1>3. SameDays
      BY <1>1 DEF SameDays
    <1>4. ASSUME NEW q \in Requests, requests'[q].phase = "read"
          PROVE  requests'[q] = requests[q]
      BY <1>1, <1>2, <1>4
    <1>5. ReadsAllow'
      BY <1>4 DEF ReadsAllow
    <1>. QED  BY <1>3, <1>5

LEMMA ProceedRequests ==
    ASSUME TypeOK, ReadsAllow, NEW r \in Requests, NEW seen,
           requests[r].phase # "idle", Proceed(r, seen),
           requests[r].kind = "draft" =>
             seen \in COMMITTED_STATUSES /\ CanSubmitDraft(seen),
           requests[r].kind = "video" =>
             /\ seen \in COMMITTED_STATUSES
             /\ CanSubmitVideo(seen, Deadline[requests[r].content],
                               requests[r].clock)
    PROVE  ReadsAllow' /\ SameDays
    <1>. DEFINE p == [requests[r] EXCEPT !.phase = "read", !.seen = seen]
    <1>1. \A q \in Requests : requests'[q] = IF q = r THEN p ELSE requests[q]
      BY DEF TypeOK, Proceed
    <1>2. requests[r] \in RequestStates /\ requests[r] # Idle
      BY DEF TypeOK, Idle
    <1>3. /\ p.kind = requests[r].kind
          /\ p.content = requests[r].content
          /\ p.day = requests[r].day
          /\ p.clock = requests[r].clock
          /\ p.seen = seen
      BY <1>2 DEF RequestStates
    <1>. HIDE DEF p
    <1>4. SameDays
      BY <1>1, <1>2, <1>3 DEF SameDays
    <1>5. ASSUME NEW q \in Requests, requests'[q].phase = "read"
          PROVE  /\ requests'[q].kind = "draft" =>
                      /\ requests'[q].seen \in COMMITTED_STATUSES
                      /\ CanSubmitDraft(requests'[q].seen)
                 /\ requests'[q].kind = "video" =>
                      /\ requests'[q].seen \in COMMITTED_STATUSES
                      /\ CanSubmitVideo(requests'[q].seen,
                            Deadline[requests'[q].content], requests'[q].clock)
      <2>1. CASE q = r
        BY <1>1, <1>3, <2>1
      <2>2. CASE q # r
        BY <1>1, <1>5, <2>2 DEF ReadsAllow
      <2>. QED  BY <2>1, <2>2
    <1>6. ReadsAllow'
      BY <1>5 DEF ReadsAllow
    <1>. QED  BY <1>4, <1>6

LEMMA TimeRequests ==
    ASSUME TypeOK, ReadsAllow, NEW r \in Requests, TakeTheTime(r)
    PROVE  ReadsAllow' /\ SameDays
    <1>. DEFINE p == [requests[r] EXCEPT !.phase = "timed", !.clock = today,
                                         !.since = Len(history[requests[r].content])]
    <1>1. \A q \in Requests : requests'[q] = IF q = r THEN p ELSE requests[q]
      BY DEF TypeOK, TakeTheTime
    <1>2. requests[r] \in RequestStates /\ requests[r] # Idle
      BY DEF TypeOK, TakeTheTime, InFlight, Idle
    <1>3. p.phase = "timed" /\ p.day = requests[r].day /\ p.clock = today
      BY <1>2 DEF RequestStates
    <1>. HIDE DEF p
    <1>4. SameDays
      BY <1>1, <1>2, <1>3 DEF SameDays
    <1>5. ASSUME NEW q \in Requests, requests'[q].phase = "read"
          PROVE  requests'[q] = requests[q]
      BY <1>1, <1>3, <1>5
    <1>6. ReadsAllow'
      BY <1>5 DEF ReadsAllow
    <1>. QED  BY <1>4, <1>6

\* A row never becomes a proposal again, so no request meets a new one.
LEMMA GraceKept ==
    ASSUME NoProposalInGraceWindow, SameDays,
           \A x \in Contents : status'[x] = "pending" => status[x] = "pending"
    PROVE  NoProposalInGraceWindow'
    BY DEF NoProposalInGraceWindow, SameDays

LEMMA QuietRows ==
    ASSUME ReviewInv, UNCHANGED <<status, video, drafts, history>>
    PROVE  /\ HistoryTellsStatus'
           /\ ApprovalIsFinal'
           /\ BypassFlagTellsTheTruth'
           /\ VersionsCountHandIns'
    <1>. USE DEF ReviewInv
    <1>1. HistoryTellsStatus'
      BY DEF HistoryTellsStatus
    <1>2. ApprovalIsFinal'
      BY DEF ApprovalIsFinal, WasApproved
    <1>3. BypassFlagTellsTheTruth'
      BY DEF BypassFlagTellsTheTruth, WasApproved
    <1>4. VersionsCountHandIns'
      BY DEF VersionsCountHandIns
    <1>. QED  BY <1>1, <1>2, <1>3, <1>4

-----------------------------------------------------------------------------
(* The invariant is kept.                                                  *)

\* A guarded move of one row that is not a link: the commit of a creation, a
\* proposal's approval, a draft or a decision.
LEMMA CommitInv ==
    ASSUME ReviewInv, NEW r \in Requests, NEW c \in Contents, NEW from,
           NEW e \in Events, Moves(c, from, e), MayFollow(from, e), Finish(r),
           e.type # "Link Submitted", UNCHANGED video,
           IsHandIn(e) => /\ e.draft = drafts[c] + 1
                          /\ drafts' = [drafts EXCEPT ![c] = drafts[c] + 1],
           ~IsHandIn(e) => UNCHANGED drafts
    PROVE  /\ ReadsAllow'
           /\ HistoryTellsStatus'
           /\ ApprovalIsFinal'
           /\ BypassFlagTellsTheTruth'
           /\ VersionsCountHandIns'
           /\ NoProposalInGraceWindow'
           /\ SameDays
    <1>. USE DEF ReviewInv
    <1>0. TypeOK /\ ReadsAllow /\ HistoryTellsStatus /\ ApprovalIsFinal
      OBVIOUS
    <1>1. /\ status[c] = from
          /\ status'[c] = ResultOf[e.type]
          /\ history'[c] = Append(history[c], e)
          /\ \A x \in Contents : x # c => /\ status'[x] = status[x]
                                          /\ history'[x] = history[x]
      BY <1>0, MovesFacts
    <1>2. ResultOf[e.type] \notin {"pending", "link_submitted"}
      BY DEF Events, EventTypes, ResultOf
    <1>3. from # "link_submitted"
      BY DEF MayFollow, CanTransition, NEXT_STATUSES, CONTENT_STATUSES,
             COMMITTED_STATUSES
    <1>4. ReadsAllow' /\ SameDays
      BY <1>0, FinishRequests
    <1>5. HistoryTellsStatus'
      BY <1>0, MovesWalk
    <1>6. ApprovalIsFinal'
      BY <1>0, MovesApproval
    <1>7. BypassFlagTellsTheTruth'
      <2>1. ASSUME NEW x \in Contents
            PROVE  /\ (status'[x] = "link_submitted") = (video[x].handedIn # NoDay)
                   /\ status'[x] = "link_submitted" =>
                        /\ video[x].bypassed = ~WasApproved(x)'
                        /\ video[x].bypassed =>
                             InGraceWindow(Deadline[x], video[x].handedIn)
        <3>1. CASE x = c
          BY <1>1, <1>2, <1>3, <3>1 DEF BypassFlagTellsTheTruth
        <3>2. CASE x # c
          <4>1. status'[x] = status[x]
            BY <1>1, <3>2
          <4>2. WasApproved(x)' <=> WasApproved(x)
            BY <1>0, <3>2, MovesApproved
          <4>. QED  BY <4>1, <4>2 DEF BypassFlagTellsTheTruth
        <3>. QED  BY <3>1, <3>2
      <2>. QED  BY <2>1 DEF BypassFlagTellsTheTruth
    <1>8. VersionsCountHandIns'
      <2>1. ASSUME NEW x \in Contents
            PROVE  NumbersHandIns(history'[x], drafts'[x])
        <3>1. /\ history[x] \in Seq(Events)
              /\ drafts[x] \in Nat
              /\ NumbersHandIns(history[x], drafts[x])
          BY DEF TypeOK, VersionsCountHandIns
        <3>2. CASE x = c
          <4>1. /\ ~IsHandIn(e) => NumbersHandIns(Append(history[x], e), drafts[x])
                /\ IsHandIn(e) /\ e.draft = drafts[x] + 1
                     => NumbersHandIns(Append(history[x], e), drafts[x] + 1)
            BY <3>1, NumbersStep
          <4>2. IsHandIn(e) => drafts'[x] = drafts[x] + 1
            BY <3>2 DEF TypeOK
          <4>. QED  BY <1>1, <3>2, <4>1, <4>2
        <3>3. CASE x # c
          <4>1. drafts'[x] = drafts[x]
            BY <3>3 DEF TypeOK
          <4>. QED  BY <1>1, <3>1, <3>3, <4>1
        <3>. QED  BY <3>2, <3>3
      <2>. QED  BY <2>1 DEF VersionsCountHandIns, NumbersHandIns, IsHandIn
    <1>9. NoProposalInGraceWindow'
      <2>1. \A x \in Contents : status'[x] = "pending" => status[x] = "pending"
        BY <1>1, <1>2
      <2>. QED  BY <1>4, <2>1, GraceKept
    <1>. QED  BY <1>4, <1>5, <1>6, <1>7, <1>8, <1>9

\* A request that only reads, or that ends, leaves the rows alone.
LEMMA QuietInv ==
    ASSUME ReviewInv, UNCHANGED contentVars, ReadsAllow', SameDays
    PROVE  /\ ReadsAllow'
           /\ HistoryTellsStatus'
           /\ ApprovalIsFinal'
           /\ BypassFlagTellsTheTruth'
           /\ VersionsCountHandIns'
           /\ NoProposalInGraceWindow'
           /\ SameDays
    <1>1. NoProposalInGraceWindow'
      BY GraceKept DEF contentVars, ReviewInv
    <1>. QED  BY <1>1, QuietRows DEF contentVars

LEMMA DiscardInv ==
    ASSUME ReviewInv, NEW r \in Requests, NEW c \in Contents, Discard(r, c)
    PROVE  /\ ReadsAllow'
           /\ HistoryTellsStatus'
           /\ ApprovalIsFinal'
           /\ BypassFlagTellsTheTruth'
           /\ VersionsCountHandIns'
           /\ NoProposalInGraceWindow'
           /\ SameDays
    <1>. USE DEF ReviewInv
    <1>1. /\ status'[c] = "removed"
          /\ video'[c] = NoVideo
          /\ drafts'[c] = 0
          /\ history'[c] = <<>>
          /\ \A x \in Contents : x # c => /\ status'[x] = status[x]
                                          /\ video'[x] = video[x]
                                          /\ drafts'[x] = drafts[x]
                                          /\ history'[x] = history[x]
      BY DEF TypeOK, Discard
    <1>2. ReadsAllow' /\ SameDays
      BY FinishRequests DEF Discard
    <1>3. IsWalkTo(<<>>, "removed") /\ NumbersHandIns(<<>>, 0)
      <2>1. Len(<<>>) = 0
        OBVIOUS
      <2>2. 1..0 = {} /\ 1..(0 - 1) = {}
        OBVIOUS
      <2>3. IsWalkTo(<<>>, "removed")
        BY <2>1, <2>2 DEF IsWalkTo
      <2>4. NumbersHandIns(<<>>, 0)
        BY <2>1, <2>2 DEF NumbersHandIns
      <2>. QED  BY <2>3, <2>4
    <1>4. ~WasApproved(c)'
      BY <1>1 DEF WasApproved
    <1>5. \A x \in Contents : x # c => (WasApproved(x)' <=> WasApproved(x))
      BY <1>1 DEF WasApproved
    <1>6. HistoryTellsStatus'
      <2>1. \A x \in Contents : IsWalkTo(history'[x], status'[x])
        BY <1>1, <1>3 DEF HistoryTellsStatus
      <2>. QED  BY <2>1 DEF HistoryTellsStatus, IsWalkTo
    <1>7. ApprovalIsFinal'
      BY <1>1, <1>4, <1>5 DEF ApprovalIsFinal
    <1>8. BypassFlagTellsTheTruth'
      BY <1>1, <1>5 DEF BypassFlagTellsTheTruth, NoVideo
    <1>9. VersionsCountHandIns'
      <2>1. \A x \in Contents : NumbersHandIns(history'[x], drafts'[x])
        BY <1>1, <1>3 DEF VersionsCountHandIns
      <2>. QED  BY <2>1 DEF VersionsCountHandIns, NumbersHandIns, IsHandIn
    <1>10. NoProposalInGraceWindow'
      BY <1>1, <1>2, GraceKept
    <1>. QED  BY <1>2, <1>6, <1>7, <1>8, <1>9, <1>10

\* A link is handed in from the status that was read, which the day of the
\* request allowed.
LEMMA SubmitVideoInv ==
    ASSUME ReviewInv, NEW r \in Requests, SubmitVideo(r)
    PROVE  /\ ReadsAllow'
           /\ HistoryTellsStatus'
           /\ ApprovalIsFinal'
           /\ BypassFlagTellsTheTruth'
           /\ VersionsCountHandIns'
           /\ NoProposalInGraceWindow'
           /\ SameDays
    <1>. USE DEF ReviewInv
    <1>. DEFINE c == requests[r].content
                seen == requests[r].seen
                day == requests[r].clock
                e == Event("Link Submitted", 0, requests[r].since)
    <1>0. TypeOK /\ ReadsAllow /\ HistoryTellsStatus /\ ApprovalIsFinal
      OBVIOUS
    <1>1. /\ c \in Contents /\ day \in Days /\ requests[r].since \in Nat
          /\ requests[r].kind = "video" /\ requests[r].phase = "read"
      BY InFlightType DEF SubmitVideo, InFlight
    <1>2. "Link Submitted" \in EventTypes /\ 0 \in Nat
      BY DEF EventTypes, ResultOf
    <1>3. e \in Events /\ e.type = "Link Submitted"
      BY <1>1, <1>2, EventFacts
    <1>4. ResultOf[e.type] = "link_submitted"
      BY <1>3 DEF ResultOf
    <1>5. /\ seen \in COMMITTED_STATUSES
          /\ CanSubmitVideo(seen, Deadline[c], day)
      BY <1>0, <1>1 DEF ReadsAllow
    <1>6. Moves(c, seen, e) /\ Finish(r)
      BY DEF SubmitVideo
    <1>7. video' = [video EXCEPT ![c] =
                      [handedIn |-> day, bypassed |-> seen # "draft_approved"]]
      BY DEF SubmitVideo
    <1>8. drafts' = drafts
      BY DEF SubmitVideo
    <1>. HIDE DEF c, seen, day, e
    <1>9. MayFollow(seen, e)
      BY <1>4, <1>5 DEF MayFollow, CanSubmitVideo
    <1>10. /\ status[c] = seen
           /\ status'[c] = "link_submitted"
           /\ history'[c] = Append(history[c], e)
           /\ \A x \in Contents : x # c => /\ status'[x] = status[x]
                                           /\ history'[x] = history[x]
      BY <1>0, <1>1, <1>3, <1>4, <1>6, MovesFacts
    <1>11. ReadsAllow' /\ SameDays
      BY <1>0, <1>6, FinishRequests
    <1>12. HistoryTellsStatus'
      BY <1>0, <1>1, <1>3, <1>6, <1>9, MovesWalk
    <1>13. ApprovalIsFinal'
      BY <1>0, <1>1, <1>3, <1>6, <1>9, MovesApproval
    <1>14. ASSUME NEW x \in Contents
           PROVE  WasApproved(x)' <=> WasApproved(x)
      BY <1>0, <1>1, <1>3, <1>6, MovesApproved
    <1>15. BypassFlagTellsTheTruth'
      <2>1. WasApproved(c) <=> seen = "draft_approved"
        <3>1. seen # "link_submitted"
          BY <1>5 DEF CanSubmitVideo, CanTransition, NEXT_STATUSES,
                      CONTENT_STATUSES, COMMITTED_STATUSES
        <3>. QED  BY <1>1, <1>10, <3>1 DEF ApprovalIsFinal
      <2>2. seen # "draft_approved" => InGraceWindow(Deadline[c], day)
        BY <1>5 DEF CanSubmitVideo
      <2>3. /\ video'[c].handedIn = day
            /\ video'[c].bypassed = (seen # "draft_approved")
            /\ \A x \in Contents : x # c => video'[x] = video[x]
        BY <1>1, <1>7 DEF TypeOK
      <2>4. day # NoDay
        BY <1>1, ContentReviewAssumption DEF Days, NoDay
      <2>5. ASSUME NEW x \in Contents
            PROVE  /\ (status'[x] = "link_submitted") = (video'[x].handedIn # NoDay)
                   /\ status'[x] = "link_submitted" =>
                        /\ video'[x].bypassed = ~WasApproved(x)'
                        /\ video'[x].bypassed =>
                             InGraceWindow(Deadline[x], video'[x].handedIn)
        <3>1. CASE x = c
          <4>1. (status'[x] = "link_submitted") = (video'[x].handedIn # NoDay)
            BY <1>10, <2>3, <2>4, <3>1
          <4>2. video'[x].bypassed = ~WasApproved(x)'
            BY <1>14, <2>1, <2>3, <3>1
          <4>. QED  BY <2>2, <2>3, <3>1, <4>1, <4>2
        <3>2. CASE x # c
          BY <1>10, <1>14, <2>3, <3>2 DEF BypassFlagTellsTheTruth
        <3>. QED  BY <3>1, <3>2
      <2>. QED  BY <2>5 DEF BypassFlagTellsTheTruth
    <1>16. VersionsCountHandIns'
      <2>1. ASSUME NEW x \in Contents
            PROVE  NumbersHandIns(history'[x], drafts[x])
        <3>1. /\ history[x] \in Seq(Events)
              /\ drafts[x] \in Nat
              /\ NumbersHandIns(history[x], drafts[x])
          BY DEF TypeOK, VersionsCountHandIns
        <3>2. NumbersHandIns(Append(history[x], e), drafts[x])
          BY <1>3, <3>1, NumbersStep DEF IsHandIn
        <3>. QED  BY <1>10, <3>1, <3>2
      <2>. QED  BY <1>8, <2>1 DEF VersionsCountHandIns, NumbersHandIns, IsHandIn
    <1>17. NoProposalInGraceWindow'
      <2>1. \A x \in Contents : status'[x] = "pending" => status[x] = "pending"
        BY <1>10
      <2>. QED  BY <1>11, <2>1, GraceKept
    <1>. QED  BY <1>11, <1>12, <1>13, <1>15, <1>16, <1>17

\* The middleware leaves no proposal whose H-1 has come.
LEMMA ArriveInv ==
    ASSUME ReviewInv, NEW r \in Requests, NEW c \in Contents, NEW kind, NEW d,
           Arrive(r, kind, c, d)
    PROVE  /\ ReadsAllow'
           /\ HistoryTellsStatus'
           /\ ApprovalIsFinal'
           /\ BypassFlagTellsTheTruth'
           /\ VersionsCountHandIns'
           /\ NoProposalInGraceWindow'
    <1>. USE DEF ReviewInv
    <1>0. TypeOK /\ ScheduleDue
      BY DEF Arrive
    <1>. DEFINE p == [kind |-> kind, phase |-> "arrived", content |-> c,
                      draft |-> d, seen |-> "absent", day |-> today,
                      clock |-> 0, since |-> 0]
    <1>1. \A q \in Requests : requests'[q] = IF q = r THEN p ELSE requests[q]
      BY DEF TypeOK, Arrive
    <1>2. p.phase = "arrived" /\ p.day = today
      OBVIOUS
    <1>. HIDE DEF p
    <1>3. ReadsAllow'
      <2>1. ASSUME NEW q \in Requests, requests'[q].phase = "read"
            PROVE  requests'[q] = requests[q]
        BY <1>1, <1>2, <2>1
      <2>. QED  BY <2>1 DEF ReadsAllow
    <1>4. NoProposalInGraceWindow'
      <2>1. ASSUME NEW q \in Requests, NEW x \in Contents,
                   requests'[q] # Idle, status'[x] = "pending"
            PROVE  ~InGraceWindow(Deadline[x], requests'[q].day)
        <3>1. status[x] = "pending" /\ x \notin DueProposals
          BY <1>0, <2>1, ScheduleDueFacts
        <3>2. CASE q = r
          <4>1. requests'[q].day = today
            BY <1>1, <1>2, <3>2
          <4>2. ~(Deadline[x] <= today + 1)
            BY <3>1 DEF DueProposals, SchedulingCutoff, GRACE_DAYS
          <4>3. Deadline[x] \in Nat /\ today \in Int
            BY ContentReviewAssumption DEF TypeOK, Days
          <4>. QED  BY <4>1, <4>2, <4>3 DEF InGraceWindow, GRACE_DAYS
        <3>3. CASE q # r
          BY <1>1, <2>1, <3>1, <3>3 DEF NoProposalInGraceWindow
        <3>. QED  BY <3>2, <3>3
      <2>. QED  BY <2>1 DEF NoProposalInGraceWindow
    <1>. QED  BY <1>0, <1>3, <1>4, ScheduleDueInv

LEMMA StepInv ==
    ASSUME ReviewInv, NEW r \in Requests, Step(r)
    PROVE  /\ ReadsAllow'
           /\ HistoryTellsStatus'
           /\ ApprovalIsFinal'
           /\ BypassFlagTellsTheTruth'
           /\ VersionsCountHandIns'
           /\ NoProposalInGraceWindow'
           /\ SameDays
    <1>. DEFINE c == requests[r].content
                d == requests[r].draft
                seen == requests[r].seen
                n == Len(history[c])
    <1>0. TypeOK /\ ReadsAllow
      BY DEF ReviewInv
    <1>a. \A x \in Contents : Len(history[x]) \in Nat
      BY <1>0 DEF TypeOK
    <1>b. {"Scheduled", "Proposal Approved", "Draft Approved",
           "Revision Requested"} \subseteq EventTypes /\ 0 \in Nat
      BY DEF EventTypes, ResultOf
    <1>1. CASE Create(r)
      <2>. DEFINE e == Event("Scheduled", 0, 0)
      <2>1. c \in Contents
        BY <1>0, <1>1, InFlightType DEF Create
      <2>2. e \in Events /\ e.type = "Scheduled"
        BY <1>b, EventFacts
      <2>3. Moves(c, "absent", e) /\ Finish(r) /\ UNCHANGED <<video, drafts>>
        BY <1>1 DEF Create
      <2>. HIDE DEF e
      <2>4. MayFollow("absent", e)
        BY <2>2 DEF MayFollow, ResultOf
      <2>. QED  BY <2>1, <2>2, <2>3, <2>4, CommitInv DEF IsHandIn
    <1>2. CASE ApproveProposal(r)
      <2>. DEFINE e == Event("Proposal Approved", 0, n)
      <2>1. c \in Contents
        BY <1>0, <1>2, InFlightType DEF ApproveProposal
      <2>2. e \in Events /\ e.type = "Proposal Approved"
        BY <1>a, <1>b, <2>1, EventFacts
      <2>3. Moves(c, "pending", e) /\ Finish(r) /\ UNCHANGED <<video, drafts>>
        BY <1>2 DEF ApproveProposal
      <2>. HIDE DEF e
      <2>4. MayFollow("pending", e)
        BY <2>2 DEF MayFollow, ResultOf
      <2>. QED  BY <2>1, <2>2, <2>3, <2>4, CommitInv DEF IsHandIn
    <1>3. CASE ReadProposal(r)
      <2>1. /\ requests[r].phase # "idle"
            /\ requests[r].kind = "reject_proposal"
            /\ Proceed(r, status[c])
        BY <1>3 DEF ReadProposal, InFlight
      <2>2. ReadsAllow' /\ SameDays
        BY <1>0, <2>1, ProceedRequests
      <2>. QED  BY <1>3, <2>2, QuietInv DEF ReadProposal
    <1>4. CASE RejectProposal(r)
      <2>1. c \in Contents /\ Discard(r, c)
        BY <1>0, <1>4, InFlightType DEF RejectProposal
      <2>. QED  BY <2>1, DiscardInv
    <1>5. CASE ReadForDraft(r)
      <2>1. /\ requests[r].phase # "idle"
            /\ requests[r].kind = "draft"
            /\ status[c] \in COMMITTED_STATUSES
            /\ CanSubmitDraft(status[c])
            /\ Proceed(r, status[c])
        BY <1>5 DEF ReadForDraft, InFlight, Committed
      <2>2. ReadsAllow' /\ SameDays
        BY <1>0, <2>1, ProceedRequests
      <2>. QED  BY <1>5, <2>2, QuietInv DEF ReadForDraft
    <1>6. CASE SubmitDraft(r)
      <2>. DEFINE e == Event("Draft Submitted", drafts[c] + 1, n)
      <2>1. /\ c \in Contents
            /\ requests[r].kind = "draft" /\ requests[r].phase = "read"
        BY <1>0, <1>6, InFlightType DEF SubmitDraft, InFlight
      <2>2. drafts[c] + 1 \in Nat /\ n \in Nat
        BY <1>0, <1>a, <2>1 DEF TypeOK
      <2>3. "Draft Submitted" \in EventTypes
        BY DEF EventTypes, ResultOf
      <2>4. e \in Events /\ e.type = "Draft Submitted" /\ e.draft = drafts[c] + 1
        BY <2>2, <2>3, EventFacts DEF Event
      <2>5. /\ Moves(c, seen, e)
            /\ Finish(r)
            /\ UNCHANGED video
            /\ drafts' = [drafts EXCEPT ![c] = drafts[c] + 1]
        BY <1>6 DEF SubmitDraft
      <2>6. seen \in COMMITTED_STATUSES /\ CanSubmitDraft(seen)
        BY <1>0, <2>1 DEF ReadsAllow
      <2>. HIDE DEF e
      <2>7. MayFollow(seen, e)
        BY <2>4, <2>6 DEF MayFollow, CanSubmitDraft, ResultOf
      <2>. QED  BY <2>1, <2>4, <2>5, <2>7, CommitInv DEF IsHandIn
    <1>t. CASE TakeTheTime(r)
      <2>1. ReadsAllow' /\ SameDays
        BY <1>0, <1>t, TimeRequests
      <2>. QED  BY <1>t, <2>1, QuietInv DEF TakeTheTime
    <1>7. CASE ReadForVideo(r)
      <2>1. /\ requests[r].phase # "idle"
            /\ requests[r].kind = "video"
            /\ status[c] \in COMMITTED_STATUSES
            /\ CanSubmitVideo(status[c], Deadline[c], requests[r].clock)
            /\ Proceed(r, status[c])
        BY <1>7 DEF ReadForVideo, InFlight, Committed
      <2>2. ReadsAllow' /\ SameDays
        BY <1>0, <2>1, ProceedRequests
      <2>. QED  BY <1>7, <2>2, QuietInv DEF ReadForVideo
    <1>8. CASE SubmitVideo(r)
      BY <1>8, SubmitVideoInv
    <1>9. CASE \E kind \in Decisions : FindUnderReview(r, kind)
      <2>1. PICK kind \in Decisions : FindUnderReview(r, kind)
        BY <1>9
      <2>2. /\ requests[r].phase # "idle"
            /\ requests[r].kind \notin {"draft", "video"}
            /\ Proceed(r, status[c])
        BY <2>1 DEF FindUnderReview, InFlight, Decisions
      <2>3. ReadsAllow' /\ SameDays
        BY <1>0, <2>2, ProceedRequests
      <2>. QED  BY <2>1, <2>3, QuietInv DEF FindUnderReview
    <1>10. CASE ApproveDraft(r)
      <2>. DEFINE e == Event("Draft Approved", d, n)
      <2>1. c \in Contents /\ d \in Nat
        BY <1>0, <1>10, InFlightType DEF ApproveDraft
      <2>2. e \in Events /\ e.type = "Draft Approved"
        BY <1>a, <1>b, <2>1, EventFacts
      <2>3. /\ status[c] = "draft_review"
            /\ Moves(c, status[c], e)
            /\ Finish(r)
            /\ UNCHANGED <<video, drafts>>
        BY <1>10 DEF ApproveDraft, REVIEWABLE_STATUSES
      <2>. HIDE DEF e
      <2>4. MayFollow(status[c], e)
        BY <2>2, <2>3 DEF MayFollow, ResultOf, CanTransition, NEXT_STATUSES,
                          CONTENT_STATUSES, COMMITTED_STATUSES
      <2>. QED  BY <2>1, <2>2, <2>3, <2>4, CommitInv DEF IsHandIn
    <1>11. CASE RequestRevision(r)
      <2>. DEFINE e == Event("Revision Requested", d, n)
      <2>1. c \in Contents /\ d \in Nat
        BY <1>0, <1>11, InFlightType DEF RequestRevision
      <2>2. e \in Events /\ e.type = "Revision Requested"
        BY <1>a, <1>b, <2>1, EventFacts
      <2>3. /\ status[c] = "draft_review"
            /\ Moves(c, status[c], e)
            /\ Finish(r)
            /\ UNCHANGED <<video, drafts>>
        BY <1>11 DEF RequestRevision, REVIEWABLE_STATUSES
      <2>. HIDE DEF e
      <2>4. MayFollow(status[c], e)
        BY <2>2, <2>3 DEF MayFollow, ResultOf, CanTransition, NEXT_STATUSES,
                          CONTENT_STATUSES, COMMITTED_STATUSES
      <2>. QED  BY <2>1, <2>2, <2>3, <2>4, CommitInv DEF IsHandIn
    <1>12. CASE GiveUp(r)
      <2>1. ReadsAllow' /\ SameDays
        BY <1>0, <1>12, FinishRequests DEF GiveUp
      <2>. QED  BY <1>12, <2>1, QuietInv DEF GiveUp
    <1>. QED
      BY <1>1, <1>2, <1>3, <1>4, <1>5, <1>6, <1>7, <1>8, <1>9, <1>10, <1>11,
         <1>12, <1>t DEF Step

LEMMA StepToday ==
    ASSUME NEW r \in Requests, Step(r)
    PROVE  today' = today
    BY DEF Step, Create, ApproveProposal, ReadProposal, RejectProposal, Discard,
           ReadForDraft, SubmitDraft, TakeTheTime, ReadForVideo, SubmitVideo,
           FindUnderReview, ApproveDraft, RequestRevision, GiveUp

LEMMA ArrivePast ==
    ASSUME ReviewInv, NEW r \in Requests, NEW c \in Contents, NEW kind, NEW d,
           Arrive(r, kind, c, d)
    PROVE  RequestsArePast'
    <1>1. /\ today' = today /\ today \in Nat
          /\ requests'[r].day = today /\ requests'[r].clock = 0
          /\ \A q \in Requests : q # r => requests'[q] = requests[q]
      BY ContentReviewAssumption DEF Arrive, ReviewInv, TypeOK, Days
    <1>. QED  BY <1>1 DEF ReviewInv, RequestsArePast

LEMMA NextInv == ReviewInv /\ [Next]_vars => ReviewInv'
    <1>. SUFFICES ASSUME ReviewInv, [Next]_vars
                  PROVE  ReviewInv'
      OBVIOUS
    <1>0. TypeOK'
      BY NextType DEF ReviewInv
    <1>1. CASE \E r \in Requests : Begin(r)
      <2>1. PICK r \in Requests : Begin(r)
        BY <1>1
      <2>2. CASE \E c \in Contents, kind \in Kinds \ Decisions :
                   Arrive(r, kind, c, 0)
        BY <1>0, <2>2, ArriveInv, ArrivePast DEF ReviewInv
      <2>3. CASE \E c \in Contents, kind \in Decisions :
                   \E d \in 1..drafts[c] : Arrive(r, kind, c, d)
        BY <1>0, <2>3, ArriveInv, ArrivePast DEF ReviewInv
      <2>. QED  BY <2>1, <2>2, <2>3 DEF Begin
    <1>2. CASE \E r \in Requests : Step(r)
      <2>1. PICK r \in Requests : Step(r)
        BY <1>2
      <2>2. SameDays
        BY <2>1, StepInv
      <2>3. RequestsArePast'
        <3>1. today' = today /\ today \in Int
          BY <2>1, StepToday DEF ReviewInv, TypeOK, Days
        <3>. QED  BY <2>2, <3>1 DEF ReviewInv, RequestsArePast, SameDays
      <2>. QED  BY <1>0, <2>1, <2>3, StepInv DEF ReviewInv
    <1>3. CASE \E c \in Contents : AddComment(c)
      <2>1. UNCHANGED <<status, video, drafts, history, requests>>
        BY <1>3 DEF AddComment
      <2>2. ReadsAllow' /\ NoProposalInGraceWindow' /\ RequestsArePast'
        BY <1>3, <2>1 DEF ReviewInv, ReadsAllow, NoProposalInGraceWindow,
                       RequestsArePast, AddComment
      <2>. QED  BY <1>0, <2>1, <2>2, QuietRows DEF ReviewInv
    <1>4. CASE ReadOnlyRequest
      <2>1. ScheduleDue /\ UNCHANGED requests
        BY <1>4 DEF ReadOnlyRequest
      <2>2. \A x \in Contents : status'[x] = "pending" => status[x] = "pending"
        BY <2>1, ScheduleDueFacts DEF ReviewInv
      <2>3. ReadsAllow' /\ NoProposalInGraceWindow' /\ RequestsArePast'
        BY <1>4, <2>1, <2>2 DEF ReadOnlyRequest, ReviewInv, ReadsAllow,
                                NoProposalInGraceWindow, RequestsArePast
      <2>. QED  BY <1>0, <2>1, <2>3, ScheduleDueInv DEF ReviewInv
    <1>5. CASE DayPasses
      <2>1. UNCHANGED <<status, video, drafts, history, requests>>
        BY <1>5 DEF DayPasses, contentVars
      <2>2. ReadsAllow' /\ NoProposalInGraceWindow'
        BY <2>1 DEF ReviewInv, ReadsAllow, NoProposalInGraceWindow
      <2>3. today' = today + 1 /\ today \in Int
        BY <1>5 DEF DayPasses, ReviewInv, TypeOK, Days
      <2>4. \A r \in Requests : requests[r] # Idle => /\ requests[r].day \in Int
                                                     /\ requests[r].clock \in Int
        BY DEF ReviewInv, TypeOK, RequestStates, Days
      <2>5. RequestsArePast'
        BY <2>1, <2>3, <2>4 DEF ReviewInv, RequestsArePast
      <2>. QED  BY <1>0, <2>1, <2>2, <2>5, QuietRows DEF ReviewInv
    <1>6. CASE UNCHANGED vars
      <2>1. UNCHANGED <<status, video, drafts, history, requests>>
        BY <1>6 DEF vars, contentVars
      <2>2. ReadsAllow' /\ NoProposalInGraceWindow' /\ RequestsArePast'
        BY <1>6, <2>1 DEF ReviewInv, ReadsAllow, NoProposalInGraceWindow,
                       RequestsArePast, vars
      <2>. QED  BY <1>0, <2>1, <2>2, QuietRows DEF ReviewInv
    <1>. QED  BY <1>1, <1>2, <1>3, <1>4, <1>5, <1>6 DEF Next

LEMMA InitInv == Init => ReviewInv
    <1>. SUFFICES ASSUME Init
                  PROVE  ReviewInv
      OBVIOUS
    <1>1. TypeOK
      BY InitType
    <1>2. \A c \in Contents :
            /\ status[c] \in {"absent", "pending"}
            /\ video[c].handedIn = NoDay
            /\ drafts[c] = 0
            /\ history[c] = <<>>
      BY DEF Init, NoVideo
    <1>3. \A r \in Requests : requests[r] = Idle /\ Idle.phase = "idle"
      BY DEF Init, Idle
    <1>4. Len(<<>>) = 0 /\ 1..0 = {} /\ 1..(0 - 1) = {}
      OBVIOUS
    <1>5. HistoryTellsStatus
      BY <1>2, <1>4 DEF HistoryTellsStatus, IsWalkTo
    <1>6. \A c \in Contents : ~WasApproved(c)
      BY <1>2, <1>4 DEF WasApproved
    <1>7. ApprovalIsFinal /\ BypassFlagTellsTheTruth
      BY <1>2, <1>6 DEF ApprovalIsFinal, BypassFlagTellsTheTruth
    <1>8. VersionsCountHandIns
      BY <1>2, <1>4 DEF VersionsCountHandIns, NumbersHandIns
    <1>9. ReadsAllow /\ NoProposalInGraceWindow
      BY <1>3 DEF ReadsAllow, NoProposalInGraceWindow
    <1>10. RequestsArePast
      BY <1>3 DEF RequestsArePast
    <1>. QED  BY <1>1, <1>5, <1>7, <1>8, <1>9, <1>10 DEF ReviewInv

\* The invariant holds of every behaviour.
THEOREM ReviewInvariant == Spec => []ReviewInv
    BY InitInv, NextInv, PTL DEF Spec

\* The events of a content tell its status, whatever requests race.
THEOREM HistoryCorrect == Spec => []HistoryTellsStatus
    BY ReviewInvariant, PTL DEF ReviewInv

\* Hand-ins are numbered without a gap or a repetition.
THEOREM VersionsCorrect == Spec => []VersionsCountHandIns
    BY ReviewInvariant, PTL DEF ReviewInv

\* approval_bypassed is true exactly of the links no approval came before.
THEOREM BypassCorrect == Spec => []BypassFlagTellsTheTruth
    BY ReviewInvariant, PTL DEF ReviewInv

\* No request past the middleware meets a proposal that should be scheduled.
THEOREM SchedulingCorrect == Spec => []NoProposalInGraceWindow
    BY ReviewInvariant, PTL DEF ReviewInv

-----------------------------------------------------------------------------
(* The rows implement the rounds.                                          *)

turnNow == [c \in Contents |-> TurnOf[status[c]]]
lateNow == [c \in Contents |-> InGraceWindow(Deadline[c], today)]

LEMMA TurnFacts ==
    /\ TurnOf["absent"] = "unborn"
    /\ TurnOf["pending"] = "proposed"
    /\ TurnOf["scheduled"] = "creator"
    /\ TurnOf["draft_revision"] = "creator"
    /\ TurnOf["draft_review"] = "admin"
    /\ TurnOf["draft_approved"] = "cleared"
    /\ TurnOf["link_submitted"] = "done"
    /\ TurnOf["removed"] = "discarded"
    BY DEF TurnOf, RowStatuses, CONTENT_STATUSES

LEMMA TurnMoves ==
    ASSUME TypeOK, NEW c \in Contents, NEW to, status' = [status EXCEPT ![c] = to]
    PROVE  /\ turnNow[c] = TurnOf[status[c]]
           /\ turnNow' = [turnNow EXCEPT ![c] = TurnOf[to]]
    <1>1. \A x \in Contents : status'[x] = IF x = c THEN to ELSE status[x]
      BY DEF TypeOK
    <1>2. \A x \in Contents : turnNow'[x] = IF x = c THEN TurnOf[to] ELSE turnNow[x]
      BY <1>1 DEF turnNow
    <1>. QED  BY <1>2 DEF turnNow

\* Each abstract action is a step of the rounds.
LEMMA RoundsActions ==
    ASSUME NEW c \in Contents
    PROVE  /\ Rounds!Assign({c}) => Rounds!Next
           /\ Rounds!Discard(c)  => Rounds!Next
           /\ Rounds!HandIn(c)   => Rounds!Next
           /\ Rounds!SendBack(c) => Rounds!Next
           /\ Rounds!Clear(c)    => Rounds!Next
           /\ Rounds!Publish(c)  => Rounds!Next
    BY DEF Rounds!Next

\* A proposal has no draft yet.
LEMMA ProposalHasNoDraft ==
    ASSUME ReviewInv, NEW c \in Contents, status[c] = "pending"
    PROVE  drafts[c] = 0
    <1>1. history[c] = <<>>
      BY DEF ReviewInv, HistoryTellsStatus, IsWalkTo
    <1>2. Len(<<>>) = 0 /\ 1..0 = {}
      OBVIOUS
    <1>3. \A v \in 1..drafts[c] : FALSE
      BY <1>1, <1>2 DEF ReviewInv, VersionsCountHandIns, NumbersHandIns
    <1>4. drafts[c] \in Nat
      BY DEF ReviewInv, TypeOK
    <1>5. ~(1 <= drafts[c])
      BY <1>3, <1>4
    <1>. QED  BY <1>4, <1>5

LEMMA ScheduleRefines ==
    ASSUME ReviewInv, ScheduleDue, today' = today
    PROVE  Rounds!Assign(DueProposals)
    <1>1. \A c \in DueProposals : turnNow[c] = "proposed"
      BY TurnFacts DEF DueProposals, turnNow
    <1>2. turnNow' = [c \in Contents |->
                        IF c \in DueProposals THEN "creator" ELSE turnNow[c]]
      BY TurnFacts DEF ScheduleDue, turnNow
    <1>3. UNCHANGED <<drafts, lateNow>>
      BY DEF ScheduleDue, lateNow
    <1>. QED  BY <1>1, <1>2, <1>3 DEF Rounds!Assign, turnNow, lateNow

\* One content is given to the creator.
LEMMA AssignRefines ==
    ASSUME ReviewInv, NEW c \in Contents, status[c] \in {"absent", "pending"},
           status' = [status EXCEPT ![c] = "scheduled"],
           UNCHANGED <<drafts, lateNow>>
    PROVE  Rounds!Next
    <1>1. /\ turnNow' = [turnNow EXCEPT ![c] = TurnOf["scheduled"]]
          /\ turnNow[c] = TurnOf[status[c]]
      BY TurnMoves DEF ReviewInv
    <1>2. turnNow[c] \in {"unborn", "proposed"}
      BY <1>1, TurnFacts
    <1>3. turnNow' = [turnNow EXCEPT ![c] = "creator"]
      BY <1>1, TurnFacts
    <1>4. turnNow' = [x \in Contents |->
                        IF x \in {c} THEN "creator" ELSE turnNow[x]]
      BY <1>3 DEF turnNow
    <1>5. Rounds!Assign({c})
      BY <1>2, <1>4 DEF Rounds!Assign, turnNow, lateNow
    <1>. QED  BY <1>5, RoundsActions

LEMMA StepRefines ==
    ASSUME ReviewInv, NEW r \in Requests, Step(r),
           NEW c, c = requests[r].content,
           NEW seen, seen = requests[r].seen
    PROVE  Rounds!Next \/ UNCHANGED Rounds!vars
    <1>0. TypeOK /\ ReadsAllow
      BY DEF ReviewInv
    <1>a. today' = today
      BY StepToday
    <1>b. UNCHANGED lateNow
      BY <1>a DEF lateNow
    <1>c. ASSUME UNCHANGED <<status, drafts>>
          PROVE  UNCHANGED Rounds!vars
      BY <1>b, <1>c DEF Rounds!vars, lateNow
    <1>1. CASE Create(r)
      <2>1. c \in Contents
        BY <1>0, <1>1, InFlightType DEF Create
      <2>2. /\ status[c] = "absent"
            /\ status' = [status EXCEPT ![c] = "scheduled"]
            /\ UNCHANGED drafts
        BY <1>1 DEF Create, Moves, Event, ResultOf
      <2>3. Rounds!Next
        BY <1>b, <2>1, <2>2, AssignRefines
      <2>. QED  BY <2>3
    <1>2. CASE ApproveProposal(r)
      <2>1. c \in Contents
        BY <1>0, <1>2, InFlightType DEF ApproveProposal
      <2>2. /\ status[c] = "pending"
            /\ status' = [status EXCEPT ![c] = "scheduled"]
            /\ UNCHANGED drafts
        BY <1>2 DEF ApproveProposal, Moves, Event, ResultOf
      <2>3. Rounds!Next
        BY <1>b, <2>1, <2>2, AssignRefines
      <2>. QED  BY <2>3
    <1>3. CASE ReadProposal(r)
      BY <1>3, <1>c DEF ReadProposal, contentVars
    <1>4. CASE RejectProposal(r)
      <2>1. c \in Contents
        BY <1>0, <1>4, InFlightType DEF RejectProposal
      <2>2. /\ status[c] = "pending"
            /\ status' = [status EXCEPT ![c] = "removed"]
            /\ drafts' = [drafts EXCEPT ![c] = 0]
        BY <1>4 DEF RejectProposal, Discard
      <2>3. UNCHANGED drafts
        BY <1>0, <2>1, <2>2, ProposalHasNoDraft DEF TypeOK
      <2>4. /\ turnNow[c] = TurnOf[status[c]]
            /\ turnNow' = [turnNow EXCEPT ![c] = TurnOf["removed"]]
        BY <1>0, <2>1, <2>2, TurnMoves
      <2>5. Rounds!Discard(c)
        BY <1>b, <2>2, <2>3, <2>4, TurnFacts
           DEF Rounds!Discard, Rounds!Becomes, turnNow, lateNow
      <2>. QED  BY <2>1, <2>5, RoundsActions
    <1>5. CASE ReadForDraft(r)
      BY <1>5, <1>c DEF ReadForDraft, contentVars
    <1>6. CASE SubmitDraft(r)
      <2>1. c \in Contents /\ requests[r].kind = "draft" /\ requests[r].phase = "read"
        BY <1>0, <1>6, InFlightType DEF SubmitDraft, InFlight
      <2>2. seen \in COMMITTED_STATUSES /\ CanSubmitDraft(seen)
        BY <1>0, <2>1 DEF ReadsAllow
      <2>3. seen \in {"scheduled", "draft_revision"}
        BY <2>2 DEF CanSubmitDraft, CanTransition, NEXT_STATUSES,
                    CONTENT_STATUSES, COMMITTED_STATUSES
      <2>4. /\ status[c] = seen
            /\ status' = [status EXCEPT ![c] = "draft_review"]
            /\ drafts' = [drafts EXCEPT ![c] = drafts[c] + 1]
        BY <1>6 DEF SubmitDraft, Moves, Event, ResultOf
      <2>5. /\ turnNow[c] = TurnOf[status[c]]
            /\ turnNow' = [turnNow EXCEPT ![c] = TurnOf["draft_review"]]
        BY <1>0, <2>1, <2>4, TurnMoves
      <2>6. Rounds!HandIn(c)
        BY <1>b, <2>3, <2>4, <2>5, TurnFacts
           DEF Rounds!HandIn, Rounds!Becomes, turnNow, lateNow
      <2>. QED  BY <2>1, <2>6, RoundsActions
    <1>t. CASE TakeTheTime(r)
      BY <1>t, <1>c DEF TakeTheTime, contentVars
    <1>7. CASE ReadForVideo(r)
      BY <1>7, <1>c DEF ReadForVideo, contentVars
    <1>8. CASE SubmitVideo(r)
      <2>1. /\ c \in Contents /\ requests[r].clock \in Days
            /\ requests[r].kind = "video" /\ requests[r].phase = "read"
        BY <1>0, <1>8, InFlightType DEF SubmitVideo, InFlight
      <2>2. /\ seen \in COMMITTED_STATUSES
            /\ CanSubmitVideo(seen, Deadline[c], requests[r].clock)
        BY <1>0, <2>1 DEF ReadsAllow
      <2>3. /\ seen \in {"draft_review", "draft_approved"}
            /\ seen = "draft_approved" \/ InGraceWindow(Deadline[c], requests[r].clock)
        BY <2>2 DEF CanSubmitVideo, CanTransition, NEXT_STATUSES,
                    CONTENT_STATUSES, COMMITTED_STATUSES
      <2>4. requests[r].clock <= today
        BY <2>1 DEF ReviewInv, RequestsArePast, Idle
      <2>5. seen = "draft_approved" \/ lateNow[c]
        <3>1. Deadline[c] \in Nat /\ today \in Int /\ requests[r].clock \in Int
          BY <1>0, <2>1, ContentReviewAssumption DEF TypeOK, Days
        <3>2. seen = "draft_approved" \/ InGraceWindow(Deadline[c], today)
          BY <2>3, <2>4, <3>1 DEF InGraceWindow, GRACE_DAYS
        <3>3. InGraceWindow(Deadline[c], today) => lateNow[c]
          BY <2>1 DEF lateNow
        <3>. QED  BY <3>2, <3>3
      <2>6. /\ status[c] = seen
            /\ status' = [status EXCEPT ![c] = "link_submitted"]
            /\ UNCHANGED drafts
        BY <1>8 DEF SubmitVideo, Moves, Event, ResultOf
      <2>7. /\ turnNow[c] = TurnOf[status[c]]
            /\ turnNow' = [turnNow EXCEPT ![c] = TurnOf["link_submitted"]]
        BY <1>0, <2>1, <2>6, TurnMoves
      <2>8. Rounds!Publish(c)
        BY <1>b, <2>3, <2>5, <2>6, <2>7, TurnFacts
           DEF Rounds!Publish, Rounds!Becomes, turnNow, lateNow
      <2>. QED  BY <2>1, <2>8, RoundsActions
    <1>9. CASE \E kind \in Decisions : FindUnderReview(r, kind)
      BY <1>9, <1>c DEF FindUnderReview, contentVars
    <1>10. CASE ApproveDraft(r)
      <2>1. c \in Contents
        BY <1>0, <1>10, InFlightType DEF ApproveDraft
      <2>2. /\ status[c] = "draft_review"
            /\ status' = [status EXCEPT ![c] = "draft_approved"]
            /\ UNCHANGED drafts
        BY <1>10 DEF ApproveDraft, Moves, Event, ResultOf, REVIEWABLE_STATUSES
      <2>3. /\ turnNow[c] = TurnOf[status[c]]
            /\ turnNow' = [turnNow EXCEPT ![c] = TurnOf["draft_approved"]]
        BY <1>0, <2>1, <2>2, TurnMoves
      <2>4. Rounds!Clear(c)
        BY <1>b, <2>2, <2>3, TurnFacts
           DEF Rounds!Clear, Rounds!Becomes, turnNow, lateNow
      <2>. QED  BY <2>1, <2>4, RoundsActions
    <1>11. CASE RequestRevision(r)
      <2>1. c \in Contents
        BY <1>0, <1>11, InFlightType DEF RequestRevision
      <2>2. /\ status[c] = "draft_review"
            /\ status' = [status EXCEPT ![c] = "draft_revision"]
            /\ UNCHANGED drafts
        BY <1>11 DEF RequestRevision, Moves, Event, ResultOf, REVIEWABLE_STATUSES
      <2>3. /\ turnNow[c] = TurnOf[status[c]]
            /\ turnNow' = [turnNow EXCEPT ![c] = TurnOf["draft_revision"]]
        BY <1>0, <2>1, <2>2, TurnMoves
      <2>4. Rounds!SendBack(c)
        BY <1>b, <2>2, <2>3, TurnFacts
           DEF Rounds!SendBack, Rounds!Becomes, turnNow, lateNow
      <2>. QED  BY <2>1, <2>4, RoundsActions
    <1>12. CASE GiveUp(r)
      BY <1>12, <1>c DEF GiveUp, contentVars
    <1>. QED
      BY <1>1, <1>2, <1>3, <1>4, <1>5, <1>6, <1>7, <1>8, <1>9, <1>10, <1>11,
         <1>12, <1>t DEF Step

LEMMA NextRefines ==
    ReviewInv /\ [Next]_vars => [Rounds!Next]_(Rounds!vars)
    <1>. SUFFICES ASSUME ReviewInv, [Next]_vars
                  PROVE  Rounds!Next \/ UNCHANGED Rounds!vars
      OBVIOUS
    <1>1. ASSUME ScheduleDue, today' = today
          PROVE  Rounds!Next
      <2>1. Rounds!Assign(DueProposals)
        BY <1>1, ScheduleRefines
      <2>2. DueProposals \in SUBSET Contents
        BY DEF DueProposals
      <2>3. PICK S \in SUBSET Contents : S = DueProposals
        BY <2>2
      <2>4. Rounds!Assign(S)
        BY <2>1, <2>3 DEF Rounds!Assign
      <2>. QED  BY <2>4 DEF Rounds!Next
    <1>2. CASE \E r \in Requests : Begin(r)
      BY <1>1, <1>2 DEF Begin, Arrive
    <1>3. CASE \E r \in Requests : Step(r)
      <2>1. PICK r \in Requests : Step(r)
        BY <1>3
      <2>2. PICK c : c = requests[r].content
        OBVIOUS
      <2>3. PICK seen : seen = requests[r].seen
        OBVIOUS
      <2>. QED  BY <2>1, <2>2, <2>3, StepRefines
    <1>4. CASE \E c \in Contents : AddComment(c)
      <2>1. UNCHANGED <<status, drafts, today>>
        BY <1>4 DEF AddComment
      <2>. QED  BY <2>1 DEF Rounds!vars
    <1>5. CASE ReadOnlyRequest
      BY <1>1, <1>5 DEF ReadOnlyRequest
    <1>6. CASE DayPasses
      <2>1. UNCHANGED <<turnNow, drafts>> /\ today' = today + 1
        BY <1>6 DEF DayPasses, contentVars, turnNow
      <2>2. today \in Int /\ \A c \in Contents : Deadline[c] \in Nat
        BY ContentReviewAssumption DEF ReviewInv, TypeOK, Days
      <2>3. lateNow \in [Contents -> BOOLEAN] /\ lateNow' \in [Contents -> BOOLEAN]
        BY DEF lateNow, InGraceWindow
      <2>4. \A c \in Contents :
              InGraceWindow(Deadline[c], today) => InGraceWindow(Deadline[c], today')
        BY <2>1, <2>2 DEF InGraceWindow, GRACE_DAYS
      <2>5. \A c \in Contents : lateNow[c] => lateNow'[c]
        BY <2>4 DEF lateNow
      <2>6. Rounds!TimePasses
        BY <2>1, <2>3, <2>5 DEF Rounds!TimePasses, turnNow, lateNow
      <2>. QED  BY <2>6 DEF Rounds!Next
    <1>7. CASE UNCHANGED vars
      <2>1. UNCHANGED <<status, drafts, today>>
        BY <1>7 DEF vars, contentVars
      <2>. QED  BY <2>1 DEF Rounds!vars
    <1>. QED  BY <1>2, <1>3, <1>4, <1>5, <1>6, <1>7 DEF Next

LEMMA InitRefines == Init => Rounds!Init
    <1>. SUFFICES ASSUME Init
                  PROVE  Rounds!Init
      OBVIOUS
    <1>1. turnNow \in [Contents -> {"unborn", "proposed"}]
      BY TurnFacts DEF Init, turnNow
    <1>2. lateNow \in [Contents -> BOOLEAN]
      BY DEF lateNow, InGraceWindow
    <1>. QED  BY <1>1, <1>2 DEF Init, Rounds!Init, turnNow, lateNow

\* The reads, guarded updates and promotions of the code keep to the rounds in
\* which creator and admin alternate.
THEOREM RoundsImplemented == Spec => ImplementsRounds
    BY InitRefines, NextRefines, ReviewInvariant, PTL
       DEF Spec, ImplementsRounds, Rounds!Spec

\* A committed content is one that has been given to its creator.
Given == {"creator", "admin", "cleared", "done"}

LEMMA CommittedIsGiven ==
    ASSUME NEW s \in RowStatuses
    PROVE  s \in COMMITTED_STATUSES <=> TurnOf[s] \in Given
    BY TurnFacts DEF RowStatuses, CONTENT_STATUSES, COMMITTED_STATUSES, Given

LEMMA RoundsKeepGiven ==
    ASSUME Rounds!Next \/ UNCHANGED Rounds!vars, NEW c \in Contents,
           turnNow[c] \in Given
    PROVE  turnNow'[c] \in Given
    <1>1. CASE UNCHANGED Rounds!vars
      BY <1>1 DEF Rounds!vars, turnNow
    <1>2. CASE \E S \in SUBSET Contents : Rounds!Assign(S)
      BY <1>2 DEF Rounds!Assign, turnNow, Given
    <1>3. CASE \E x \in Contents : Rounds!Discard(x) \/ Rounds!HandIn(x)
                                  \/ Rounds!SendBack(x) \/ Rounds!Clear(x)
                                  \/ Rounds!Publish(x)
      BY <1>3 DEF Rounds!Discard, Rounds!HandIn, Rounds!SendBack, Rounds!Clear,
                  Rounds!Publish, Rounds!Becomes, turnNow, Given
    <1>4. CASE Rounds!TimePasses
      BY <1>4 DEF Rounds!TimePasses, turnNow
    <1>. QED  BY <1>1, <1>2, <1>3, <1>4 DEF Rounds!Next

LEMMA NextKeeps ==
    ReviewInv /\ [Next]_vars => \A c \in Contents : Committed(c) => Committed(c)'
    <1>. SUFFICES ASSUME ReviewInv, [Next]_vars, NEW c \in Contents, Committed(c)
                  PROVE  Committed(c)'
      OBVIOUS
    <1>1. Rounds!Next \/ UNCHANGED Rounds!vars
      BY NextRefines
    <1>2. status[c] \in RowStatuses /\ status'[c] \in RowStatuses
      BY NextInv DEF ReviewInv, TypeOK
    <1>3. turnNow[c] \in Given
      BY <1>2, CommittedIsGiven DEF Committed, turnNow
    <1>4. turnNow'[c] \in Given
      BY <1>1, <1>3, RoundsKeepGiven
    <1>5. TurnOf[status'[c]] \in Given
      BY <1>4 DEF turnNow
    <1>. QED  BY <1>2, <1>5, CommittedIsGiven DEF Committed

\* Rejecting a proposal never deletes work somebody committed to.
THEOREM CommittedKept == Spec => CommittedWorkIsKept
    <1>1. ReviewInv /\ [Next]_vars =>
            [\A c \in Contents : Committed(c) => Committed(c)']_vars
      BY NextKeeps
    <1>. QED  BY <1>1, ReviewInvariant, PTL DEF Spec, CommittedWorkIsKept

-----------------------------------------------------------------------------
(* What a step does to one row.                                            *)

RowQuiet(c) ==
    /\ status'[c] = status[c]
    /\ video'[c] = video[c]
    /\ drafts'[c] = drafts[c]
    /\ noted'[c] = noted[c]
    /\ history'[c] = history[c]

\* The row moves, and the event says so.
RowMoves(c, from, type) ==
    /\ status[c] \in from
    /\ status'[c] = ResultOf[type]
    /\ \E e \in Events : e.type = type /\ history'[c] = Append(history[c], e)

RowScheduled(c) ==
    /\ \E type \in {"Scheduled", "Proposal Approved", "Auto Scheduled"} :
         RowMoves(c, {"absent", "pending"}, type)
    /\ video'[c] = video[c] /\ drafts'[c] = drafts[c] /\ noted'[c] = noted[c]

RowHandedIn(c) ==
    /\ status[c] \in {"scheduled", "draft_revision"}
    /\ status'[c] = "draft_review"
    /\ \E e \in Events : /\ e.type = "Draft Submitted"
                         /\ e.draft = drafts[c] + 1
                         /\ history'[c] = Append(history[c], e)
    /\ video'[c] = video[c] /\ drafts'[c] = drafts[c] + 1 /\ noted'[c] = noted[c]

RowSentBack(c) ==
    /\ status[c] = "draft_review"
    /\ status'[c] = "draft_revision"
    /\ \E e \in Events : /\ e.type = "Revision Requested"
                         /\ noted'[c] = noted[c] \cup {e.draft}
                         /\ history'[c] = Append(history[c], e)
                         /\ \E r \in Requests : /\ requests[r].kind = "revise"
                                                /\ requests[r].content = c
                                                /\ requests[r].draft = e.draft
    /\ video'[c] = video[c] /\ drafts'[c] = drafts[c]

RowApproved(c) ==
    /\ RowMoves(c, {"draft_review"}, "Draft Approved")
    /\ video'[c] = video[c] /\ drafts'[c] = drafts[c] /\ noted'[c] = noted[c]

RowLinked(c) ==
    /\ RowMoves(c, {"draft_review", "draft_approved"}, "Link Submitted")
    /\ video'[c].handedIn \in Days
    /\ video'[c].bypassed = (status[c] # "draft_approved")
    /\ drafts'[c] = drafts[c] /\ noted'[c] = noted[c]

RowDiscarded(c) ==
    /\ status[c] = "pending"
    /\ status'[c] = "removed"
    /\ video'[c] = NoVideo
    /\ drafts'[c] = 0
    /\ noted'[c] = {}
    /\ history'[c] = <<>>

RowStep(c) ==
    \/ RowQuiet(c)
    \/ RowScheduled(c)
    \/ RowHandedIn(c)
    \/ RowSentBack(c)
    \/ RowApproved(c)
    \/ RowLinked(c)
    \/ RowDiscarded(c)

LEMMA RowsOfSchedule ==
    ASSUME TypeOK, ScheduleDue, NEW c \in Contents
    PROVE  RowStep(c)
    <1>1. CASE c \in DueProposals
      <2>1. /\ status[c] = "pending" /\ status'[c] = "scheduled"
            /\ DueEvent(c) \in Events /\ DueEvent(c).type = "Auto Scheduled"
            /\ ResultOf["Auto Scheduled"] = "scheduled"
            /\ history'[c] = Append(history[c], DueEvent(c))
        BY <1>1, ScheduleDueFacts
      <2>2. RowMoves(c, {"absent", "pending"}, "Auto Scheduled")
        BY <2>1 DEF RowMoves
      <2>3. video' = video /\ drafts' = drafts /\ noted' = noted
        BY DEF ScheduleDue
      <2>4. RowScheduled(c)
        BY <2>2, <2>3 DEF RowScheduled
      <2>. QED  BY <2>4 DEF RowStep
    <1>2. CASE c \notin DueProposals
      <2>1. RowQuiet(c)
        BY <1>2, ScheduleDueFacts DEF ScheduleDue, RowQuiet
      <2>. QED  BY <2>1 DEF RowStep
    <1>. QED  BY <1>1, <1>2

LEMMA RowsUntouched ==
    ASSUME NEW c \in Contents, UNCHANGED <<status, video, drafts, noted, history>>
    PROVE  RowStep(c)
    BY DEF RowStep, RowQuiet

LEMMA RowsOfStep ==
    ASSUME ReviewInv, NEW r \in Requests, Step(r), NEW x \in Contents
    PROVE  RowStep(x)
    <1>. DEFINE c == requests[r].content
                d == requests[r].draft
                seen == requests[r].seen
                n == Len(history[c])
    <1>0. TypeOK /\ ReadsAllow
      BY DEF ReviewInv
    <1>a. \A y \in Contents : Len(history[y]) \in Nat
      BY <1>0 DEF TypeOK
    <1>b. {"Scheduled", "Proposal Approved", "Draft Approved", "Draft Submitted",
           "Revision Requested", "Link Submitted"} \subseteq EventTypes /\ 0 \in Nat
      BY DEF EventTypes, ResultOf
    <1>1. CASE Create(r)
      <2>. DEFINE e == Event("Scheduled", 0, 0)
      <2>1. c \in Contents
        BY <1>0, <1>1, InFlightType DEF Create
      <2>2. e \in Events /\ e.type = "Scheduled"
        BY <1>b, EventFacts
      <2>3. Moves(c, "absent", e) /\ UNCHANGED <<video, drafts, noted>>
        BY <1>1 DEF Create
      <2>. HIDE DEF e, c
      <2>m. /\ status[c] = "absent" /\ status'[c] = ResultOf[e.type]
            /\ history'[c] = Append(history[c], e)
            /\ \A y \in Contents : y # c => /\ status'[y] = status[y]
                                            /\ history'[y] = history[y]
        BY <1>0, <2>1, <2>2, <2>3, MovesFacts
      <2>4. x = c => RowScheduled(x)
        BY <2>m, <2>2, <2>3 DEF RowScheduled, RowMoves
      <2>5. x # c => RowQuiet(x)
        BY <2>m, <2>2, <2>3 DEF RowQuiet
      <2>. QED  BY <2>4, <2>5 DEF RowStep
    <1>2. CASE ApproveProposal(r)
      <2>. DEFINE e == Event("Proposal Approved", 0, n)
      <2>1. c \in Contents
        BY <1>0, <1>2, InFlightType DEF ApproveProposal
      <2>2. e \in Events /\ e.type = "Proposal Approved"
        BY <1>a, <1>b, <2>1, EventFacts
      <2>3. Moves(c, "pending", e) /\ UNCHANGED <<video, drafts, noted>>
        BY <1>2 DEF ApproveProposal
      <2>. HIDE DEF e, c
      <2>m. /\ status[c] = "pending" /\ status'[c] = ResultOf[e.type]
            /\ history'[c] = Append(history[c], e)
            /\ \A y \in Contents : y # c => /\ status'[y] = status[y]
                                            /\ history'[y] = history[y]
        BY <1>0, <2>1, <2>2, <2>3, MovesFacts
      <2>4. x = c => RowScheduled(x)
        BY <2>m, <2>2, <2>3 DEF RowScheduled, RowMoves
      <2>5. x # c => RowQuiet(x)
        BY <2>m, <2>2, <2>3 DEF RowQuiet
      <2>. QED  BY <2>4, <2>5 DEF RowStep
    <1>3. CASE ReadProposal(r)
      BY <1>3, RowsUntouched DEF ReadProposal, contentVars
    <1>4. CASE RejectProposal(r)
      <2>1. c \in Contents /\ Discard(r, c) /\ status[c] = "pending"
        BY <1>0, <1>4, InFlightType DEF RejectProposal
      <2>. HIDE DEF c
      <2>2. x = c => RowDiscarded(x)
        BY <1>0, <2>1 DEF Discard, RowDiscarded, TypeOK
      <2>3. x # c => RowQuiet(x)
        BY <1>0, <2>1 DEF Discard, RowQuiet, TypeOK
      <2>. QED  BY <2>2, <2>3 DEF RowStep
    <1>5. CASE ReadForDraft(r)
      BY <1>5, RowsUntouched DEF ReadForDraft, contentVars
    <1>6. CASE SubmitDraft(r)
      <2>. DEFINE e == Event("Draft Submitted", drafts[c] + 1, n)
      <2>1. c \in Contents /\ requests[r].kind = "draft" /\ requests[r].phase = "read"
        BY <1>0, <1>6, InFlightType DEF SubmitDraft, InFlight
      <2>2. drafts[c] + 1 \in Nat /\ n \in Nat
        BY <1>0, <1>a, <2>1 DEF TypeOK
      <2>3. e \in Events /\ e.type = "Draft Submitted" /\ e.draft = drafts[c] + 1
        BY <1>b, <2>2, EventFacts DEF Event
      <2>4. seen \in {"scheduled", "draft_revision"}
        BY <1>0, <2>1 DEF ReadsAllow, CanSubmitDraft, CanTransition, NEXT_STATUSES,
                          CONTENT_STATUSES, COMMITTED_STATUSES
      <2>5. /\ Moves(c, seen, e)
            /\ drafts' = [drafts EXCEPT ![c] = drafts[c] + 1]
            /\ UNCHANGED <<video, noted>>
        BY <1>6 DEF SubmitDraft
      <2>6. ResultOf["Draft Submitted"] = "draft_review"
        BY DEF ResultOf
      <2>. HIDE DEF e, c, seen
      <2>m. /\ status[c] = seen /\ status'[c] = ResultOf[e.type]
            /\ history'[c] = Append(history[c], e)
            /\ \A y \in Contents : y # c => /\ status'[y] = status[y]
                                            /\ history'[y] = history[y]
        BY <1>0, <2>1, <2>3, <2>5, MovesFacts
      <2>7. x = c => RowHandedIn(x)
        BY <1>0, <2>m, <2>1, <2>3, <2>4, <2>5, <2>6 DEF RowHandedIn, TypeOK
      <2>8. x # c => RowQuiet(x)
        BY <1>0, <2>m, <2>1, <2>5 DEF RowQuiet, TypeOK
      <2>. QED  BY <2>7, <2>8 DEF RowStep
    <1>t. CASE TakeTheTime(r)
      BY <1>t, RowsUntouched DEF TakeTheTime, contentVars
    <1>7. CASE ReadForVideo(r)
      BY <1>7, RowsUntouched DEF ReadForVideo, contentVars
    <1>8. CASE SubmitVideo(r)
      <2>. DEFINE e == Event("Link Submitted", 0, requests[r].since)
                  day == requests[r].clock
      <2>1. /\ c \in Contents /\ day \in Days /\ requests[r].since \in Nat
            /\ requests[r].kind = "video" /\ requests[r].phase = "read"
        BY <1>0, <1>8, InFlightType DEF SubmitVideo, InFlight
      <2>2. e \in Events /\ e.type = "Link Submitted"
        <3>1. "Link Submitted" \in EventTypes /\ requests[r].since \in Nat /\ 0 \in Nat
          BY <1>b, <2>1
        <3>. QED  BY <3>1, EventFacts
      <2>3. seen \in {"draft_review", "draft_approved"}
        BY <1>0, <2>1 DEF ReadsAllow, CanSubmitVideo, CanTransition, NEXT_STATUSES,
                          CONTENT_STATUSES, COMMITTED_STATUSES
      <2>4. /\ Moves(c, seen, e)
            /\ video' = [video EXCEPT ![c] =
                           [handedIn |-> day, bypassed |-> seen # "draft_approved"]]
            /\ UNCHANGED <<drafts, noted>>
        BY <1>8 DEF SubmitVideo
      <2>. HIDE DEF e, c, seen, day
      <2>m. /\ status[c] = seen /\ status'[c] = ResultOf[e.type]
            /\ history'[c] = Append(history[c], e)
            /\ \A y \in Contents : y # c => /\ status'[y] = status[y]
                                            /\ history'[y] = history[y]
        BY <1>0, <2>1, <2>2, <2>4, MovesFacts
      <2>5. x = c => /\ video'[x].handedIn = day
                     /\ video'[x].bypassed = (seen # "draft_approved")
        BY <1>0, <2>1, <2>4 DEF TypeOK
      <2>6. x = c => RowLinked(x)
        <3>1. SUFFICES ASSUME x = c  PROVE RowLinked(x)
          OBVIOUS
        <3>2. /\ status[x] = seen /\ status'[x] = ResultOf["Link Submitted"]
              /\ history'[x] = Append(history[x], e)
          BY <2>m, <2>2, <3>1
        <3>3. RowMoves(x, {"draft_review", "draft_approved"}, "Link Submitted")
          BY <2>2, <2>3, <3>2 DEF RowMoves
        <3>4. video'[x].bypassed = (status[x] # "draft_approved")
          BY <2>5, <3>1, <3>2
        <3>5. drafts'[x] = drafts[x] /\ noted'[x] = noted[x]
          BY <2>4
        <3>. QED  BY <2>1, <2>5, <3>1, <3>3, <3>4, <3>5 DEF RowLinked
      <2>7. x # c => RowQuiet(x)
        BY <1>0, <2>m, <2>1, <2>4 DEF RowQuiet, TypeOK
      <2>. QED  BY <2>6, <2>7 DEF RowStep
    <1>9. CASE \E kind \in Decisions : FindUnderReview(r, kind)
      BY <1>9, RowsUntouched DEF FindUnderReview, contentVars
    <1>10. CASE ApproveDraft(r)
      <2>. DEFINE e == Event("Draft Approved", d, n)
      <2>1. c \in Contents /\ d \in Nat
        BY <1>0, <1>10, InFlightType DEF ApproveDraft
      <2>2. e \in Events /\ e.type = "Draft Approved"
        BY <1>a, <1>b, <2>1, EventFacts
      <2>3. /\ status[c] = "draft_review"
            /\ Moves(c, status[c], e)
            /\ UNCHANGED <<video, drafts, noted>>
        BY <1>10 DEF ApproveDraft, REVIEWABLE_STATUSES
      <2>. HIDE DEF e, c
      <2>m. /\ status[c] = "draft_review" /\ status'[c] = ResultOf[e.type]
            /\ history'[c] = Append(history[c], e)
            /\ \A y \in Contents : y # c => /\ status'[y] = status[y]
                                            /\ history'[y] = history[y]
        BY <1>0, <2>1, <2>2, <2>3, MovesFacts
      <2>4. x = c => RowApproved(x)
        BY <2>m, <2>2, <2>3 DEF RowApproved, RowMoves
      <2>5. x # c => RowQuiet(x)
        BY <2>m, <2>2, <2>3 DEF RowQuiet
      <2>. QED  BY <2>4, <2>5 DEF RowStep
    <1>11. CASE RequestRevision(r)
      <2>. DEFINE e == Event("Revision Requested", d, n)
      <2>1. c \in Contents /\ d \in Nat
        BY <1>0, <1>11, InFlightType DEF RequestRevision
      <2>2. e \in Events /\ e.type = "Revision Requested" /\ e.draft = d
        BY <1>a, <1>b, <2>1, EventFacts DEF Event
      <2>q. requests[r].kind = "revise" /\ requests[r].content = c /\ requests[r].draft = d
        BY <1>11 DEF RequestRevision, InFlight
      <2>3. /\ status[c] = "draft_review"
            /\ Moves(c, status[c], e)
            /\ noted' = [noted EXCEPT ![c] = noted[c] \cup {d}]
            /\ UNCHANGED <<video, drafts>>
        BY <1>11 DEF RequestRevision, REVIEWABLE_STATUSES
      <2>4. ResultOf["Revision Requested"] = "draft_revision"
        BY DEF ResultOf
      <2>. HIDE DEF e, c, d
      <2>m. /\ status[c] = "draft_review" /\ status'[c] = ResultOf[e.type]
            /\ history'[c] = Append(history[c], e)
            /\ \A y \in Contents : y # c => /\ status'[y] = status[y]
                                            /\ history'[y] = history[y]
        BY <1>0, <2>1, <2>2, <2>3, MovesFacts
      <2>5. x = c => RowSentBack(x)
        BY <1>0, <2>m, <2>1, <2>2, <2>3, <2>4, <2>q DEF RowSentBack, TypeOK
      <2>6. x # c => RowQuiet(x)
        BY <1>0, <2>1, <2>m, <2>3 DEF RowQuiet, TypeOK
      <2>. QED  BY <2>5, <2>6 DEF RowStep
    <1>12. CASE GiveUp(r)
      BY <1>12, RowsUntouched DEF GiveUp, contentVars
    <1>. QED
      BY <1>1, <1>2, <1>3, <1>4, <1>5, <1>6, <1>7, <1>8, <1>9, <1>10, <1>11,
         <1>12, <1>t DEF Step

\* Whatever happens, each row takes one of the seven steps.
LEMMA RowsOfNext ==
    ASSUME ReviewInv, [Next]_vars, NEW c \in Contents
    PROVE  RowStep(c) /\ today <= today'
    <1>0. TypeOK /\ today \in Int
      BY DEF ReviewInv, TypeOK, Days
    <1>1. CASE \E r \in Requests : Begin(r)
      <2>1. ScheduleDue /\ today' = today
        BY <1>1 DEF Begin, Arrive
      <2>. QED  BY <1>0, <2>1, RowsOfSchedule
    <1>2. CASE \E r \in Requests : Step(r)
      BY <1>0, <1>2, RowsOfStep, StepToday
    <1>3. CASE \E x \in Contents : AddComment(x)
      BY <1>0, <1>3, RowsUntouched DEF AddComment
    <1>4. CASE ReadOnlyRequest
      BY <1>0, <1>4, RowsOfSchedule DEF ReadOnlyRequest
    <1>5. CASE DayPasses
      BY <1>0, <1>5, RowsUntouched DEF DayPasses, contentVars
    <1>6. CASE UNCHANGED vars
      BY <1>0, <1>6, RowsUntouched DEF vars, contentVars
    <1>. QED  BY <1>1, <1>2, <1>3, <1>4, <1>5, <1>6 DEF Next

-----------------------------------------------------------------------------
(* The journey the rows prove.                                             *)

StepOf(e) ==
    JourneyStep(STEP_FOR[e.type],
        IF e.type \in {"Draft Submitted", "Revision Requested"} THEN e.draft ELSE 0)

Recorded(h) == {StepOf(e) : e \in {h[i] : i \in 2..Len(h)}}

\* The first event records no step, every later one its own.
LEMMA RecordedAppend ==
    ASSUME NEW h \in Seq(Events), NEW e \in Events
    PROVE  /\ h = <<>> => Recorded(Append(h, e)) = {}
           /\ h # <<>> => Recorded(Append(h, e)) = Recorded(h) \cup {StepOf(e)}
    <1>. DEFINE g == Append(h, e)
    <1>1. /\ Len(g) = Len(h) + 1
          /\ \A i \in 1..Len(h) : g[i] = h[i]
          /\ g[Len(h) + 1] = e
      BY AppendFacts
    <1>2. Len(h) \in Nat /\ (h = <<>> <=> Len(h) = 0)
      OBVIOUS
    <1>. HIDE DEF g
    <1>3. ASSUME h = <<>>
          PROVE  Recorded(g) = {}
      <2>1. 2..Len(g) = {}
        BY <1>1, <1>2, <1>3
      <2>. QED  BY <2>1 DEF Recorded
    <1>4. ASSUME h # <<>>
          PROVE  Recorded(g) = Recorded(h) \cup {StepOf(e)}
      <2>1. 2..Len(g) = (2..Len(h)) \cup {Len(h) + 1}
        BY <1>1, <1>2, <1>4
      <2>2. \A i \in 2..Len(h) : g[i] = h[i]
        BY <1>1, <1>2
      <2>3. {g[i] : i \in 2..Len(g)} = {h[i] : i \in 2..Len(h)} \cup {e}
        BY <1>1, <2>1, <2>2
      <2>. QED  BY <2>3 DEF Recorded
    <1>. QED  BY <1>3, <1>4 DEF g

LEMMA StepForFacts ==
    /\ STEP_FOR["Draft Submitted"] = "draft_submitted"
    /\ STEP_FOR["Revision Requested"] = "revision_requested"
    /\ STEP_FOR["Draft Approved"] = "draft_approved"
    /\ STEP_FOR["Link Submitted"] = "link_submitted"
    BY DEF STEP_FOR, EventTypes, ResultOf

\* An event of a row with a history adds its step to what was recorded.
LEMMA RecordedMore ==
    ASSUME TypeOK, HistoryTellsStatus, NEW c \in Contents, NEW e \in Events,
           history'[c] = Append(history[c], e),
           status[c] \notin {"absent", "pending", "removed"}
    PROVE  TracedHistory(c)' = TracedHistory(c) \cup {StepOf(e)}
    <1>1. history[c] \in Seq(Events) /\ history[c] # <<>>
      BY DEF TypeOK, HistoryTellsStatus, IsWalkTo
    <1>2. Recorded(Append(history[c], e)) = Recorded(history[c]) \cup {StepOf(e)}
      BY <1>1, RecordedAppend
    <1>. QED  BY <1>2 DEF TracedHistory, Recorded, StepOf

\* A content without a draft, a note or a link has no past to prove.
LEMMA NoPast ==
    ASSUME NEW c \in Contents, drafts[c] = 0, noted[c] = {},
           video[c].handedIn = NoDay,
           status[c] \notin {"draft_approved", "link_submitted"}
    PROVE  TracedPast(c) = {}
    <1>1. 1..0 = {}
      OBVIOUS
    <1>2. TracedHandIns(c) = {}
      BY <1>1 DEF TracedHandIns
    <1>. QED  BY <1>2 DEF TracedPast, TheLink, ProvesApproval

LEMMA NoPastNext ==
    ASSUME NEW c \in Contents, drafts'[c] = 0, noted'[c] = {},
           video'[c].handedIn = NoDay,
           status'[c] \notin {"draft_approved", "link_submitted"}
    PROVE  TracedPast(c)' = {}
    <1>1. 1..0 = {}
      OBVIOUS
    <1>2. TracedHandIns(c)' = {}
      BY <1>1 DEF TracedHandIns
    <1>. QED  BY <1>2 DEF TracedPast, TheLink, ProvesApproval

LEMMA JourneyKept ==
    ASSUME ReviewInv, RoundsAreTold, NEW c \in Contents, RowStep(c),
           TracedPast(c) = TracedHistory(c)
    PROVE  TracedPast(c)' = TracedHistory(c)'
    <1>0. TypeOK /\ HistoryTellsStatus /\ BypassFlagTellsTheTruth
      BY DEF ReviewInv
    <1>a. drafts[c] \in Nat
      BY <1>0 DEF TypeOK
    <1>b. (status[c] = "link_submitted") = (video[c].handedIn # NoDay)
      BY <1>0 DEF BypassFlagTellsTheTruth
    <1>1. CASE RowQuiet(c)
      <2>1. TracedHandIns(c)' = TracedHandIns(c) /\ TheLink(c)' = TheLink(c)
        BY <1>1 DEF RowQuiet, TracedHandIns, TheLink
      <2>2. ProvesApproval(c)' = ProvesApproval(c)
        BY <1>1 DEF RowQuiet, ProvesApproval
      <2>3. TracedHistory(c)' = TracedHistory(c)
        BY <1>1 DEF RowQuiet, TracedHistory
      <2>. QED  BY <2>1, <2>2, <2>3 DEF TracedPast
    <1>2. CASE RowScheduled(c)
      <2>1. PICK type \in {"Scheduled", "Proposal Approved", "Auto Scheduled"},
                 e \in Events :
              /\ status[c] \in {"absent", "pending"}
              /\ status'[c] = ResultOf[type]
              /\ history'[c] = Append(history[c], e)
        BY <1>2 DEF RowScheduled, RowMoves
      <2>2. history[c] \in Seq(Events) /\ history[c] = <<>>
        BY <1>0, <2>1 DEF TypeOK, HistoryTellsStatus, IsWalkTo
      <2>3. Recorded(Append(history[c], e)) = {}
        BY <2>2, RecordedAppend
      <2>4. TracedHistory(c)' = {}
        BY <2>1, <2>3 DEF TracedHistory, Recorded, StepOf
      <2>5. status'[c] = "scheduled"
        BY <2>1 DEF ResultOf
      <2>6. drafts[c] = 0 /\ noted[c] = {} /\ video[c].handedIn = NoDay
        BY <1>b, <2>1 DEF RoundsAreTold
      <2>7. drafts'[c] = 0 /\ noted'[c] = {} /\ video'[c].handedIn = NoDay
        BY <1>2, <2>6 DEF RowScheduled
      <2>. QED  BY <2>4, <2>5, <2>7, NoPastNext
    <1>3. CASE RowHandedIn(c)
      <2>1. PICK e \in Events : /\ e.type = "Draft Submitted"
                                /\ e.draft = drafts[c] + 1
                                /\ history'[c] = Append(history[c], e)
        BY <1>3 DEF RowHandedIn
      <2>2. StepOf(e) = JourneyStep("draft_submitted", drafts[c] + 1)
        BY <2>1, StepForFacts DEF StepOf
      <2>3. TracedHistory(c)' = TracedHistory(c) \cup {StepOf(e)}
        BY <1>0, <1>3, <2>1, RecordedMore DEF RowHandedIn
      <2>4. 1..(drafts[c] + 1) = (1..drafts[c]) \cup {drafts[c] + 1}
        BY <1>a
      <2>5. TracedHandIns(c)' = TracedHandIns(c) \cup {JourneyStep("draft_submitted", drafts[c] + 1)}
        BY <1>3, <2>4 DEF RowHandedIn, TracedHandIns
      <2>6. TheLink(c)' = TheLink(c) /\ ~ProvesApproval(c) /\ ~ProvesApproval(c)'
        BY <1>3 DEF RowHandedIn, TheLink, ProvesApproval
      <2>7. TracedPast(c)' = TracedPast(c) \cup {JourneyStep("draft_submitted", drafts[c] + 1)}
        BY <2>5, <2>6 DEF TracedPast
      <2>. QED  BY <2>2, <2>3, <2>7
    <1>4. CASE RowSentBack(c)
      <2>1. PICK e \in Events : /\ e.type = "Revision Requested"
                                /\ noted'[c] = noted[c] \cup {e.draft}
                                /\ history'[c] = Append(history[c], e)
        BY <1>4 DEF RowSentBack
      <2>2. StepOf(e) = JourneyStep("revision_requested", e.draft)
        BY <2>1, StepForFacts DEF StepOf
      <2>3. TracedHistory(c)' = TracedHistory(c) \cup {StepOf(e)}
        BY <1>0, <1>4, <2>1, RecordedMore DEF RowSentBack
      <2>4. TracedHandIns(c)' = TracedHandIns(c) \cup {JourneyStep("revision_requested", e.draft)}
        BY <1>4, <2>1 DEF RowSentBack, TracedHandIns
      <2>5. TheLink(c)' = TheLink(c) /\ ~ProvesApproval(c) /\ ~ProvesApproval(c)'
        BY <1>4 DEF RowSentBack, TheLink, ProvesApproval
      <2>6. TracedPast(c)' = TracedPast(c) \cup {JourneyStep("revision_requested", e.draft)}
        BY <2>4, <2>5 DEF TracedPast
      <2>. QED  BY <2>2, <2>3, <2>6
    <1>5. CASE RowApproved(c)
      <2>1. PICK e \in Events : /\ e.type = "Draft Approved"
                                /\ history'[c] = Append(history[c], e)
        BY <1>5 DEF RowApproved, RowMoves
      <2>2. StepOf(e) = JourneyStep("draft_approved", 0)
        BY <2>1, StepForFacts DEF StepOf
      <2>3. status[c] = "draft_review" /\ status'[c] = "draft_approved"
        BY <1>5 DEF RowApproved, RowMoves, ResultOf
      <2>4. TracedHistory(c)' = TracedHistory(c) \cup {StepOf(e)}
        BY <1>0, <2>1, <2>3, RecordedMore
      <2>5. TracedHandIns(c)' = TracedHandIns(c) /\ TheLink(c)' = TheLink(c)
        BY <1>5 DEF RowApproved, TracedHandIns, TheLink
      <2>6. ~ProvesApproval(c) /\ ProvesApproval(c)'
        BY <2>3 DEF ProvesApproval
      <2>7. TracedPast(c)' = TracedPast(c) \cup {JourneyStep("draft_approved", 0)}
        BY <2>5, <2>6 DEF TracedPast
      <2>. QED  BY <2>2, <2>4, <2>7
    <1>6. CASE RowLinked(c)
      <2>1. PICK e \in Events : /\ e.type = "Link Submitted"
                                /\ history'[c] = Append(history[c], e)
        BY <1>6 DEF RowLinked, RowMoves
      <2>2. StepOf(e) = JourneyStep("link_submitted", 0)
        BY <2>1, StepForFacts DEF StepOf
      <2>3. /\ status[c] \in {"draft_review", "draft_approved"}
            /\ status'[c] = "link_submitted"
        BY <1>6 DEF RowLinked, RowMoves, ResultOf
      <2>4. TracedHistory(c)' = TracedHistory(c) \cup {StepOf(e)}
        BY <1>0, <2>1, <2>3, RecordedMore
      <2>5. TracedHandIns(c)' = TracedHandIns(c)
        BY <1>6 DEF RowLinked, TracedHandIns
      <2>6. TheLink(c) = {} /\ TheLink(c)' = {JourneyStep("link_submitted", 0)}
        <3>1. NoDay \notin Days
          BY ContentReviewAssumption DEF Days, NoDay
        <3>2. video[c].handedIn = NoDay /\ video'[c].handedIn # NoDay
          BY <1>6, <1>b, <2>3, <3>1 DEF RowLinked
        <3>. QED  BY <3>2 DEF TheLink
      <2>7. ProvesApproval(c)' = ProvesApproval(c)
        <3>1. drafts[c] > 0
          BY <2>3 DEF RoundsAreTold
        <3>2. drafts'[c] = drafts[c] /\ video'[c].bypassed = (status[c] # "draft_approved")
          BY <1>6 DEF RowLinked
        <3>. QED  BY <2>3, <3>1, <3>2 DEF ProvesApproval
      <2>8. TracedPast(c)' = TracedPast(c) \cup {JourneyStep("link_submitted", 0)}
        BY <2>5, <2>6, <2>7 DEF TracedPast
      <2>. QED  BY <2>2, <2>4, <2>8
    <1>7. CASE RowDiscarded(c)
      <2>1. Len(<<>>) = 0 /\ 2..0 = {}
        OBVIOUS
      <2>2. TracedHistory(c)' = {}
        BY <1>7, <2>1 DEF RowDiscarded, TracedHistory
      <2>3. TracedPast(c)' = {}
        BY <1>7, NoPastNext DEF RowDiscarded, NoVideo
      <2>. QED  BY <2>2, <2>3
    <1>. QED  BY <1>1, <1>2, <1>3, <1>4, <1>5, <1>6, <1>7 DEF RowStep

\* Drafts and notes come in turn.
LEMMA RoundsKept ==
    ASSUME ReviewInv, RoundsAreTold, NEW c \in Contents, RowStep(c),
           IsFiniteSet(noted[c])
    PROVE  /\ status'[c] \in {"absent", "pending", "removed", "scheduled"}
                => drafts'[c] = 0 /\ noted'[c] = {}
           /\ status'[c] = "draft_review"
                => drafts'[c] > 0 /\ (drafts'[c] > 1) = (noted'[c] # {})
           /\ status'[c] = "draft_revision" => drafts'[c] > 0 /\ noted'[c] # {}
           /\ status'[c] = "draft_approved" => drafts'[c] > 0
           /\ IsFiniteSet(noted'[c])
    <1>a. drafts[c] \in Nat
      BY DEF ReviewInv, TypeOK
    <1>1. CASE RowQuiet(c)
      BY <1>1 DEF RowQuiet, RoundsAreTold
    <1>2. CASE RowScheduled(c)
      <2>1. status[c] \in {"absent", "pending"} /\ status'[c] = "scheduled"
        BY <1>2 DEF RowScheduled, RowMoves, ResultOf
      <2>2. drafts'[c] = drafts[c] /\ noted'[c] = noted[c]
        BY <1>2 DEF RowScheduled
      <2>. QED  BY <2>1, <2>2 DEF RoundsAreTold
    <1>3. CASE RowHandedIn(c)
      <2>1. /\ status'[c] = "draft_review"
            /\ drafts'[c] = drafts[c] + 1 /\ noted'[c] = noted[c]
            /\ status[c] \in {"scheduled", "draft_revision"}
        BY <1>3 DEF RowHandedIn
      <2>2. drafts'[c] > 0
        BY <1>a, <2>1
      <2>3. CASE status[c] = "scheduled"
        <3>1. drafts[c] = 0 /\ noted[c] = {}
          BY <2>3 DEF RoundsAreTold
        <3>2. ~(drafts'[c] > 1) /\ ~(noted'[c] # {})
          BY <2>1, <3>1
        <3>. QED  BY <2>1, <2>2, <3>2
      <2>4. CASE status[c] = "draft_revision"
        <3>1. drafts[c] > 0 /\ noted[c] # {}
          BY <2>4 DEF RoundsAreTold
        <3>2. drafts'[c] > 1 /\ noted'[c] # {}
          BY <1>a, <2>1, <3>1
        <3>. QED  BY <2>1, <2>2, <3>2
      <2>. QED  BY <2>1, <2>3, <2>4
    <1>4. CASE RowSentBack(c)
      <2>1. PICK e \in Events : noted'[c] = noted[c] \cup {e.draft}
        BY <1>4 DEF RowSentBack
      <2>2. IsFiniteSet(noted'[c])
        BY <2>1, FS_AddElement
      <2>3. noted'[c] # {}
        BY <2>1
      <2>. QED  BY <1>4, <2>2, <2>3 DEF RowSentBack, RoundsAreTold
    <1>5. CASE RowApproved(c)
      <2>1. status[c] = "draft_review" /\ status'[c] = "draft_approved"
        BY <1>5 DEF RowApproved, RowMoves, ResultOf
      <2>. QED  BY <1>5, <2>1 DEF RowApproved, RoundsAreTold
    <1>6. CASE RowLinked(c)
      <2>1. status'[c] = "link_submitted"
        BY <1>6 DEF RowLinked, RowMoves, ResultOf
      <2>. QED  BY <1>6, <2>1 DEF RowLinked
    <1>7. CASE RowDiscarded(c)
      BY <1>7, FS_EmptySet DEF RowDiscarded
    <1>. QED  BY <1>1, <1>2, <1>3, <1>4, <1>5, <1>6, <1>7 DEF RowStep

\* The day of the latest hand-in is taken from the clock, and forgotten with it.
LEMMA DaysKept ==
    ASSUME ReviewInv, TypeOK', HandInDaysArePast, DraftDays, today <= today'
    PROVE  HandInDaysArePast'
    <1>0. today \in Days /\ today' \in Days /\ LastDay \in Nat
      BY ContentReviewAssumption DEF ReviewInv, TypeOK
    <1>1. ASSUME NEW c \in Contents
          PROVE  /\ draftDay'[c] \in Days \cup {NoDay}
                 /\ draftDay'[c] <= today'
                 /\ drafts'[c] = 0 => draftDay'[c] = NoDay
      <2>1. /\ draftDay'[c] = CASE drafts'[c] > drafts[c] -> today
                                [] drafts'[c] = 0         -> NoDay
                                [] OTHER                  -> draftDay[c]
        BY DEF DraftDays
      <2>2. /\ draftDay[c] \in Days \cup {NoDay}
            /\ draftDay[c] <= today
            /\ drafts[c] = 0 => draftDay[c] = NoDay
        BY DEF HandInDaysArePast
      <2>3. drafts[c] \in Nat /\ drafts'[c] \in Nat
        BY DEF ReviewInv, TypeOK
      <2>4. CASE drafts'[c] > drafts[c]
        BY <1>0, <2>1, <2>3, <2>4
      <2>5. CASE drafts'[c] = 0
        BY <1>0, <2>1, <2>3, <2>5 DEF Days, NoDay
      <2>6. CASE ~(drafts'[c] > drafts[c]) /\ drafts'[c] # 0
        BY <1>0, <2>1, <2>2, <2>3, <2>6 DEF Days, NoDay
      <2>. QED  BY <2>4, <2>5, <2>6
    <1>2. draftDay' \in [Contents -> Days \cup {NoDay}]
      <2>1. DOMAIN draftDay' = Contents /\ draftDay' = [c \in Contents |-> draftDay'[c]]
        BY DEF DraftDays
      <2>. QED  BY <1>1, <2>1
    <1>. QED  BY <1>1, <1>2 DEF HandInDaysArePast

\* A request for a decision keeps the draft it named until it ends.
LEMMA DecisionsOfStep ==
    ASSUME TypeOK, NEW r \in Requests, Step(r), NEW q \in Requests,
           requests'[q].kind \in Decisions
    PROVE  /\ requests[q].kind = requests'[q].kind
           /\ requests[q].draft = requests'[q].draft
           /\ requests[q].content = requests'[q].content
    <1>0. "none" \notin Decisions
      BY DEF Decisions
    <1>1. \/ Finish(r)
          \/ \E seen : Proceed(r, seen) /\ requests[r].phase # "idle"
          \/ TakeTheTime(r)
          \/ UNCHANGED requests
      BY DEF Step, Create, ApproveProposal, ReadProposal, RejectProposal, Discard,
             ReadForDraft, SubmitDraft, ReadForVideo, SubmitVideo,
             FindUnderReview, ApproveDraft, RequestRevision, GiveUp, InFlight
    <1>2. CASE Finish(r)
      BY <1>0, <1>2 DEF TypeOK, Finish, Idle
    <1>3. CASE \E seen : Proceed(r, seen) /\ requests[r].phase # "idle"
      <2>1. PICK seen : Proceed(r, seen) /\ requests[r].phase # "idle"
        BY <1>3
      <2>2. requests[r] \in RequestStates
        BY <2>1 DEF TypeOK, Idle
      <2>. QED  BY <2>1, <2>2 DEF TypeOK, Proceed, RequestStates
    <1>4. CASE TakeTheTime(r)
      <2>1. requests[r] \in RequestStates
        BY <1>4 DEF TypeOK, TakeTheTime, InFlight, Idle
      <2>. QED  BY <1>4, <2>1 DEF TypeOK, TakeTheTime, RequestStates
    <1>. QED  BY <1>1, <1>2, <1>3, <1>4

\* Drafts are given up only with a proposal, which has none.
LEMMA DraftsStay ==
    ASSUME ReviewInv, RoundsAreTold, NEW c \in Contents, RowStep(c)
    PROVE  1..drafts[c] \subseteq 1..drafts'[c]
    <1>1. drafts[c] \in Nat
      BY DEF ReviewInv, TypeOK
    <1>2. drafts'[c] = drafts[c] \/ drafts'[c] = drafts[c] + 1 \/ drafts[c] = 0
      BY DEF RowStep, RowQuiet, RowScheduled, RowHandedIn, RowSentBack, RowApproved,
             RowLinked, RowDiscarded, RoundsAreTold
    <1>. QED  BY <1>1, <1>2

LEMMA NamesKept ==
    ASSUME ReviewInv, RoundsAreTold, DecisionsNameDrafts, [Next]_vars
    PROVE  DecisionsNameDrafts'
    <1>0. TypeOK /\ TypeOK'
      BY NextInv DEF ReviewInv
    <1>1. ASSUME NEW q \in Requests, requests'[q].kind \in Decisions
          PROVE  requests'[q].draft \in 1..drafts'[requests'[q].content]
      <2>1. requests'[q].content \in Contents
        BY <1>0, <1>1 DEF TypeOK, RequestStates, Idle, Decisions
      <2>2. ASSUME requests[q].kind \in Decisions,
                   requests[q].draft = requests'[q].draft,
                   requests[q].content = requests'[q].content
            PROVE  requests'[q].draft \in 1..drafts'[requests'[q].content]
        <3>1. requests[q].draft \in 1..drafts[requests[q].content]
          BY <2>2 DEF DecisionsNameDrafts
        <3>2. RowStep(requests'[q].content)
          BY <2>1, RowsOfNext
        <3>3. 1..drafts[requests'[q].content] \subseteq 1..drafts'[requests'[q].content]
          BY <2>1, <3>2, DraftsStay
        <3>. QED  BY <2>2, <3>1, <3>3
      <2>3. CASE \E r \in Requests : Begin(r)
        <3>1. PICK r \in Requests : Begin(r)
          BY <2>3
        <3>2. CASE q # r
          <4>1. requests'[q] = requests[q]
            BY <1>0, <3>1, <3>2 DEF Begin, Arrive, TypeOK
          <4>. QED  BY <1>1, <2>2, <4>1
        <3>3. CASE \E c \in Contents, kind \in Kinds \ Decisions :
                     Arrive(r, kind, c, 0) /\ q = r
          <4>1. requests'[q].kind \notin Decisions
            BY <1>0, <3>3 DEF Arrive, TypeOK
          <4>. QED  BY <1>1, <4>1
        <3>4. CASE \E c \in Contents, kind \in Decisions :
                     \E d \in 1..drafts[c] : Arrive(r, kind, c, d) /\ q = r
          <4>1. PICK c \in Contents, kind \in Decisions :
                       \E d \in 1..drafts[c] : Arrive(r, kind, c, d) /\ q = r
            BY <3>4
          <4>2. PICK d \in 1..drafts[c] : Arrive(r, kind, c, d) /\ q = r
            BY <4>1
          <4>3. requests'[q].content = c /\ requests'[q].draft = d
            BY <1>0, <4>2 DEF Arrive, TypeOK
          <4>4. drafts' = drafts
            BY <4>2 DEF Arrive, ScheduleDue
          <4>. QED  BY <4>3, <4>4
        <3>. QED  BY <3>1, <3>2, <3>3, <3>4 DEF Begin
      <2>4. CASE \E r \in Requests : Step(r)
        BY <1>0, <1>1, <2>2, <2>4, DecisionsOfStep
      <2>5. CASE UNCHANGED requests
        BY <1>1, <2>2, <2>5
      <2>6. \/ \E r \in Requests : Begin(r)
            \/ \E r \in Requests : Step(r)
            \/ UNCHANGED requests
        BY DEF Next, AddComment, ReadOnlyRequest, DayPasses, vars
      <2>. QED  BY <2>3, <2>4, <2>5, <2>6
    <1>. QED  BY <1>1 DEF DecisionsNameDrafts

\* A history in which every revision follows the hand-in of its draft.
Follows(h) ==
    \A i \in 1..Len(h) : IsRevision(h[i]) =>
        \E k \in 1..(i - 1) : IsHandIn(h[k]) /\ h[k].draft = h[i].draft

LEMMA FollowsAppend ==
    ASSUME NEW h \in Seq(Events), NEW e \in Events, NEW n \in Nat, Follows(h),
           NumbersHandIns(h, n), IsRevision(e) => e.draft \in 1..n
    PROVE  Follows(Append(h, e))
    <1>. DEFINE g == Append(h, e)
    <1>1. /\ Len(g) = Len(h) + 1
          /\ \A i \in 1..Len(h) : g[i] = h[i]
          /\ g[Len(h) + 1] = e
      BY AppendFacts
    <1>2. Len(h) \in Nat
      OBVIOUS
    <1>. HIDE DEF g
    <1>3. ASSUME NEW i \in 1..Len(g), IsRevision(g[i])
          PROVE  \E k \in 1..(i - 1) : IsHandIn(g[k]) /\ g[k].draft = g[i].draft
      <2>1. CASE i = Len(h) + 1
        <3>1. e.draft \in 1..n
          BY <1>1, <1>3, <2>1
        <3>2. PICK k \in 1..Len(h) : IsHandIn(h[k]) /\ h[k].draft = e.draft
          BY <3>1 DEF NumbersHandIns
        <3>3. k \in 1..(i - 1) /\ g[k] = h[k] /\ g[i] = e
          BY <1>1, <1>2, <2>1
        <3>. QED  BY <3>2, <3>3
      <2>2. CASE i # Len(h) + 1
        <3>1. i \in 1..Len(h) /\ g[i] = h[i]
          BY <1>1, <1>2, <2>2
        <3>2. PICK k \in 1..(i - 1) : IsHandIn(h[k]) /\ h[k].draft = h[i].draft
          BY <1>3, <3>1 DEF Follows
        <3>3. g[k] = h[k]
          BY <1>1, <1>2, <3>1
        <3>. QED  BY <3>1, <3>2, <3>3
      <2>. QED  BY <2>1, <2>2
    <1>. QED  BY <1>3 DEF Follows, g

LEMMA RevisionsKept ==
    ASSUME ReviewInv, DecisionsNameDrafts, NEW c \in Contents, RowStep(c),
           Follows(history[c])
    PROVE  Follows(history'[c])
    <1>1. /\ history[c] \in Seq(Events) /\ drafts[c] \in Nat
          /\ NumbersHandIns(history[c], drafts[c])
      BY DEF ReviewInv, TypeOK, VersionsCountHandIns
    <1>2. ASSUME NEW e \in Events, history'[c] = Append(history[c], e),
                 IsRevision(e) => e.draft \in 1..drafts[c]
          PROVE  Follows(history'[c])
      BY <1>1, <1>2, FollowsAppend
    <1>3. CASE RowQuiet(c)
      BY <1>3 DEF RowQuiet
    <1>4. CASE RowSentBack(c)
      <2>1. PICK e \in Events :
                   /\ history'[c] = Append(history[c], e)
                   /\ \E r \in Requests : /\ requests[r].kind = "revise"
                                          /\ requests[r].content = c
                                          /\ requests[r].draft = e.draft
        BY <1>4 DEF RowSentBack
      <2>2. e.draft \in 1..drafts[c]
        BY <2>1 DEF DecisionsNameDrafts, Decisions
      <2>. QED  BY <1>2, <2>1, <2>2
    <1>5. CASE RowDiscarded(c)
      <2>1. history'[c] = <<>> /\ 1..0 = {} /\ Len(<<>>) = 0
        BY <1>5 DEF RowDiscarded
      <2>. QED  BY <2>1 DEF Follows
    <1>6. CASE RowScheduled(c) \/ RowHandedIn(c) \/ RowApproved(c) \/ RowLinked(c)
      <2>1. PICK e \in Events : /\ history'[c] = Append(history[c], e)
                                /\ ~IsRevision(e)
        BY <1>6 DEF RowScheduled, RowHandedIn, RowApproved, RowLinked, RowMoves,
                    IsRevision
      <2>. QED  BY <1>2, <2>1
    <1>. QED  BY <1>3, <1>4, <1>5, <1>6 DEF RowStep

-----------------------------------------------------------------------------
LEMMA ViewStepIsNext == [ViewNext]_viewVars => [Next]_vars
    BY DEF ViewNext, viewVars, vars

LEMMA ViewNextInv == ViewInv /\ [ViewNext]_viewVars => ViewInv'
    <1>. SUFFICES ASSUME ViewInv, [ViewNext]_viewVars
                  PROVE  ViewInv'
      OBVIOUS
    <1>0. /\ ReviewInv /\ [Next]_vars /\ RoundsAreTold /\ RowsTellTheJourney
          /\ HandInDaysArePast
      BY ViewStepIsNext DEF ViewInv
    <1>1. ReviewInv'
      BY <1>0, NextInv
    <1>2. ASSUME NEW c \in Contents
          PROVE  RowStep(c)
      BY <1>0, RowsOfNext
    <1>3. RoundsAreTold' /\ \A c \in Contents : IsFiniteSet(noted'[c])
      <2>1. ASSUME NEW c \in Contents
            PROVE  /\ status'[c] \in {"absent", "pending", "removed", "scheduled"}
                        => drafts'[c] = 0 /\ noted'[c] = {}
                   /\ status'[c] = "draft_review"
                        => drafts'[c] > 0 /\ (drafts'[c] > 1) = (noted'[c] # {})
                   /\ status'[c] = "draft_revision" => drafts'[c] > 0 /\ noted'[c] # {}
                   /\ status'[c] = "draft_approved" => drafts'[c] > 0
                   /\ IsFiniteSet(noted'[c])
        BY <1>0, <1>2, RoundsKept DEF ViewInv
      <2>. QED  BY <2>1 DEF RoundsAreTold
    <1>4. RowsTellTheJourney'
      <2>1. ASSUME NEW c \in Contents
            PROVE  TracedPast(c)' = TracedHistory(c)'
        BY <1>0, <1>2, JourneyKept DEF RowsTellTheJourney
      <2>. QED  BY <2>1 DEF RowsTellTheJourney
    <1>5. HandInDaysArePast'
      <2>1. today <= today' \/ Contents = {}
        BY <1>0, RowsOfNext
      <2>2. CASE DraftDays /\ today <= today'
        BY <1>0, <1>1, <2>2, DaysKept DEF ReviewInv
      <2>3. CASE UNCHANGED viewVars
        BY <1>0, <2>3 DEF viewVars, vars, contentVars, HandInDaysArePast
      <2>4. CASE Contents = {} /\ DraftDays
        BY <2>4 DEF DraftDays, HandInDaysArePast
      <2>. QED  BY <2>1, <2>2, <2>3, <2>4 DEF ViewNext
    <1>6. DecisionsNameDrafts'
      BY <1>0, NamesKept DEF ViewInv
    <1>7. RevisionsFollowDrafts'
      <2>1. ASSUME NEW c \in Contents
            PROVE  Follows(history'[c])
        <3>1. Follows(history[c])
          BY DEF ViewInv, RevisionsFollowDrafts, Revisions, Follows
        <3>. QED  BY <1>0, <1>2, <3>1, RevisionsKept DEF ViewInv
      <2>. QED  BY <2>1 DEF RevisionsFollowDrafts, Revisions, Follows
    <1>. QED  BY <1>1, <1>3, <1>4, <1>5, <1>6, <1>7 DEF ViewInv

LEMMA ViewInitInv == ViewInit => ViewInv
    <1>. SUFFICES ASSUME ViewInit
                  PROVE  ViewInv
      OBVIOUS
    <1>1. ReviewInv /\ Init
      BY InitInv DEF ViewInit
    <1>2. \A c \in Contents :
            /\ status[c] \in {"absent", "pending"}
            /\ video[c].handedIn = NoDay
            /\ drafts[c] = 0
            /\ noted[c] = {}
            /\ history[c] = <<>>
      BY <1>1 DEF Init, NoVideo
    <1>3. RoundsAreTold /\ \A c \in Contents : IsFiniteSet(noted[c])
      BY <1>2, FS_EmptySet DEF RoundsAreTold
    <1>4. RowsTellTheJourney
      <2>1. ASSUME NEW c \in Contents
            PROVE  TracedPast(c) = {} /\ TracedHistory(c) = {}
        <3>1. Len(<<>>) = 0 /\ 2..0 = {}
          OBVIOUS
        <3>2. TracedHistory(c) = {}
          BY <1>2, <3>1 DEF TracedHistory
        <3>. QED  BY <1>2, <3>2, NoPast
      <2>. QED  BY <2>1 DEF RowsTellTheJourney
    <1>5. HandInDaysArePast
      <2>1. draftDay = [c \in Contents |-> NoDay] /\ today = 0 /\ NoDay <= 0
        BY <1>1 DEF ViewInit, Init, NoDay
      <2>. QED  BY <2>1 DEF HandInDaysArePast
    <1>6. DecisionsNameDrafts
      <2>1. \A r \in Requests : requests[r].kind = "none"
        BY <1>1 DEF Init, Idle
      <2>. QED  BY <2>1 DEF DecisionsNameDrafts, Decisions
    <1>7. RevisionsFollowDrafts
      <2>1. \A c \in Contents : Revisions(c) = {}
        <3>1. Len(<<>>) = 0 /\ 1..0 = {}
          OBVIOUS
        <3>. QED  BY <1>2, <3>1 DEF Revisions
      <2>. QED  BY <2>1 DEF RevisionsFollowDrafts
    <1>. QED  BY <1>1, <1>3, <1>4, <1>5, <1>6, <1>7 DEF ViewInv

\* The rounds, the journeys and the days of the rows, in every behaviour.
THEOREM ViewInvariant == ViewSpec => []ViewInv
    BY ViewInitInv, ViewNextInv, PTL DEF ViewSpec

-----------------------------------------------------------------------------
(* The views agree.                                                        *)

\* Each status has its own tab, on either list.
LEMMA TabFacts ==
    /\ TabOf["pending"] = "needs_approval"
    /\ TabOf["draft_review"] = "needs_approval"
    /\ TabOf["scheduled"] = "waiting_creator"
    /\ TabOf["draft_revision"] = "waiting_creator"
    /\ TabOf["draft_approved"] = "waiting_creator"
    /\ TabOf["link_submitted"] = "done"
    /\ MyTabOf["draft_review"] = "waiting_admin"
    /\ MyTabOf["scheduled"] = "to_do"
    /\ MyTabOf["draft_revision"] = "to_do"
    /\ MyTabOf["draft_approved"] = "to_do"
    /\ MyTabOf["link_submitted"] = "done"
    <1>1. ASSUME NEW s \in CONTENT_STATUSES, NEW tab \in DOMAIN TAB_STATUSES,
                 s \in TAB_STATUSES[tab],
                 \A other \in DOMAIN TAB_STATUSES :
                    s \in TAB_STATUSES[other] => other = tab
          PROVE  TabOf[s] = tab
      BY <1>1 DEF TabOf
    <1>2. ASSUME NEW s \in COMMITTED_STATUSES, NEW tab \in DOMAIN MY_TASK_TAB_STATUSES,
                 s \in MY_TASK_TAB_STATUSES[tab],
                 \A other \in DOMAIN MY_TASK_TAB_STATUSES :
                    s \in MY_TASK_TAB_STATUSES[other] => other = tab
          PROVE  MyTabOf[s] = tab
      BY <1>2 DEF MyTabOf
    <1>3. /\ TabOf["pending"] = "needs_approval"
          /\ TabOf["draft_review"] = "needs_approval"
          /\ TabOf["scheduled"] = "waiting_creator"
          /\ TabOf["draft_revision"] = "waiting_creator"
          /\ TabOf["draft_approved"] = "waiting_creator"
          /\ TabOf["link_submitted"] = "done"
      BY <1>1 DEF TAB_STATUSES, CONTENT_STATUSES
    <1>4. /\ MyTabOf["draft_review"] = "waiting_admin"
          /\ MyTabOf["scheduled"] = "to_do"
          /\ MyTabOf["draft_revision"] = "to_do"
          /\ MyTabOf["draft_approved"] = "to_do"
          /\ MyTabOf["link_submitted"] = "done"
      BY <1>2 DEF MY_TASK_TAB_STATUSES, TAB_STATUSES, COMMITTED_STATUSES, CONTENT_STATUSES
    <1>. QED  BY <1>3, <1>4

\* When a creator has a button.
LEMMA ButtonFacts ==
    ASSUME NEW c \in Contents, status[c] \in COMMITTED_STATUSES
    PROVE  TaskActions(c) # {} <=>
             \/ status[c] \in {"scheduled", "draft_revision", "draft_approved"}
             \/ status[c] = "draft_review" /\ InGraceWindow(Deadline[c], today)
    <1>1. TaskActions(c) # {} <=>
             \/ CanSubmitVideo(status[c], Deadline[c], today)
             \/ CanSubmitDraft(status[c])
      BY DEF TaskActions
    <1>2. CanSubmitDraft(status[c]) <=> status[c] \in {"scheduled", "draft_revision"}
      BY DEF CanSubmitDraft, CanTransition, NEXT_STATUSES, COMMITTED_STATUSES,
             CONTENT_STATUSES
    <1>3. CanTransition(status[c], "link_submitted")
            <=> status[c] \in {"draft_review", "draft_approved"}
      BY DEF CanTransition, NEXT_STATUSES, COMMITTED_STATUSES, CONTENT_STATUSES
    <1>4. CanSubmitVideo(status[c], Deadline[c], today) <=>
             \/ status[c] = "draft_approved"
             \/ status[c] = "draft_review" /\ InGraceWindow(Deadline[c], today)
      BY <1>3 DEF CanSubmitVideo
    <1>. QED  BY <1>1, <1>2, <1>4

LEMMA PeriodsHide == ViewInv => PeriodsHideNoWork
    <1>. SUFFICES ASSUME ViewInv
                  PROVE  PeriodsHideNoWork
      OBVIOUS
    <1>1. ASSUME NEW c \in Stored,
                 status[c] = "pending" \/ status[c] \in REVIEWABLE_STATUSES,
                 NEW period \in Periods
          PROVE  c \in PlanTab(period, "needs_approval")
      <2>1. status[c] \in {"pending", "draft_review"}
        BY <1>1 DEF REVIEWABLE_STATUSES
      <2>2. TabOf[status[c]] = "needs_approval"
        BY <2>1, TabFacts
      <2>3. c \in Narrowing(period)
        BY <2>1 DEF Narrowing, TAB_STATUSES, PERIOD_FREE_TAB
      <2>. QED  BY <2>2, <2>3 DEF PlanTab, PERIOD_FREE_TAB
    <1>2. ASSUME NEW c \in Contents, Committed(c), TaskActions(c) # {},
                 NEW period \in Periods
          PROVE  c \in TaskTab(period, "to_do")
      <2>1. \/ status[c] \in {"scheduled", "draft_revision", "draft_approved"}
            \/ status[c] = "draft_review" /\ InGraceWindow(Deadline[c], today)
        BY <1>2, ButtonFacts DEF Committed
      <2>2. today \in Int /\ Deadline[c] \in Int
        BY ContentReviewAssumption DEF ViewInv, ReviewInv, TypeOK, Days
      <2>3. InGraceWindow(Deadline[c], today) => Deadline[c] <= LastGraceDeadline(today)
        BY <2>2 DEF InGraceWindow, LastGraceDeadline, GRACE_DAYS
      <2>4. c \in MyNarrowing(period)
        BY <1>2, <2>1, <2>3 DEF MyNarrowing, MY_TASK_TAB_STATUSES, TAB_STATUSES,
                                PERIOD_FREE_MY_TAB
      <2>5. MyTab(c) = "to_do"
        BY <1>2 DEF MyTab
      <2>. QED  BY <2>4, <2>5 DEF TaskTab, PERIOD_FREE_MY_TAB
    <1>. QED  BY <1>1, <1>2 DEF PeriodsHideNoWork

LEMMA QueueMatches == ViewInv => QueueMatchesThePlan
    <1>. SUFFICES ASSUME ViewInv
                  PROVE  QueueMatchesThePlan
      OBVIOUS
    <1>. DEFINE everyDay == [from |-> NoLimit, to |-> NoLimit]
    <1>0. RoundsAreTold
      BY DEF ViewInv
    <1>1. \A c \in Contents : WithinPeriod(everyDay, Deadline[c])
      BY DEF WithinPeriod
    <1>2. \A c \in Contents : drafts[c] \in Nat /\ status[c] \in RowStatuses
      BY DEF ViewInv, ReviewInv, TypeOK
    <1>. HIDE DEF everyDay
    <1>3. \A c \in Contents : c \in QueueWhere <=> status[c] = "draft_review"
      BY <1>0 DEF QueueWhere, REVIEWABLE_STATUSES, RoundsAreTold
    <1>4. ASSUME NEW c \in Contents
          PROVE  c \in PlanTab(everyDay, "needs_approval") /\ status[c] # "pending"
                    <=> status[c] = "draft_review"
      <2>1. c \in PlanTab(everyDay, "needs_approval") <=>
              /\ c \in Stored
              /\ TabOf[status[c]] = "needs_approval"
        BY <1>1 DEF PlanTab, Narrowing, Stored
      <2>2. c \in Stored <=> status[c] \in CONTENT_STATUSES
        BY DEF Stored
      <2>. QED  BY <2>1, <2>2, TabFacts DEF CONTENT_STATUSES
    <1>5. QueueWhere = {c \in PlanTab(everyDay, "needs_approval") : status[c] # "pending"}
      <2>1. /\ QueueWhere \subseteq Contents
            /\ PlanTab(everyDay, "needs_approval") \subseteq Contents
        BY DEF QueueWhere, PlanTab, Narrowing, Stored
      <2>. QED  BY <1>3, <1>4, <2>1
    <1>6. ASSUME NEW c \in QueueWhere
          PROVE  /\ CheckReviewable(c, ToQueued(c).submission)
                 /\ IsResubmit(ToQueued(c)) = (PlanRevisions(c) > 0)
      <2>1. c \in Contents /\ status[c] = "draft_review" /\ drafts[c] \in Nat
        BY <1>2, <1>3 DEF QueueWhere
      <2>2. (drafts[c] > 1) = (noted[c] # {})
        BY <1>0, <2>1 DEF RoundsAreTold
      <2>3. (noted[c] # {}) = (Cardinality(noted[c]) > 0)
        <3>1. IsFiniteSet(noted[c])
          BY <2>1 DEF ViewInv
        <3>2. Cardinality(noted[c]) \in Nat
          BY <3>1, FS_CardinalityType
        <3>3. Cardinality(noted[c]) = 0 <=> noted[c] = {}
          BY <3>1, FS_EmptySet
        <3>. QED  BY <3>2, <3>3
      <2>4. (drafts[c] - 1 > 0) = (drafts[c] > 1)
        BY <2>1
      <2>5. IsResubmit(ToQueued(c)) = (PlanRevisions(c) > 0)
        BY <2>2, <2>3, <2>4 DEF IsResubmit, ToQueued, PlanRevisions
      <2>6. CheckReviewable(c, ToQueued(c).submission)
        BY <2>1 DEF CheckReviewable, ToQueued, IsLatest, REVIEWABLE_STATUSES
      <2>. QED  BY <2>5, <2>6
    <1>. QED  BY <1>5, <1>6 DEF QueueMatchesThePlan, everyDay

LEMMA ListsTell == ViewInv => ListsTellTheSameTurn
    <1>. SUFFICES ASSUME ViewInv, NEW c \in Contents, status[c] \in CONTENT_STATUSES,
                         status[c] # "pending"
                  PROVE  /\ TabOf[status[c]] = "waiting_creator" => TaskActions(c) # {}
                         /\ MyTab(c) = "to_do" /\ TabOf[status[c]] = "needs_approval"
                              => InGraceWindow(Deadline[c], today)
                         /\ (MyTab(c) = "done") = (TabOf[status[c]] = "done")
      BY DEF ListsTellTheSameTurn, Stored
    <1>1. status[c] \in COMMITTED_STATUSES
      BY DEF COMMITTED_STATUSES
    <1>2. TaskActions(c) # {} <=>
             \/ status[c] \in {"scheduled", "draft_revision", "draft_approved"}
             \/ status[c] = "draft_review" /\ InGraceWindow(Deadline[c], today)
      BY <1>1, ButtonFacts
    <1>3. status[c] \in {"scheduled", "draft_review", "draft_revision",
                         "draft_approved", "link_submitted"}
      BY <1>1 DEF COMMITTED_STATUSES, CONTENT_STATUSES
    <1>. QED  BY <1>2, <1>3, TabFacts DEF MyTab

LEMMA StepForRevision ==
    ASSUME NEW e \in Events
    PROVE  /\ STEP_FOR[e.type] = "revision_requested" <=> IsRevision(e)
           /\ e.type \in EventTypes
    BY DEF STEP_FOR, EventTypes, ResultOf, Events, IsRevision

\* The notes are those of the recorded revisions, and none comes first.
LEMMA NotesAreRevisions ==
    ASSUME ViewInv, NEW c \in Contents
    PROVE  /\ Revisions(c) \subseteq 2..Len(history[c])
           /\ \A i \in Revisions(c) : history[c][i].draft \in noted[c]
           /\ \A d \in noted[c] : \E i \in Revisions(c) : history[c][i].draft = d
    <1>. DEFINE h == history[c]
    <1>1. /\ h \in Seq(Events) /\ HistoryTellsStatus /\ TracedPast(c) = TracedHistory(c)
          /\ Len(h) \in Nat
      BY DEF ViewInv, ReviewInv, TypeOK, RowsTellTheJourney
    <1>2. \A i \in 1..Len(h) : h[i] \in Events
      BY <1>1
    <1>. HIDE DEF h
    <1>3. Revisions(c) = {i \in 1..Len(h) : IsRevision(h[i])}
      BY DEF Revisions, h
    <1>4. Revisions(c) \subseteq 2..Len(h)
      <2>1. ASSUME 1 \in Revisions(c)
            PROVE  FALSE
        <3>1. Len(h) >= 1 /\ IsRevision(h[1])
          BY <1>1, <1>3, <2>1
        <3>2. h # <<>>
          BY <3>1
        <3>3. ResultOf[h[1].type] = "scheduled"
          BY <1>1, <3>2 DEF HistoryTellsStatus, IsWalkTo, h
        <3>. QED  BY <3>1, <3>3 DEF ResultOf, IsRevision
      <2>. QED  BY <1>1, <1>3, <2>1
    <1>5. TracedHistory(c) = {StepOf(e) : e \in {h[i] : i \in 2..Len(h)}}
      BY DEF TracedHistory, StepOf, h
    <1>6. ASSUME NEW i \in Revisions(c)
          PROVE  h[i].draft \in noted[c]
      <2>1. i \in 2..Len(h) /\ IsRevision(h[i])
        BY <1>3, <1>4
      <2>2. StepOf(h[i]) = JourneyStep("revision_requested", h[i].draft)
        BY <2>1, StepForFacts DEF StepOf, IsRevision
      <2>3. JourneyStep("revision_requested", h[i].draft) \in TracedPast(c)
        BY <1>1, <1>5, <2>1, <2>2
      <2>. QED  BY <2>3 DEF TracedPast, TracedHandIns, TheLink, JourneyStep
    <1>7. ASSUME NEW d \in noted[c]
          PROVE  \E i \in Revisions(c) : h[i].draft = d
      <2>1. JourneyStep("revision_requested", d) \in TracedHistory(c)
        BY <1>1 DEF TracedPast, TracedHandIns
      <2>2. PICK i \in 2..Len(h) : StepOf(h[i]) = JourneyStep("revision_requested", d)
        BY <1>5, <2>1
      <2>3. STEP_FOR[h[i].type] = "revision_requested"
        BY <2>2 DEF StepOf, JourneyStep
      <2>4. i \in 1..Len(h)
        BY <1>1
      <2>5. IsRevision(h[i])
        BY <1>2, <2>3, <2>4, StepForRevision
      <2>6. h[i].draft = d
        BY <2>2, <2>5 DEF StepOf, JourneyStep, IsRevision
      <2>. QED  BY <1>3, <2>4, <2>5, <2>6
    <1>. QED  BY <1>4, <1>6, <1>7 DEF h

\* There are no more notes than revisions, and as many unless a note was written
\* on a draft that had been replaced.
LEMMA NotesAreCounted ==
    ASSUME ViewInv, NEW c \in Contents
    PROVE  /\ Cardinality(noted[c]) \in Nat /\ Cardinality(Revisions(c)) \in Nat
           /\ Cardinality(noted[c]) <= Cardinality(Revisions(c))
           /\ \/ Cardinality(noted[c]) = Cardinality(Revisions(c))
              \/ NotedAReplacedDraft(c)
    <1>. DEFINE h == history[c]
                named == [i \in Revisions(c) |-> h[i].draft]
    <1>1. /\ h \in Seq(Events) /\ Len(h) \in Nat /\ HistoryTellsStatus
          /\ NumbersHandIns(h, drafts[c]) /\ RevisionsFollowDrafts
      BY DEF ViewInv, ReviewInv, TypeOK, VersionsCountHandIns
    <1>2. IsFiniteSet(Revisions(c))
      <2>1. IsFiniteSet(1..Len(h)) /\ Revisions(c) \in SUBSET (1..Len(h))
        BY <1>1, FS_Interval DEF Revisions
      <2>. QED  BY <2>1, FS_Subset
    <1>3. named \in Surjection(Revisions(c), noted[c])
      <2>1. named \in [Revisions(c) -> noted[c]]
        BY NotesAreRevisions
      <2>2. \A d \in noted[c] : \E i \in Revisions(c) : named[i] = d
        BY NotesAreRevisions
      <2>. QED  BY <2>1, <2>2 DEF Surjection
    <1>. HIDE DEF named
    <1>4. /\ IsFiniteSet(noted[c])
          /\ Cardinality(noted[c]) <= Cardinality(Revisions(c))
          /\ Cardinality(noted[c]) = Cardinality(Revisions(c))
               <=> named \in Injection(Revisions(c), noted[c])
      BY <1>2, <1>3, FS_Surjection
    <1>5. ASSUME ~NotedAReplacedDraft(c)
          PROVE  named \in Injection(Revisions(c), noted[c])
      <2>1. ASSUME NEW i \in Revisions(c), NEW j \in Revisions(c), i < j
            PROVE  h[i].draft # h[j].draft
        <3>1. /\ i \in 1..Len(h) /\ j \in 1..Len(h)
              /\ IsRevision(h[i]) /\ IsRevision(h[j])
          BY DEF Revisions
        <3>2. PICK k \in 1..(i - 1) : IsHandIn(h[k]) /\ h[k].draft = h[i].draft
          BY <1>1 DEF RevisionsFollowDrafts
        <3>3. PICK m \in 1..Len(h) : m \in (i + 1)..(j - 1) /\ IsHandIn(h[m])
          <4>1. i + 1 <= j /\ i \in 1..(Len(h) - 1) /\ i + 1 \in 1..Len(h)
            BY <1>1, <2>1, <3>1
          <4>2. CanTransition(ResultOf[h[i].type], ResultOf[h[i + 1].type])
            BY <1>1, <4>1 DEF HistoryTellsStatus, IsWalkTo
          <4>3. ResultOf[h[i + 1].type] = "draft_review"
            <5>1. ResultOf[h[i].type] = "draft_revision"
              BY <3>1 DEF ResultOf, IsRevision
            <5>2. \A t : CanTransition("draft_revision", t) => t = "draft_review"
              BY DEF CanTransition, NEXT_STATUSES, CONTENT_STATUSES, COMMITTED_STATUSES
            <5>. QED  BY <4>2, <5>1, <5>2
          <4>4. h[i + 1] \in Events
            BY <1>1, <4>1
          <4>5. IsHandIn(h[i + 1]) /\ ~IsRevision(h[i + 1])
            BY <4>3, <4>4 DEF ResultOf, EventTypes, Events, IsHandIn, IsRevision
          <4>6. i + 1 # j
            BY <3>1, <4>5
          <4>. QED  BY <1>1, <3>1, <4>1, <4>5, <4>6
        <3>4. k \in 1..Len(h) /\ k < m /\ m \in 1..(j - 1)
          BY <1>1, <3>1, <3>3
        <3>5. h[k].draft < h[m].draft
          BY <1>1, <3>2, <3>3, <3>4 DEF NumbersHandIns
        <3>6. ~(h[m].draft > h[j].draft)
          BY <1>5, <3>3, <3>4 DEF NotedAReplacedDraft
        <3>. QED  BY <3>2, <3>5, <3>6
      <2>2. \A i, j \in Revisions(c) : named[i] = named[j] => i = j
        <3>1. ASSUME NEW i \in Revisions(c), NEW j \in Revisions(c), i # j
              PROVE  named[i] # named[j]
          <4>1. i \in Int /\ j \in Int
            BY <1>1 DEF Revisions
          <4>2. named[i] = h[i].draft /\ named[j] = h[j].draft
            BY DEF named
          <4>. QED  BY <2>1, <3>1, <4>1, <4>2
        <3>. QED  BY <3>1
      <2>3. named \in [Revisions(c) -> noted[c]]
        BY <1>3 DEF Surjection
      <2>. QED  BY <2>2, <2>3 DEF Injection, IsInjective
    <1>. QED  BY <1>2, <1>4, <1>5, FS_CardinalityType

LEMMA JourneysTell == ViewInv => JourneysAgree
    <1>. SUFFICES ASSUME ViewInv, NEW c \in Contents
                  PROVE  /\ Backfilled(c) \subseteq FromStoredHistory(c)
                         /\ BuildEvents(c) \subseteq FromStoredHistory(c)
                         /\ \A step \in FromStoredHistory(c) \ Backfilled(c) :
                              /\ step.type = "revision_requested"
                              /\ NotedAReplacedDraft(c)
                         /\ \A step \in FromStoredHistory(c) \ BuildEvents(c) :
                              \/ step.type = "draft_approved" /\ status[c] = "link_submitted"
                              \/ /\ step.type = "revision_requested"
                                 /\ NotedAReplacedDraft(c)
      BY DEF JourneysAgree, Stored
    <1>. DEFINE h == history[c]
                others == {StepOf(e) : e \in {h[i] : i \in (2..Len(h)) \ Revisions(c)}}
                kept == {s \in TracedPast(c) : s.type # "revision_requested"}
    <1>1. TracedPast(c) = TracedHistory(c) /\ h \in Seq(Events) /\ Len(h) \in Nat
      BY DEF ViewInv, RowsTellTheJourney, ReviewInv, TypeOK
    <1>2. others = kept
      <2>1. ASSUME NEW i \in 2..Len(h)
            PROVE  (StepOf(h[i]).type = "revision_requested") <=> i \in Revisions(c)
        <3>1. i \in 1..Len(h) /\ h[i] \in Events
          BY <1>1
        <3>2. StepOf(h[i]).type = STEP_FOR[h[i].type]
          BY DEF StepOf, JourneyStep
        <3>3. i \in Revisions(c) <=> IsRevision(h[i])
          BY <3>1 DEF Revisions
        <3>. QED  BY <3>1, <3>2, <3>3, StepForRevision
      <2>2. TracedHistory(c) = {StepOf(e) : e \in {h[i] : i \in 2..Len(h)}}
        BY DEF TracedHistory, StepOf
      <2>. QED  BY <1>1, <2>1, <2>2
    <1>3. FromStoredHistory(c) = others \cup RevisionSteps(Cardinality(Revisions(c)))
      <2>1. ASSUME NEW i \in (2..Len(h)) \ Revisions(c)
            PROVE  JourneyStep(STEP_FOR[h[i].type], IF IsHandIn(h[i]) THEN h[i].draft ELSE 0)
                     = StepOf(h[i])
        <3>1. ~IsRevision(h[i])
          BY <1>1 DEF Revisions
        <3>. QED  BY <3>1 DEF StepOf, IsHandIn, IsRevision
      <2>. QED  BY <2>1 DEF FromStoredHistory
    <1>4. Backfilled(c) = kept \cup RevisionSteps(Cardinality(noted[c]))
      BY DEF Backfilled, HandIns, TracedPast, TracedHandIns, TheLink, RevisionSteps,
             JourneyStep
    <1>. HIDE DEF others, kept
    <1>5. /\ RevisionSteps(Cardinality(noted[c]))
               \subseteq RevisionSteps(Cardinality(Revisions(c)))
          /\ \/ RevisionSteps(Cardinality(noted[c]))
                  = RevisionSteps(Cardinality(Revisions(c)))
             \/ NotedAReplacedDraft(c)
      BY NotesAreCounted DEF RevisionSteps
    <1>6. Backfilled(c) \subseteq FromStoredHistory(c)
      BY <1>2, <1>3, <1>4, <1>5
    <1>7. \A step \in RevisionSteps(Cardinality(Revisions(c))) :
            step.type = "revision_requested"
      BY DEF RevisionSteps, JourneyStep
    <1>8. ASSUME NEW step \in FromStoredHistory(c), step \notin Backfilled(c)
          PROVE  step.type = "revision_requested" /\ NotedAReplacedDraft(c)
      BY <1>2, <1>3, <1>4, <1>5, <1>7, <1>8
    <1>9. BuildEvents(c) \subseteq Backfilled(c)
      BY DEF BuildEvents, Backfilled, ProvesApproval
    <1>10. ASSUME NEW step \in Backfilled(c), step \notin BuildEvents(c)
           PROVE  step.type = "draft_approved" /\ status[c] = "link_submitted"
      <2>1. ProvesApproval(c) /\ step = JourneyStep("draft_approved", 0)
        BY <1>10 DEF Backfilled, BuildEvents
      <2>2. status[c] # "draft_approved"
        BY <1>10, <2>1 DEF BuildEvents
      <2>. QED  BY <2>1, <2>2 DEF ProvesApproval, JourneyStep
    <1>. QED  BY <1>6, <1>8, <1>9, <1>10

\* Whoever looks, the lists, the queue and the three accounts of a content's
\* journey tell one story of its row, whatever periods are asked for.
THEOREM ViewsAgreeAlways == ViewSpec => []ViewsAgree
    <1>1. ViewInv => ViewsAgree
      BY PeriodsHide, QueueMatches, ListsTell, JourneysTell DEF ViewsAgree
    <1>. QED  BY <1>1, ViewInvariant, PTL

\* A step keeps what read as late reading as late, but for a link that was
\* handed in by the deadline.
LEMMA LateStaysLate ==
    ASSUME ViewInv, ViewInv', [ViewNext]_viewVars, NEW c \in Contents, IsOverdue(c)
    PROVE  \/ IsOverdue(c)'
           \/ status'[c] = "link_submitted" /\ video'[c].handedIn <= Deadline[c]
    <1>0. ReviewInv /\ [Next]_vars /\ ReviewInv'
      BY ViewStepIsNext DEF ViewInv
    <1>1. RowStep(c) /\ today <= today'
      BY <1>0, RowsOfNext
    <1>2. /\ today \in Int /\ today' \in Int /\ Deadline[c] \in Nat
          /\ drafts[c] \in Nat /\ drafts'[c] \in Nat
          /\ video[c].handedIn \in Int /\ video'[c].handedIn \in Int
      BY <1>0, ContentReviewAssumption DEF ReviewInv, TypeOK, Days, NoDay
    <1>3. draftDay[c] \in Int /\ draftDay[c] <= today
          /\ (drafts[c] = 0 => draftDay[c] = NoDay)
      BY DEF ViewInv, HandInDaysArePast, Days, NoDay
    <1>4. /\ (status[c] = "link_submitted") = (video[c].handedIn # NoDay)
          /\ (status'[c] = "link_submitted") = (video'[c].handedIn # NoDay)
      BY <1>0 DEF ReviewInv, BypassFlagTellsTheTruth
    <1>5. CASE draftDay[c] > Deadline[c]
      <2>1. drafts[c] > 0
        BY <1>2, <1>3, <1>5 DEF NoDay
      <2>2. drafts'[c] # 0
        <3>1. status[c] # "pending"
          BY <2>1 DEF ViewInv, RoundsAreTold
        <3>2. drafts'[c] \in {drafts[c], drafts[c] + 1}
          BY <1>1, <3>1 DEF RowStep, RowQuiet, RowScheduled, RowHandedIn, RowSentBack,
                            RowApproved, RowLinked, RowDiscarded
        <3>. QED  BY <1>2, <2>1, <3>2
      <2>3. draftDay'[c] \in {today, draftDay[c]}
        BY <2>2 DEF ViewNext, DraftDays, viewVars
      <2>4. draftDay'[c] > Deadline[c]
        BY <1>2, <1>3, <1>5, <2>3
      <2>. QED  BY <2>4 DEF IsOverdue, LateHandIn
    <1>6. CASE video[c].handedIn > Deadline[c]
      <2>1. status[c] = "link_submitted"
        BY <1>2, <1>4, <1>6 DEF NoDay
      <2>2. video'[c] = video[c]
        BY <1>1, <2>1 DEF RowStep, RowQuiet, RowScheduled, RowMoves, RowHandedIn,
                          RowSentBack, RowApproved, RowLinked, RowDiscarded
      <2>. QED  BY <1>6, <2>2 DEF IsOverdue, LateHandIn
    <1>7. CASE Committed(c) /\ Deadline[c] < today
      <2>1. Committed(c)'
        BY <1>0, <1>7, NextKeeps
      <2>2. Deadline[c] < today'
        BY <1>1, <1>2, <1>7
      <2>3. CASE status'[c] = "link_submitted"
        BY <1>2, <2>3 DEF IsOverdue, LateHandIn
      <2>4. CASE status'[c] # "link_submitted"
        BY <1>4, <2>1, <2>2, <2>4 DEF IsOverdue
      <2>. QED  BY <2>3, <2>4
    <1>. QED  BY <1>5, <1>6, <1>7 DEF IsOverdue, LateHandIn

\* A content that reads as overdue keeps doing so, whatever comes after, unless
\* its link was handed in on time.
THEOREM OverdueKept == ViewSpec => OverdueIsKept
    <1>1. ViewInv /\ ViewInv' /\ [ViewNext]_viewVars =>
            [\A c \in Contents :
               IsOverdue(c) => \/ IsOverdue(c)'
                               \/ /\ status'[c] = "link_submitted"
                                  /\ video'[c].handedIn <= Deadline[c]]_viewVars
      BY LateStaysLate
    <1>. QED  BY <1>1, ViewInvariant, PTL DEF ViewSpec, OverdueIsKept
=============================================================================
