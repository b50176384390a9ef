---------------------------- MODULE ScheduleForms ----------------------------
(***************************************************************************)
(* The two forms an admin fills in a schedule with, on the pages they live *)
(* on, and their requests on the way to the server and back.               *)
(*                                                                         *)
(*   - "Tambah Creator" belongs to the trigger on the creator list: the    *)
(*     trigger keeps whether it is open, whether a save is on its way and  *)
(*     how the last one failed, so all three outlive the form itself.      *)
(*   - "Tambah Konten" belongs to the board of one creator and keeps them  *)
(*     itself; what it knows of the contract is as old as the page.        *)
(*                                                                         *)
(* Leaving a page unmounts what is on it; a request goes on without it.    *)
(***************************************************************************)
EXTENDS EvergreenSlots

CONSTANTS
    Terms,          \* what an admin may fill a creator form in with
    Contents,       \* and a content form, the contract apart
    MaxOpenings,    \* bound: forms opened in one behaviour
    MaxPicks,       \* bound: changes made on the calendar of one form
    Closed

VARIABLES
    page,           \* "creators", the list, or "creator", one creator's board
    form,           \* the form that is open, or Closed
    openings,       \* forms opened so far
    asking,         \* the question in front of discarding what was typed
    saving,         \* a save is on its way, as the component of the page knows
    shown,          \* the errors of the last save, as that component keeps them
    calls           \* the requests the browser waits for

pageVars == <<page, openings>>
formVars == <<slotVars, page, form, openings, asking, saving, shown, calls>>

Pages == {"creators", "creator"}

\* What the fields of a form hold; a creator form starts out blank.
CreatorInputs ==
    [email : Emails, start : Int, end : Int, interval : Int, quota : Int,
     complete : BOOLEAN]

ContentInputs == [type : ContentTypes, deadline : Int, complete : BOOLEAN]

Blank == [email |-> NoEmail, start |-> NoDate, end |-> NoDate, interval |-> 1,
          quota |-> 0, complete |-> FALSE]

ASSUME FormsAssumption ==
    /\ Terms \subseteq CreatorInputs
    /\ Contents \subseteq ContentInputs

NoCall == [kind |-> "none", live |-> FALSE]

TakenEmails == {contracts[c].email : c \in {d \in Contracts : contracts[d] # NoContract}}

-----------------------------------------------------------------------------
(* Opening and closing.                                                    *)

\* The list shows some of the creators: only their addresses are known to it.
OpenCreatorForm ==
    /\ page = "creators" /\ form = Closed
    /\ openings < MaxOpenings
    /\ openings' = openings + 1
    /\ \E known \in SUBSET TakenEmails :
         form' = [screen |-> "creator", opening |-> openings + 1, known |-> known,
                  input |-> Blank, picks |-> NoPicks, changes |-> 0]
    /\ UNCHANGED <<slotVars, page, asking, saving, shown, calls>>

FirstAllowed(c) == EarliestDeadline(contracts[c].start, today)

\* An untouched content form, which proposes the first day that is allowed now.
Untouched(c, full) ==
    [type |-> IF full THEN "specific" ELSE "evergreen",
     deadline |-> FirstAllowed(c), complete |-> FALSE]

\* A period that had ended when the page was read is only to be read.
AddIsOffered(c) == \E read \in 0 .. today : read <= contracts[c].end

\* The terms of a contract never change, but the page may have counted its
\* contents, and seen it running, a while ago.
OpenContentForm(c) ==
    /\ page = "creator" /\ form = Closed
    /\ contracts[c] # NoContract
    /\ AddIsOffered(c)
    /\ openings < MaxOpenings
    /\ openings' = openings + 1
    /\ \E counted \in 0 .. Cardinality(Evergreen(c)) :
         LET full == counted >= contracts[c].quota
         IN  form' = [screen |-> "content", opening |-> openings + 1, contract |-> c,
                      full |-> full, input |-> Untouched(c, full)]
    /\ UNCHANGED <<slotVars, page, asking, saving, shown, calls>>

IsOpen(screen) == form # Closed /\ form.screen = screen

IsDirty ==
    \/ IsOpen("creator") /\ (form.input # Blank \/ form.changes > 0)
    \/ IsOpen("content") /\ form.input # Untouched(form.contract, form.full)

Touchable == form # Closed /\ ~asking

\* Close the open form as its owner does: the trigger forgets how the last save
\* failed, but not that one is on its way.
Close_ForgetsSaving ==
    /\ form' = Closed
    /\ shown' = {}
    /\ saving' = FALSE

Close ==
    /\ form' = Closed
    /\ shown' = {}
    /\ saving' = saving

\* Batal, the cross, Escape and a press outside.  The content form has none of
\* them while it saves.
RequestClose ==
    /\ Touchable
    /\ form.screen = "content" => ~saving
    /\ IF IsDirty
       THEN asking' = TRUE /\ UNCHANGED <<form, shown, saving>>
       ELSE Close /\ UNCHANGED asking
    /\ UNCHANGED <<slotVars, pageVars, calls>>

Discard ==
    /\ asking
    /\ asking' = FALSE
    /\ Close
    /\ UNCHANGED <<slotVars, pageVars, calls>>

KeepFilling ==
    /\ asking
    /\ asking' = FALSE
    /\ UNCHANGED <<slotVars, pageVars, form, saving, shown, calls>>

\* Another page: nothing that was on this one hears of its requests again.
Navigate ==
    /\ page' \in Pages \ {page}
    /\ form' = Closed
    /\ asking' = FALSE
    /\ saving' = FALSE
    /\ shown' = {}
    /\ calls' = [r \in Requests |->
                   IF calls[r] = NoCall THEN NoCall
                   ELSE [calls[r] EXCEPT !.live = FALSE]]
    /\ UNCHANGED <<slotVars, openings>>

-----------------------------------------------------------------------------
(* Filling in.                                                             *)

FillInCreator(t) ==
    /\ Touchable /\ IsOpen("creator")
    /\ t # form.input
    /\ form' = [form EXCEPT !.input = t]
    /\ UNCHANGED <<slotVars, pageVars, asking, saving, shown, calls>>

FormErrors == ValidateCreatorForm(form.input, today, form.known)

FormAllocation == Allocation(form.input, form.picks, today)

\* The calendar is drawn only for a contract that could be saved.
CalendarIsShown ==
    /\ IsOpen("creator") /\ HasSchedule(form.input)
    /\ FormErrors \cap {"contractStart", "contractEnd", "interval", "quota"} = {}

PicksBecome(picks) ==
    /\ form.changes < MaxPicks
    /\ form' = [form EXCEPT !.picks = picks, !.changes = form.changes + 1]
    /\ UNCHANGED <<slotVars, pageVars, asking, saving, shown, calls>>

\* The days of the calendar, and the crosses of the list below it.
Pick ==
    /\ Touchable /\ CalendarIsShown
    /\ \/ \E i \in DOMAIN FormAllocation.auto :
            PicksBecome(ToggleAutoDeadline(form.picks, FormAllocation.auto[i]))
       \/ \E day \in 0 .. form.input.end :
            /\ IsPickable(form.input, day, FormAllocation, today)
            /\ PicksBecome(AddManualDeadline(form.picks, day, FormAllocation.remaining))
       \/ \E i \in DOMAIN FormAllocation.manual :
            PicksBecome(RemoveManualDeadline(form.picks, FormAllocation.manual[i]))

\* A type whose slots are used up cannot be chosen.
FillInContent(k) ==
    /\ Touchable /\ IsOpen("content") /\ ~saving
    /\ k # form.input
    /\ k.type = "evergreen" => ~form.full
    /\ form' = [form EXCEPT !.input = k]
    /\ shown' = shown \ {"type", "deadline", "details"}
    /\ UNCHANGED <<slotVars, pageVars, asking, saving, calls>>

-----------------------------------------------------------------------------
(* Saving.                                                                 *)

Post(r, b) ==
    /\ calls[r] = NoCall /\ requests[r] = Idle
    /\ calls' = [calls EXCEPT ![r] = [body |-> b, kind |-> form.screen, day |-> today,
                                      opening |-> form.opening, live |-> TRUE,
                                      arrived |-> FALSE]]
    /\ saving' = TRUE

SaveCreator(r) ==
    /\ Touchable /\ IsOpen("creator")
    /\ ~saving
    /\ FormErrors = {}
    /\ FormAllocation.remaining = 0
    /\ Post(r, [email |-> form.input.email, start |-> form.input.start,
                end |-> form.input.end, interval |-> form.input.interval,
                quota |-> form.input.quota, complete |-> form.input.complete,
                deadlines |-> FormAllocation.deadlines])
    /\ UNCHANGED <<slotVars, pageVars, form, asking, shown>>

ContentFormErrors ==
    LET k == form.input
        c == contracts[form.contract]
    IN  (IF k.type = "specific" /\ ~k.complete THEN {"details"} ELSE {})
        \cup (IF k.type = "evergreen" /\ form.full THEN {"type"} ELSE {})
        \cup (IF k.deadline \notin FirstAllowed(form.contract) .. c.end
              THEN {"deadline"} ELSE {})

SaveContent(r) ==
    /\ Touchable /\ IsOpen("content")
    /\ ~saving
    /\ shown' = ContentFormErrors
    /\ IF ContentFormErrors # {} THEN UNCHANGED <<saving, calls>>
       ELSE Post(r, [contract |-> form.contract, type |-> form.input.type,
                     deadline |-> form.input.deadline,
                     complete |-> form.input.complete])
    /\ UNCHANGED <<slotVars, pageVars, form, asking>>

\* The request reaches the server.
Arrive(r) ==
    /\ calls[r] # NoCall /\ ~calls[r].arrived
    /\ \/ calls[r].kind = "creator" /\ ReceiveCreator(r, calls[r].body)
       \/ calls[r].kind = "content" /\ ReceiveContent(r, calls[r].body)
    /\ calls' = [calls EXCEPT ![r].arrived = TRUE]
    /\ UNCHANGED <<page, form, openings, asking, saving, shown>>

\* What the component that asked makes of an answer, if it is still mounted.
\* The trigger closes whatever form is open when a creator was saved.
Hear(r, answer) ==
    /\ calls' = [calls EXCEPT ![r] = NoCall]
    /\ IF ~calls[r].live THEN UNCHANGED <<form, asking, saving, shown>>
       ELSE /\ saving' = FALSE
            /\ IF answer.ok
               THEN form' = Closed /\ asking' = FALSE /\ shown' = {}
               ELSE shown' = answer.errors /\ UNCHANGED <<form, asking>>

TakeAnswer(r) ==
    /\ calls[r] # NoCall
    /\ Forget(r)
    /\ Hear(r, requests[r].answer)
    /\ UNCHANGED <<rowVars, today, pageVars>>

\* The connection breaks, before the server has the request or after: it may
\* work on it all the same.
LoseConnection(r) ==
    /\ calls[r] # NoCall
    /\ Hear(r, Failed)
    /\ UNCHANGED <<slotVars, pageVars>>

-----------------------------------------------------------------------------

\* An answer nobody waits for.
Expire(r) ==
    /\ calls[r] = NoCall
    /\ Forget(r)
    /\ UNCHANGED <<rowVars, today, page, form, openings, asking, saving, shown, calls>>

Serve(r) ==
    /\ Work(r)
    /\ UNCHANGED <<page, form, openings, asking, saving, shown, calls>>

NextDay ==
    /\ DayPasses
    /\ UNCHANGED <<page, form, openings, asking, saving, shown, calls>>

Init ==
    /\ SlotInit
    /\ page \in Pages
    /\ form = Closed
    /\ openings = 0
    /\ asking = FALSE
    /\ saving = FALSE
    /\ shown = {}
    /\ calls = [r \in Requests |-> NoCall]

Next ==
    \/ OpenCreatorForm \/ \E c \in Contracts : OpenContentForm(c)
    \/ RequestClose \/ Discard \/ KeepFilling \/ Navigate
    \/ \E t \in Terms : FillInCreator(t)
    \/ Pick
    \/ \E k \in Contents : FillInContent(k)
    \/ \E r \in Requests :
         \/ SaveCreator(r) \/ SaveContent(r)
         \/ Arrive(r) \/ TakeAnswer(r) \/ LoseConnection(r)
         \/ Expire(r) \/ Serve(r)
    \/ NextDay

Spec == Init /\ [][Next]_formVars

-----------------------------------------------------------------------------
(* Properties.                                                             *)

\* The fields a request that is judged in this step is refused for.
Refusals(r) ==
    IF /\ requests'[r] # requests[r]
       /\ requests'[r].kind # "none" /\ requests'[r].phase = "answered"
    THEN requests'[r].answer.errors ELSE {}

\* What a form lets an admin send, the server takes, if it judges it on the day
\* it was sent: it refuses only what no form can know, an address that was
\* taken and a quota that was used up meanwhile (creator-form.ts: "the form
\* never lets through what the server would refuse").
FormsNeverOfferWhatIsRefused ==
    [][\A r \in Requests :
         calls[r] # NoCall /\ calls[r].day = today
         => Refusals(r) \subseteq {"email", "type"}]_formVars

\* The same but for an interval larger than its column, the one limit of the
\* server that the form has not: whatever was picked, taken off and changed
\* before, the deadlines that are sent are as many as they should be, and lie
\* where they may.
RefusedOnlyForNews ==
    [][\A r \in Requests :
         calls[r] # NoCall /\ calls[r].day = today
         => \/ Refusals(r) \subseteq {"email", "type"}
            \/ calls[r].kind = "creator" /\ calls[r].body.interval > MaxInteger
               /\ Refusals(r) \subseteq {"interval"}]_formVars

\* A page never has two saves on their way: nobody is added twice by pressing
\* Simpan again, closing the form and opening it again included.
OneSaveAtATime ==
    \A q, r \in Requests :
        /\ calls[q] # NoCall /\ calls[r] # NoCall
        /\ calls[q].live /\ calls[r].live
        => q = r

\* A content form stays open, and stays the same one, while its save is on its
\* way, so an answer is never shown in a form it does not answer.
ContentFormAwaitsItsAnswer ==
    \A r \in Requests :
        calls[r] # NoCall /\ calls[r].live /\ calls[r].kind = "content"
        => IsOpen("content") /\ form.opening = calls[r].opening

\* A form somebody typed in is closed by the answer to its own save, or after
\* the question (add-creator-modal.tsx: "Every way out (Batal, X, Escape, a
\* press outside) asks first once anything was typed"), or with its page.
TypedWorkIsAskedFor ==
    [][form # Closed /\ IsDirty /\ form' = Closed
       => \/ asking
          \/ page' # page
          \/ \E r \in Requests :
               /\ calls[r] # NoCall /\ calls'[r] = NoCall
               /\ calls[r].opening = form.opening]_formVars

\* A page says that it is saving exactly while it waits for a save.
SavingIsAwaited ==
    saving <=> \E r \in Requests : calls[r] # NoCall /\ calls[r].live

\* A page never waits for two saves, however its forms are closed and opened
\* again; it says that it is saving until it has the answer; and a content form
\* stays the one that asked.  A creator form may be closed while it saves, and
\* then the answer falls to the form that is open by then
\* (add-creator-trigger.tsx).
SavesAreAwaited ==
    /\ OneSaveAtATime
    /\ SavingIsAwaited
    /\ ContentFormAwaitsItsAnswer
=============================================================================
