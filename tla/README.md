# Tofly UGC management in TLA+

Tofly pays creators for videos. An admin onboards a creator with a contract and a
schedule of contents; the creator hands in drafts, the admin judges them, the creator
hands in the link of the published video; once the contract is over the admin freezes the
invoice, pays it, proves the payment, and the creator confirms it arrived. The backend is a
NestJS application over PostgreSQL (Prisma), run as several stateless instances behind a
Next.js frontend. It has no workers, queues or timers: whatever happens on the server
happens inside an HTTP request, so its concurrency is requests meeting in the database. The
frontend adds a second kind: browsers that show what they read a while ago, send what was
pressed on it, and get their answers late, out of order or not at all.

This directory holds TLA+ modules of both, the TLC configurations that model-check them, and
TLAPS proofs. `PROJECT.json` maps each definition to its lines. Below, `B/` is
`src/backend/src/` and `F/` is `src/frontend/src/`.

## 1. Inventory

| Part | State it keeps | Operations | What is hard | What makes it correct |
| --- | --- | --- | --- | --- |
| Content lifecycle rules (`B/contents/content-lifecycle.ts`, `B/me/task-actions.ts`) | none | `canTransition`, grace window, `schedulingCutoff` | both ends of the window are inclusive | a proposal is scheduled before its grace window opens |
| Content review workflow (`B/contents/*.service.ts`, `B/submissions/*`) | `contents`, `submissions`, `content_events` | create, approve or reject a proposal, hand in a draft or a link, approve or send back a draft, comment; the scheduling middleware before every read | read, then a guarded `UPDATE`; a clock read before the transaction | the history is a walk of the lifecycle; hand-ins are numbered without gaps; the bypass flag is true; committed work is not deleted |
| Content creation, Evergreen slots, onboarding (`B/contents/contents.service.ts`, `B/creators/*`) | `contents`, `contracts`, `creators`, `users` | create under the contract's row lock; onboarding as one nested write | quota and number are counted | no contract exceeds its quota; numbers are given out once |
| The admin's two schedule forms (`F/components/creators`, `F/components/contents`) | what was typed, a save under way | open, fill in, pick days, save, discard, leave the page | saves that outlive their form; a form as old as its page | one save at a time; the server refuses only what no form can know |
| Invoice commands and confirmations (`B/invoices/invoice-command.service.ts`, `invoice-confirmation.service.ts`) | `invoices`, `invoice_adjustments`, `invoice_comments` | adjust, finalize, acknowledge, confirm, comment | a row lock held across statements with a small connection pool | the frozen amount counts every adjustment; no step is skipped or repeated; nobody waits forever |
| Payment proofs (`B/invoices/payment-proof.service.ts`, `B/storage/*`) | `invoice_payment_proofs`, files | put, record, remove | two stores without a common transaction; crashes, lost answers | a recorded proof has its file; a file has an owner |
| Invoice views (`B/invoices/invoices.service.ts`, `my-invoices.service.ts`) | none | the table's row, the detail, the creator's page | several statements, no transaction | no screen dates, adds up or offers what the rows do not bear out |
| The invoicing board and the creator's payment page (`F/components/invoicing`, `F/components/creator-invoice`) | popups, a cache of breakdowns, forms, comments sent | open, adjust, finalize, upload, acknowledge, confirm, comment | answers that come after their form or panel is gone | nothing stale outlives a freeze, no form sends twice, comments neither double nor vanish |
| Rate formula (`B/rate-formula/*`) | three tables | replace in a transaction, read in three statements | a read that straddles a save | see section 6 |
| Invoice calculation (`B/invoices/invoice-calculator.ts`, the four `*.component.ts`) | none | `calculateInvoice`, `settleForFinalize` | days, caps, data that arrive in any order | the amount of a finished contract is final; delivering never costs |
| Application sessions (`B/auth/session/*`) | `app_sessions` | start, authenticate, logout | each statement on its own; requests of one browser side by side | an ended session is refused; the cap holds |
| Whitelist (`B/auth/google/creator-access.ts`, `prisma-whitelist-resolver.ts`) | reads `users`, `creators`, `contracts`, `invoices` | resolve a user | four statements and a clock | the answer was true at some moment of the request |
| Google sign-in, shell pages (`B/auth/google/*`, `F/app`, `F/components/shell`) | one cookie, the flow or the session | start, callback, logout, activity, redirects | tabs share the cookie | a flow is used once, sign-outs stay, no tab is sent round for ever |
| Content lists, queue, histories (`B/contents/content-list*.ts`, `B/me`, `B/submissions/review-queue.service.ts`) | none | tags, tabs, periods, counts, journeys | the same row judged by several rules | they agree on whose turn it is |
| Content panels and task board (`F/components/content-detail`, `F/components/tasks`) | the open panel, a form, requests | read, decide, hand in | panels of any age over a row that moves | a panel never goes back; what it offers is taken unless the row moved |
| List addresses, filters, paging (`F/lib/url-query.ts`, `use-url-filters.ts`, `list-queries`) | the query string | tab, filter, search, sort, page, panel link, Back | the address lags behind a server render | no press is lost; at rest all controls agree |
| Request guards | none | `canActivate` | authenticate, then ask the whitelist | as sessions and whitelist |
| Summaries, metrics, tables, wording; schema, seeds, scripts; application shell; CI | no state of record, or constraints | | | section 7 |

Interactions. The guards run in front of every handler. The scheduling middleware runs in
front of the content routes and writes `contents`. The workflow fills
`contents.video_submitted_at`, which the calculation reads; finalize stores what the
calculation says together with the formula it read. The whitelist reads invoices to decide
whether a revoked creator may still sign in. The frontend's server components read, its
server actions send one request each and then have the page read again. Two browsers share
nothing but the server; the tabs of one share its cookie.

## 2. The modules

### Contents on the server: ContentLifecycle, ContentReview, ContentRounds, ContentViews

`ContentLifecycle` holds the statuses, the arrows between them, the grace window and the
cutoff of the middleware, on days that are natural numbers.

`ContentReview` holds the rows (`status`, `video`, `drafts`, `noted`, `history`,
`comments`), the calendar day and the requests. A request is cut exactly where another
request's committed work can come in between:

- `Arrive`: the middleware's `scheduleDue`.
- `TakeTheTime`: the handler of a link reads its clock, after the guards' own statements; it
  judges the window by that day and dates the link and its event with it.
- `ReadProposal`, `ReadForDraft`, `ReadForVideo`, `FindUnderReview`: the read and the checks
  made on it.
- `Create`, `ApproveProposal`, `RejectProposal`, `SubmitDraft`, `SubmitVideo`,
  `ApproveDraft`, `RequestRevision`: one transaction whose first statement is an `UPDATE`
  (or `DELETE`) that names the status it expects. PostgreSQL re-evaluates that condition on
  the locked row and the lock lasts to the commit, so what follows belongs to the same step.
- `GiveUp`: a request that fails, is refused or loses its instance before it commits.

Submissions are numbered by `created_at`, which is taken under the row lock. Texts are not
kept: of notes only that a draft has some, of comments only how many.

`ContentRounds` is the abstract specification: whose turn it is, how many rounds were played
and whether the window is open. `ContentReview!ImplementsRounds` is the refinement.

`ContentViews` adds what the Content Plan, Task Saya, the review queue and the journeys make
of the rows. A list is the set of contents it shows. A stored revision holds its note and not
the draft it was written on, so the revisions of a journey are told apart by their order only. It has one variable of its own, the day
of the latest hand-in, which the rows have and `ContentReview` needs for nothing.

### Schedules: ContractSchedule, EvergreenSlots, SlotAllocator, ScheduleForms

`ContractSchedule` holds the rules of a contract's dates and deadlines twice, as the browser
applies them and as the server does. `EvergreenSlots` is the server: `POST /creators` as
one nested write against a unique address, `POST /contents` as check, lock, count, write. Its
bodies include ones no form would send. `SlotAllocator` promises that numbers are given out
1, 2, ... once each and logins once; `ImplementsAllocator` is the refinement. `ScheduleForms`
puts the two forms in front: the calendar's picks, the question before typed work is thrown
away, a save whose form or page has gone, an answer that is lost after its commit, and
midnight between the form's check and the server's.

### Money on the server: InvoiceLifecycle, InvoiceSettlement, InvoiceSteps, InvoiceViews, RunningInvoice

`InvoiceLifecycle` holds the five stored statuses and the moves between them, and
`StatusOf`: an invoice without a row is `running`.

`InvoiceSettlement` holds the rows (`status`, `adjustments`, `snapshot`, `comments`,
`proof`), the keys in the file store, how often the formula was saved, whether the contract
is over, and the requests. A command takes a connection (`BeginCommand`), waits for the
contract's row lock (`LockContract`), reads and checks under it, and commits. Acknowledging
and confirming read outside a transaction and then move by a guarded `UPDATE`. An upload
reads, puts the file, records it in a transaction, and removes the file when that fails. The
formula is read in three steps. Faults are switched on by the constant `Faults`: `crash` (the
instance stops, its connections and locks are released), `lost_put`, `lost_commit`,
`failed_remove`. Whether the contract is over is asked with the request's own day of the row as the lock
finds it, so a revocation written meanwhile may change it (`JudgeAsEnded`). Amounts are which
adjustments a snapshot counts and which save each part of
its formula came from. `InvoiceSteps` is the abstract specification: an amount that grows, is
frozen once the contract is over, and three turns after that; `ImplementsSteps` is the
refinement.

`InvoiceViews` reads such an invoice while all of this goes on: each screen is a set of
statements, some waiting for others and some sent side by side, and operators that say what
the screen makes of the answers (`Total`, `DoneSteps`, `nextAction`). What was read stays
until it is read again.

`RunningInvoice` writes the calculator as operators (`Fixed`, `AdditionalContent`,
`PerformanceBonus`, `Penalty`, `RawTotal`, `SettledRawTotal`) over the rows it reads and the
day; its actions are what changes those rows. Two of them have no code yet, the performance
import and the revocation, and are modelled from what the calculator reads. A component that
waits counts nothing and keeps the sum of the lines it already has. Likes are read like views
and left out; comments and shares have no column and are a metric that is never measured.

### Money on the screens: InvoiceDesk, InvoicePanels, CreatorInvoicePage, InvoiceScreens

`InvoiceDesk` is the server as these screens meet it: one step per request, a step count and
a version of the lines per contract, threads of comments. `InvoicePanels` is the admin's
board: the table, the one popup over it, the cache of breakdowns keyed by the amounts a row
showed, the adjustment, finalize and proof forms. Each call keeps `at`: whether its form, at
least its panel, or nothing of it is still on screen, which is what decides what its answer
does. `CreatorInvoicePage` is the creator's page and side sheet with their moves and comments,
the page read again after them, and the admin's end of the thread. `InvoiceScreens` composes
the two: they share nothing but the server, which each sees move under it anyway (`Elsewhere`),
comments of others and of a thread closed while its comment was on the way included, so a
behaviour follows one side, chosen at the start.

Server actions are modelled as concurrent, though Next.js may serialise those of one tab.
The table's refresh reads and lands in one step. The question before an upload is part of
`SendProof`; a file the picker refuses is no file. What an adjustment adds is left out, and so
is a failed refresh (the error page takes the screen).

### Who gets in: AppSessions, CreatorAccess, BrowserSignIn

`AppSessions`: `SignIn`, `Resolve`, `Start` are a sign-in once Google has named the user.
`Arrive`, `ReadRow`, `Judge`, `DeleteExpired` or `Renew`, `AskWhitelist` and `Answer` are a
guarded request, statement by statement; `LogOut` comes between any two of them. Two fields of
a request, `ended` and `unwelcome`, are there for the properties and no action reads them.

`CreatorAccess`: the whitelist's answer, read as user, clock, invoices, with invoices
settled, the revocation day rewritten and midnight in Jakarta between any two. An invoice is
finalized once its contract's last day has passed, which is the revocation day if that came
first, so one whose contract has not begun may be. For the property, `held` records which
revocation days the row held while the request ran, and `truths` what the whitelist should
have said for one of them at some moment since. The revocation day is written only by hand
(SQL), so `Revoke` is external.

`BrowserSignIn`: the tabs of one browser with the one cookie that holds now the flow of a
sign-in and now a session. A request carries the cookie there was when it left, and sets what
its answer sets when it arrives. `told` keeps, for the property, the sessions whose sign-out a
tab was told of. What Google's tokens hold is one test that passes or fails.

### Contents on the screens: ContentScreens, ListAddress

`ContentScreens`: an admin's and the creator's browser on one content. Panels are read over
the network, show an answer until it is read again and offer its commands; a request whose
panel is gone is `deaf` to its answer. The server takes a request in one step (how requests
race inside it is `ContentReview`'s).

`ListAddress`: the query string that is the only state of every list, and the controls that
rewrite it building on one record of what was last sent. The router is external: a newer
navigation overtakes all but the one sent just before it, which may land late; Back drops
what is under way.

### MC modules

They give the constants that need an expression, and symmetry sets. Slots for requests, ids
and files are interchangeable, so permuting them is sound for invariants and action
properties. No run with a liveness property uses symmetry.

## 3. The runs

| Run | Shows | Bounds, and why they are enough |
| --- | --- | --- |
| `content_review` | `HistoryTellsStatus`, `BypassFlagTellsTheTruth`, `NoProposalInGraceWindow`, the refinement of `ContentRounds`; that plan, task list and queue agree, and the journeys but for what the rows forget (`ViewsAgree`), and what read as late keeps doing so (`OverdueIsKept`) | one content, two requests, three hand-ins, days 0 to 3, deadline on day 2. A stale decision needs a second decision and a second hand-in while it is held: two slots used in turn, two drafts, and a third for what follows. The window opens on day 1 and the deadline passes on day 3. Contents share no row; `ScheduleDue` is the only step that touches several, and treats each by itself. The view of the run leaves out how many comments there are and since when a request has its time, which nothing but the next comment and a definition of section 6 reads |
| `evergreen_slots` | quota, numbers, order (`SlotsHold`), the refinement of `SlotAllocator` | three contracts of which one stands at the start with room for two; two admins, so one can wait for the other's lock; two addresses; bodies in and out of order, taken, and too large |
| `schedule_forms` | `SavesAreAwaited`: a page waits for one save at a time and says so until it is answered; `RefusedOnlyForNews` | two openings, so a form can be opened while the save of an earlier one is under way; two picks; days 0 and 1, so midnight falls between two checks |
| `invoice_settlement` | the amount counts every adjustment, only faults leave files behind (`OnlyFaultsLeaveFiles`), every request ends, and the refinement of `InvoiceSteps`, with all four faults on | one invoice, two requests, two connections, two files (a winner and a loser, or one left behind and one after it): one command holds the lock while the other waits on it with the last connection, where reading through the pool under the lock would stop everything |
| `invoice_views` | `PaymentIsProven` under crashes, lost puts and failed removals, and what the screens make of an invoice (`ViewsAreTrue`) | one contract, two requests, two adjustments, two files (a winner and a loser), one read at a time: a screen relates only its own statements |
| `running_invoice` | amounts are never negative; what is over is final; neither delivering nor being measured ever costs | an Evergreen and a Specific item with deadlines on days 1 and 2 of a contract from day 1 to 3, days 0 to 5, two platforms of which one has a metric that cannot be read, a formula with rising tiers and one whose tiers fall, which has to be refused |
| `invoice_screens` | on the admin's board `FrozenIsShownFrozen`, `OneCallPerForm`, `AnswersNeverReopen`; on the creator's page and in the threads `NothingTwice`, `ShownStaysShown`; on both `ScreensCatchUp` | two contracts, one movement of the lines, two comments, one move or comment from elsewhere, five presses, two reads and two calls at once; the creator's second contract is there from the start or comes by renewal. Five presses reach open, ask, confirm, close and open another, over answers still under way |
| `sessions` | ended sessions and revoked users are refused; the cap holds | one session, three requests (one renews, one finds it expired, one comes after), idle timeout 2, lifetime 3, clock to 4: the cap bites at the second renewal |
| `creator_access` | `AnswersWereTrue`: what the whitelist answers; `AccessLastsAndEnds`: access lasts for every move on a begun contract, ends at midnight and ends once | a creator with a contract under way and one that begins on day 3, an admin, a user without a profile; one revocation day, which an operator sets and takes back; two requests; two ticks a day, moments 0 to 5; a request lasts over one midnight at most |
| `browser_sign_in` | `CookieTellsTheTruth`: spent flows stay out of the cookie and ended sessions stay dead; `SignInsArrive`: every tab settles, a good sign-in at its home | two tabs, one of which signs out while the other pulses and reads, so that a late answer can put the ended session back, two flows, one session, one user. Two flows let a second tab start over the first. Tabs enter at `/admin`, and `/` is reached only by redirect, as a path of `Route` |
| `content_screens` | `ScreensNeverGoBack`; `RefusalsAreExplained`: a refusal has a cause and shows where the content stands, nothing waits for nothing; `NotesReachTheirDraft`; `TurnIsPlayable` | one content, one admin, the creator, one request slot per screen, two drafts, days 0 and 1 with a deadline of 2, so a content is scheduled under the screens' eyes. Two drafts are enough for a note about the older one |
| `list_address` | `ChangesAddUp`: no press is lost; `ControlsAgree`: at rest address, controls, box and panel agree; `HeldIsLetGo` | four presses, one entry behind for Back, two searches and a blank one, on the three pages whose controls build on what was last sent (section 6 says what the other two do) |

Deadlock is checked except where people simply stop pressing (`invoice_screens`,
`list_address`) or bodies and openings run out (`evergreen_slots`, `schedule_forms`).

Bounds are constants with the comment "bound" and stand in guards that only stop new work.
In `InvoiceSettlement` an upload only comes while a key is left for it (`KeyIsLeft`), which random
UUIDs always have. A refusal that kept its file would look like a crash to
`OnlyFaultsLeaveFiles`; that the code keeps none is `EveryFileHasAnOwner`, proved without faults.
`BufferDays` is 1 in the configurations where the program has 5: only its order relative to
the grace window matters. In `list_address` the word `all` is no search (section 6), and the
claims about the box stop at `asked.crossed`: once one of the page's navigations was overtaken
by a link, by Back or by an empty list's reset, box and address may part until the next
keystroke. In `content_screens` a content an admin added counts as a proposal approved
already, and `NotesReachTheirDraft` leaves out a form opened while the panel is being read
again after a refusal.

Where several statements are about one hazard, a run checks their conjunction, and the parts
stand above it under names of their own: `ViewsAgree` is `PeriodsHideNoWork`,
`QueueMatchesThePlan`, `ListsTellTheSameTurn` and `JourneysAgree`; `SlotsHold` is `TypeOK`,
`QuotaHolds`, `NumbersCountUp` and `OnboardedInDeadlineOrder`; `SavesAreAwaited` is
`OneSaveAtATime`, `SavingIsAwaited` and `ContentFormAwaitsItsAnswer`; `AccessLastsAndEnds` is
`MovesAreMadeWithAccess`, `AccessEndsAtMidnight` and `AccessEndsForGood`; `CookieTellsTheTruth` is `SignInTypeOK`,
`FlowsAreSpent` and `SignOutsAreKept`; `SignInsArrive` is `LandsWhereSignedIn` and
`TabsSettle`; `ControlsAgree` is `AddressTypeOK`, `AgreesAtRest`, `BoxShowsTheSearch` and
`LinkNamesThePanel`; `RefusalsAreExplained` is `TypeOK`, `RefusalShowsWhereItStands`,
`RefusalsHaveACause` and `WaitsHaveARequest`; `ViewsAreTrue` is `GreenStepsAreDated`,
`LinesAddUp`, `ConfirmComesWithProof` and `ViewsAreNeverAhead`; `NothingTwice` is
`ScreensTypeOK`, `CommentShownOnce`, `NeverSentTwice` and `ThreadReadsInOrder`. What is proved
for every value of the constants and follows in a run from what is listed is not listed again:
`TypeOK`, `VersionsCountHandIns` and `CommittedWorkIsKept` of the workflow, `TypeOK` and
`SettlementInv` of the settlement, `TypeOK` of the sessions and of the whitelist.

Every property of every run has a mutant in `PROJECT.json`: a plausible slip in one
definition (a lock that is not taken, a guard that trusts what was read, a cache that is not
emptied) under which that run finds the property violated. The mutants stand in the modules
just above the definitions they change.

## 4. Fairness

- `InvoiceSettlement!FairSpec`: strong fairness of each request's own steps. A step that waits
  waits for a connection or a row lock; the pool and PostgreSQL serve their waiters in order,
  so a request whose step is enabled again and again is served; weak fairness would let others
  snatch the lock for ever. `EveryRequestEnds` says that nobody is stuck, not that anything
  is paid.
- `BrowserSignIn!SignInSpec`: weak fairness of what a tab loads. Exchanges with Google and fetches
  of its keys are given up after five seconds, and what fails there is caught and answered.
- `ListAddress!FairSpec`: the router lands what it was sent, and the timer of the typing pause
  fires.
- `InvoiceScreens!ScreensSpec`: a read of the table or of the page that is under way is
  answered.

People, admins, saves, midnight, expiry and faults are under no fairness anywhere.

## 5. Proofs

| Theorem | Module | For every value of the constants |
| --- | --- | --- |
| `TypeCorrect`, `HistoryCorrect`, `VersionsCorrect`, `BypassCorrect`, `SchedulingCorrect`, `CommittedKept`, `RoundsImplemented` | `ContentReviewProofs` | the properties of the rows, and the refinement |
| `ViewInvariant`, `ViewsAgreeAlways`, `OverdueKept` | `ContentReviewProofs` | the lists tell one story of a row, and the journeys no more than was recorded, lacking only what the rows forget; what read as late keeps doing so |
| `QuotaIsKept`, `NumbersAreDistinct`, `SchedulesHold`, `SlotsImplementAllocator` | `EvergreenSlotsProofs` | types, quota, numbers, the order onboarding writes in, and the refinement of the allocator |
| `FormsInvariant`, `FormsAwaitTheirSaves`, `FormsAreTakenOrNews`, `FormsKeepSchedules` | `EvergreenSlotsProofs` | both properties of the forms, and the schedules under them |
| `TypeCorrect`, `SettlementInvariant`, `AmountCorrect`, `StepsImplemented` | `InvoiceViewsProofs` | the amount and the steps of `InvoiceSettlement`, whatever faults happen |
| `PaymentCorrect` | `InvoiceViewsProofs` | a recorded proof keeps its file, provided no commit loses its answer |
| `StraysComeFromFaults` | `InvoiceViewsProofs` | a file loses its last owner only to a stopped instance, a lost answer of the store or a failed removal |
| `FilesOwned` | `InvoiceViewsProofs` | so no file is left behind, provided `Faults = {}` |
| `GreenStepsDated`, `AmountsAddUp`, `ProofIsBesideTheAsk`, `ViewsAreBehind`, together `ViewsTellTheTruth` | `InvoiceViewsProofs` | what the screens make of an invoice, provided no commit loses its answer |
| `ScreensInvariant`, `NeverTwoCallsPerForm`, `FrozenStaysFrozen`, `LateAnswersNeverReopen` | `InvoiceScreensProofs` | the admin's board, for any contracts, presses and answers |
| `BothInvariant`, `EverythingStandsOnce`, `CommentsStay` | `InvoiceScreensProofs` | the creator's page and the threads: comments stand once, in order and for good, moves are sent once |
| `TypeCorrect`, `AmountFinal`, `HandInsAdd`, `MeasuringAdds` | `RunningInvoiceProofs` | no amount is negative; what is over is final; neither a hand-in by the contract's last day nor being measured costs |
| `SessionInvariant`, `TypeCorrect`, `EndedRefused`, `RevokedRefused`, `CapKept` | `AppSessionsProofs` | all properties of the run `sessions`, and the types |
| `TypeCorrect`, `AnswersAreTrue`, `AccessIsKeptAndEnds` | `CreatorAccessProofs` | what the whitelist answers, how long access lasts, when it ends and that it ends once |
| `BrowserConsistent`, `CookieTrue`, `SignInLands` | `CreatorAccessProofs` | the one cookie of a browser tells the truth; a good sign-in ends at its own session and home |
| `ScreensInvariant`, `RefusalsHaveReasons`, `NotesLand`, `SomebodyCanGoOn`, `NeverGoBack` | `ContentScreensProofs` | all properties of the run `content_screens` |
| `AddressTypes` | `ContentScreensProofs` | what the address, the box and the panel of all five list pages can hold |
| `AddressInvariant`, `ChangesAdd`, `ControlsAgreeAtRest` | `ContentScreensProofs` | no press on the plan, the tasks and the roster is lost; at rest address, controls, box and panel agree |

The proofs use the named assumptions on the constants, which TLC evaluates in each run, and
nothing else. Most say what kind of value a constant is. Five say more: an invoice has finitely
many contents (`RunningInvoiceAssumption`) and a plan finitely many names for them
(`SlotsAssumption`), since what is added up or counted has to be finite; days, quotas and
intervals of a body are whole numbers (`BodiesAssumption`, `FormsAssumption`): a body that holds
anything else is refused before these modules begin, and a form's field cannot hold it; the
periods of a creator are numbered from 1 (`DeskAssumption`), the order the server lists them in;
and the `null` of a record that holds nothing is no query (`QueryAssumption`).

How the proofs go:

- `ContentReview!ReviewInv`. `HistoryTellsStatus` alone is not inductive: that a commit
  is legal follows from what the request read earlier, so `ReadsAllow` records what
  a request past its read has seen. `BypassFlagTellsTheTruth` needs `ApprovalIsFinal` (an
  approval can only be followed by the link) and `RequestsArePast`. `MovesWalk` and
  `NumbersStep` say what appending an event does to a history. The refinement follows action by
  action; `CommittedKept` is read off `ContentRounds`.
- `ContentViews!ViewInv` adds how far the rounds have come (a second draft follows a note, a
  note a draft), what the recorded events hold of the rows at each point of the journey, and
  that a hand-in's day is past. For the proof each recorded revision is traced to the draft it
  was written on (`TracedHistory`, `RowsTellTheJourney`), a draft that was handed in before it
  (`DecisionsNameDrafts`, `RevisionsFollowDrafts`). More revisions than drafts with a note are
  then two on one draft, of which the later came after the next hand-in, since only that opens
  the review again: `NotedAReplacedDraft`. The rest of `ViewsAgree` is a statement about one
  state, by the status of the row.
- `EvergreenSlots!SlotInv`. While a request holds the lock of a contract nothing adds to its
  Evergreen contents, so the count it read is still their number when it writes the next.
  `SchedulesHold` adds that sorting a body's days keeps them and puts them in order, and that
  the numbers written follow it.
- The forms (`FormsInv`): a call was made from a form its page had checked (`PageIsGood`), and a
  page waits for one call of its own. `FormsAreTakenOrNews` sets the form's checks beside the
  server's: what `AllocateDeadlines` gives lies inside the window and is as long as the quota,
  so that only what others did meanwhile, or the width of the interval's column, is left to
  refuse it for.
- `InvoiceSettlement!SettlementInv`. That the snapshot counts every adjustment is a
  consequence of `OneLockHolder` and `CommandsReadTheTruth`: what a command found under the
  lock still holds when it commits. `FilesAreNotShared` adds what the uploads need.
- `InvoiceViewsProofs` builds on the refinement: the rows only go on, so a statement answered
  earlier tells of an earlier step, and what a screen shows of an invoice is never taken back.
- `InvoiceScreensProofs!ScreensInv`. Only one breakdown is the latest, and it is the one the
  popup waits for (`LatestIsOnScreen`); a request is its form's only while the panel stands,
  and once (`NothingBehind`, `UploadIsShown`, `OneEach`); a freeze the board was told of had
  reached the server, where it stopped the lines for good (`FreezeHappened`, `NothingStale`).
  `BothInv` adds the creator's page: what one read brought is no newer than the server and no
  older than the page it replaces (`PageIsRead`), a comment saved in one view is in no other's
  list (`SentOnce`), and a move under way is one the page offered at its step (`MovesOnce`).
- `ContentScreensProofs!ScreensInv`. What a screen shows of a row was once the row, and is it
  for as long as no request moves it (`Tells`, `Begun`); no re-read begins under an open form,
  so the draft a note names is the one on screen; a request waits for a row in the state its
  sender saw, so that a refusal means the row has moved.
- `AppSessions!SessionInv`. A request that came too late is stopped further along its way
  because what it came too late for cannot be undone, and an unwelcome one because the
  whitelist is asked after everything else.
- `CreatorAccessProofs`: each statement pins one part of the answer to a moment of the
  request, and what moves in between can only move it towards the other statements' answer.
  `AccessIsKeptAndEnds`: a move needs an invoice that is not paid, and one of a begun contract
  is access; a paid invoice stays paid and days only go on, so access that ended stays ended;
  and within a day only a payment ends it, of a request stamped on an earlier day.
- `CreatorAccessProofs!BrowserInv`. That the cookie holds no flow already answered, and that
  a session the browser was told has ended has, follows from the state of one moment only if the answers
  still under way are known to be right when they arrive. So `PagesInv` and `CallsInv` say of
  each of them, by the sessions' rows: an answer promises a session that was started, with that
  session's own home, and the session of a sign-out that was answered is gone. They stay true
  because rows only go on (`RowsGoOn`): a session that was started keeps its role, and what is
  gone is gone. `LandsWhereSignedIn`, the action half of `SignInsArrive`, is read off `Welcomed`.
- `ContentScreensProofs!AddressInv`. `ChangesAddUp` needs to know why a navigation that lands
  does not undo what was sent after it. What is held ahead of the address is the last of the
  navigations under way and the newest of the changes on their way (`HeldIsLast`); with nothing
  held nothing is under way but a link or a move to where the address stands (`LevelIsQuiet`).
  A change that lands is therefore the one held, which is let go, or an older one, which is
  `Expected` and leaves what is held in place. `InStep` adds the query asked for, the panel's
  content and the search last sent, for as long as no link, Back or return to where the address
  stands crosses what is under way (`asked.crossed`), as the properties do. The theorems begin on `SentPages`: on Rate &
  Invoicing and Creator Detail the sort header builds on the rendered page and a press can be
  lost (section 6), so nothing but the types is claimed of them.
- `RunningInvoiceProofs` compares the lines of the components before and after a step: equal
  lines have equal sums (`AmountFinal`), and line by line no smaller ones no smaller sums
  (`HandInsAdd`, `MeasuringAdds`). The second is an induction over a finite set; its principle
  takes an operator as a parameter, which the prover cannot instantiate, so it is carried out
  on the least counterexample, over what each step of the library's fold adds (`SumsUp`). Line
  by line, the days an item is charged for at a hand-in were charged already, and a formula the
  server saves has rising tiers.

Model-checked only: liveness (`EveryRequestEnds`, `ScreensCatchUp`, `HeldIsLetGo`, and
`TabsSettle`, the other half of `SignInsArrive`), which is out of the prover's reach. Every
invariant and every action property a run checks is a theorem.

No module declares a recursive operator; sums are folds of the community modules.

## 6. Where the code and its words differ

These were met while modelling. Most are part of the model as the code has them, so the runs
claim only what holds beside them; some of the sentences they break stand in the modules as
definitions that no run checks.

Server:

- `OneDecisionPerDraft` (`B/submissions/submission-review.service.ts:119`): a decision is
  guarded by the status, not by the draft it judged. An approval of draft 1 that waits while
  draft 1 is sent back and draft 2 is handed in approves draft 2 unread.
- `OwedRevisionIsExplained` (`B/submissions/submission-revision.repository.ts:161`): a revision
  delayed in the same way leaves its notes on the older draft, and the creator, who is shown
  the notes of the latest hand-in, sees none. If that draft had a note, the older note is
  overwritten: the stored history shows two revisions, the derived and the backfilled one.
- `HistoryIsShownInOrder` (`B/contents/video-submission.service.ts:147`): the time of a link is
  taken before its transaction; what commits in between is listed after the link.
- `FrozenFormulaWasSaved` (`B/rate-formula/rate-formula.service.ts:180`): a save between the three
  statements gives an invoice the amounts of one formula and the tiers of another.
- `PaymentIsProven` with `lost_commit` (`B/invoices/payment-proof.service.ts:148`): when the
  transaction that records a proof commits and its answer is lost, the handler removes the
  file of the proof it recorded.
- `ActivityRenews` (`B/auth/session/session.service.ts:113` and `:123`): a slower request writes
  an earlier expiry over a later one, or deletes a session that was renewed a moment before.
- `SessionLastsUntilSignOut` (`B/auth/google/google-auth.controller.ts:53`): the flow of a sign-in
  takes the place of the session in the cookie, also when the sign-in comes to nothing.
- An Evergreen content added later takes the next number whatever its deadline
  (`B/contents/contents.service.ts:277`), while the naming rule (`B/creators/evergreen.ts:6`)
  counts in deadline order.
- `F/lib/creator-invoice.ts:96` says an adjustment can still move the total until the creator
  acknowledges; the server refuses one as soon as the invoice is finalized. The creator's page,
  which reads status and saved row side by side, may call a live amount final.
- A revoked creator's contract that has not begun can be frozen
  (`B/invoices/invoice-command.service.ts:166`), yet reads `upcoming`
  (`B/invoices/invoice-rows.ts:129`). Such an invoice keeps nobody's access, so a request that
  was let in before can acknowledge or confirm it after access has ended.
- A request may be refused although its user had access all along
  (`B/auth/google/prisma-whitelist-resolver.ts:84`): it reads revocation day 1 on day 0, an
  operator takes the day out, midnight passes and the clock is read. `AnswersWereTrue` asks
  whether the answer was right for a revocation day the row had held by then.
- `B/auth/session/session.controller.ts:62`: the activity of a second tab that is answered late
  sets the cookie again, to a session that was signed out meanwhile or over the flow or session
  that came after it. Nobody is signed in by an ended session; what it replaced is lost.

Browser:

- `TypedWorkIsAskedFor` (`F/components/creators/add-creator-trigger.tsx:49`): a creator form may
  be discarded while it saves and opened again; the answer of the first save then closes the
  second form over what was typed in it, without the question that closing asks, or shows its
  errors there. Leaving the page, which the definition exempts, asks nothing either.
- `FormsNeverOfferWhatIsRefused` (`F/lib/creator-form.ts:201`): an interval above 2147483647
  passes the form and is refused.
- `F/components/creator-detail/creator-content-board.tsx:69` and the sort header of Rate &
  Invoicing build on the rendered state, so a sort press drops a filter still on its way.
- `F/lib/use-url-filters.ts:44`: `all` means no filter, for the search too; searching for the
  word all searches nothing.
- `ResubmitShowsTheNote` (`F/components/tasks/my-task-board.tsx:171`): the form opened from a
  fresh panel shows the facts of the list's row, which may miss the newest note.
- `F/components/invoicing/use-breakdown-popups.tsx:155`: the late answer of an accepted move opens
  its panel again, in the place of whatever is open; `AnswersNeverReopen` is about reads. The
  finalize dialog of one panel stays asked for and can come to stand over another contract's.
- `F/components/invoicing/use-breakdown-popups.tsx:152`: a row the filter drops falls back to the
  one the panel opened with, and offers a move that was made.
- `F/components/invoicing/invoice-payment-section.tsx:25`: that a proof is in is remembered by
  the section on screen; closed and opened before the table was read again it offers a second.
- `F/components/creator-invoice/invoice-move.tsx:44`: Escape closes a busy dialog; in the side
  sheet the control goes with the sheet, and a fresh one can send the same move again.
- An adjustment whose answer is lost is recorded again by the retry, and the freeze dialog
  sends no amounts it was shown for the server to compare.
- `F/components/creator-invoice/creator-invoices.tsx:67`: the current period's view has no key;
  after a renewal comments sent under the old contract show in the new one's thread until the
  page is loaded anew.
- Smaller ones: taking a day off in the creator form removes the last pick of that day
  whichever was pressed; `contractType` is missing from `FORM_ERROR_FIELDS`; `submitVideo` lets
  a failed fetch through in silence; a decision's answer closes whichever panel of the plan is
  open by then; the derived journey's first step vanishes once an event is stored.

Two oddities that contradict no text. An Evergreen item handed in after the contract's last
day is charged up to the hand-in, one never handed in only up to the last day, so
`HandInNeverCosts` speaks of hand-ins by the last day. And a contract whose creator was
revoked before its first day earns nothing until that day and the whole fixed rate from it on,
so `AmountIsFinal` speaks of contracts that have begun.

## 7. Not modelled, and why

- Pure input checks (bodies, e-mail addresses, links, sizes and types of files) beyond the
  ones a property is about, the other checks of the rate formula and its form.
- Sorting, searching and cutting a list into pages. A list is read without an order and sorted
  in memory; a row that moves between two pages can be shown twice or not at all.
- Creator summaries and metrics; layout, calendars and wording: projections of one read
  that nothing reads back.
- What Google's tokens hold, the check of the Origin header, the local development switch.
- The creation of invoice rows by two first requests at once: the loser answers with an error
  and nothing stored is wrong. A link handed in while finalize holds the contract's lock: the
  repository names no order for the two.
- The screens of one side with the screens of the other in one behaviour: they share
  only the server, which moves under each of them in any case.
- Migrations, seeds and grants, but for the backfill of the history (`Backfilled` of
  `ContentViews`) and the constraints the handlers lean on; the application shell, but for the
  size of the pool; CI and repository scripts.

## 8. Plan

Done, in this order: `ContentLifecycle`, `ContentReview`, `ContentRounds`; `InvoiceLifecycle`,
`InvoiceSettlement`, `InvoiceSteps`; `AppSessions`; `RunningInvoice`; `ContractSchedule`,
`EvergreenSlots`, `SlotAllocator`, `ScheduleForms`; `CreatorAccess`; `BrowserSignIn`;
`ListAddress`; `ContentScreens`; `ContentViews`; `InvoiceViews`; `InvoiceDesk`,
`InvoicePanels`, `CreatorInvoicePage`, `InvoiceScreens`.

Left, in order of what it would add:

1. A module composing `ContentReview` and `RunningInvoice`, so that the day an item came in is
   the workflow's and not an input.
2. Failed refreshes and error pages of the two invoice screens.
