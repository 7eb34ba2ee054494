# TLA+ models of the AI points platform

The platform turns finished work into points and points into dividends. A user
claims a task and hands it in; an AI reviews it; a review meeting (or, in the
older flow, a vote) decides its score; a settlement pays the points, which lose
value from round to round, and drafts a dividend. The backend is a NestJS
application on PostgreSQL (TypeORM) and Redis (Bull).

One fact shapes all models. Handlers are `async` functions that read entities,
decide, and save whole entities back. There are almost no transactions, row
versions or locks, so at every `await` any other handler may run, and a later
`save` puts back whatever its entity held. A step of a model is therefore what
happens between two awaits.

Paths below are relative to `src/backend/src` unless they start with `src/`.

## 1. Inventory

| Component | State | Operations | Hard behaviour | What makes it correct | Modules |
|---|---|---|---|---|---|
| Task (`task`) | `tasks`: status, assignee, metadata | create, update, transition, claimTask, updateAiScores, settle | read-decide-save without versions; three of the writers never ask the transition table; the grid sends metadata it loaded long ago | work has an owner; handed-in work is not handed back; final statuses are final; cells keep what was written last | TaskStateMachine, TaskService, TaskGrid |
| Submission (`submission`) | `submissions`: content, aiReviewStatus | create (six awaited writes) | fails between writes; two requests at once | one review per hand-in; the row follows its review | SubmissionReview |
| Skill (`skill`) | `skills`: version, content, latest submission | registerOrUpdateSkill, twice for each 'explore' submission | registered before the submission exists; read-add-save | a skill names a submission that exists, with its content; versions are not shared | SkillRegistry |
| AI review (`queue`, `ai`) | Bull jobs | review job: LLM, then updateAiScores | retries, stalled jobs delivered again, late answers | a queued review ends | SubmissionReview |
| Settlement (`settlement`) | `settlements` | triggerSettlement, settleFromMeeting, settleProject | long runs without a transaction; crash at any await; concurrent runs over the same tasks | the account agrees with point_records; order of paying and settling; every closed meeting is settled | Settlement, SettlementBook |
| Points (`points`) | `point_records` | awardPoints, sums of annealed points | integer rounding, step boundaries | annealing agrees with its reference and never grows | Points |
| Project (`project`) | `projects`: settlementRound, custom columns | incrementSettlementRound, update, archive, updateCustomFields | read-add-save of the round; the whole list of columns is sent for one | each settlement has a round of its own; columns stay added or removed | Settlement, ColumnManager |
| Review meeting (`meeting`) | meetings with JSONB results, participants, votes; the room; the pages | create, join, leave, vote, confirm, close | stale saves of the whole meeting, confirm after close, lost connections, a restarting server | confirmed results stay recorded, the settlement is triggered once, the participants that are shown are those who are there | ReviewMeeting |
| Vote (`vote`) | sessions, weighted votes | create, cast, close | vote against close, two votes of one user | the result counts the votes it says it counts | Ballot |
| Auction (`auction`) | auctions, bids, delayed close jobs | create, bid, close, cancel; the listener assigns the task | bid against close, retried, stalled and lost close jobs | the winner has the highest bid that was in time; an auction ends | Auction |
| Dividend (`dividend`) | drafts with shares | createDraft, fillAmount, approve, reject | rounding, concurrent answers | what is approved adds up | Dividend |
| Approval (`approval`) | instances, records, the configured chain | create, approve (three steps), cancel | missing approvers, two answers at once | nobody is skipped; one announcement | Approval |
| Reimbursement (`reimbursement`) | claims; the pages | submit, listener, pay, complete, edit | events between components, pages that act on old claims | payment follows approval | Reimbursement |
| Asset (`asset`) | assets, operations, code sequences | operate, listener, update, expire; generateAssetCode | expiry job against operations; an approval names no operation; a lock on a row that is not there | disposal follows approval and is final; codes in turn | Asset, AssetCode |
| Bitable sync (`bitable-sync`, `feishu`) | bindings, links, `tasks.feishuRecordId`, jobs | events, record jobs, pushes, full syncs of two syncers | repeated and reordered webhooks, lost answers, two syncers on one table | no newer event is skipped; one task per row; tasks converge to their rows | BitableSync, LegacyBitable |
| Feishu configuration (`feishu`) | `feishu_configs`, cached clients; the tab | saveConfig, getClient, auto-configure | a client cached after the cache was cleared; three steps with errors | what was saved takes effect | FeishuSetup |
| Auth, user, tenant | users, tenants, roles; registrations in Redis | register, verify, login by Feishu, link | several inserts without a transaction | a tenant has an administrator | Registration, Directory |
| User directory, departments (`feishu`, `department`) | users' status and person; the department tree | full sync, webhooks | syncs and webhooks cross; two passes | who left is resigned; a mended tree is shown | Directory, Departments |
| RBAC (`rbac`) | permissions of a role; the tab | getPermissions, setPermissions | delete and insert without a transaction; answers out of order | the grid that was saved is stored | RoleEditor |
| Brain (`brain`) | conversations | stream, clear | whole conversations saved after a minute | an answer that was shown is in the history | Conversation |
| Pages (`src/frontend/src/pages`) | lists, open details, flags for what is under way | load, open, change, leave | answers out of order, errors, a page that goes on meanwhile | what is shown is what the backend has | Screens, Panes |
| Admin, super-admin, bulletin, notification, AI configuration | rows | single-row writes | none between actors; their pages are in Screens | - | Screens |
| Webhook (`webhook`) | log | processCommit | hands in a task as a user does | as Submission | SubmissionReview |
| Upload, audit, migrations | files, logs | - | - | - | - |

How they interact:

- Calls: SubmissionService, the review processor and SettlementService call
  TaskService; SubmissionService calls SkillService; SettlementService calls
  ProjectService, PointsService and DividendService; both Bitable syncers read and
  write tasks; the full sync of Feishu calls DepartmentService.
- Shared rows: `tasks` is written by its own handlers, by the review processor,
  by the auction listener and by the Bitable adapters; `projects` by
  ProjectService.update and every settlement; `review_meetings` by confirm and
  close; `users` by syncs, webhooks, logins and links.
- Events in memory (EventEmitter2): meeting.closed starts a settlement,
  auction.closed assigns a task, approval.completed moves reimbursements and
  assets, reimbursement.asset_purchase_completed makes an asset, task.created and
  task.updated start both syncers. An event is lost with its process.
- Queues (Bull): AI reviews, auction closings, expiry checks, Bitable records.
- Pages: REST answers and, in a meeting, the broadcasts of a room.

`PROJECT.json` lists the hazards line by line, with the property that covers
each, or the reason why none does.

## 2. Modules

| Module | Models |
|---|---|
| `TaskStateMachine` | the status enum and the transition table |
| `TaskService` | the `tasks` rows and every handler that writes their status or assignee |
| `TaskGrid` | the metadata of a task: the grid of the project page, update, updateAiScores |
| `ColumnManager` | the custom columns of a project: the panel of the project page, getCustomFields, updateCustomFields |
| `SubmissionReview` | SubmissionService.create, the review queue and processor, composed with TaskService |
| `SkillRegistry` | the registration of a skill inside SubmissionService.create |
| `Settlement` | the three settlement functions, with the parts of projects, meetings, points and dividends they touch, composed with TaskService |
| `SettlementBook` | abstract: what a settlement promises; `Settlement` implements it |
| `ReviewMeeting` | meetings, the socket room and the pages that listen to it |
| `Approval`, `Reimbursement`, `Asset`, `Finance` | approvals; claims and assets on top of them; `Finance` composes the three through their events |
| `BitableSync`, `LegacyBitable` | the two syncers; `LegacyBitable` extends the first and composes both on one table |
| `Auction` | auctions, bids, close jobs, the listener |
| `Points`, `Ballot`, `Dividend` | annealed points, and the votes and dividends that use them |
| `Sequencer`, `AssetCode` | abstract: numbers in turn; `AssetCode` implements it |
| `Registration`, `Directory`, `Departments` | accounts and the department tree |
| `Conversation` | chats with the assistant |
| `FeishuSetup`, `RoleEditor` | two tabs of the administration with the services behind them |
| `Screens`, `Panes` | the lists of all other pages: what each of them does, and one page with one list at a time |
| `MC...` | instances TLC checks |
| `Sums` | lemmas about `MapThenSumSet`, the sum over a finite set, and about functions applied over and over |
| `...Proofs` | theorems and proofs |

### TaskService

`task` holds the rows; only status and assignee are kept. `call[c]` is a handler
between its read and its save: the entity it is going to save. Every handler is
one action that reads, checks and computes the entity (`Update`, `Transition`,
`ClaimFree`, `AuctionClosed`, `UpdateAiScores`), followed by `SaveTask`, or by
`SaveTaskFails` when the query rejects. A handler that throws changes nothing
and is not represented. `ClaimHeld` and `AuctionCreated` open a claim auction;
bidding is abstracted to "some user wins", since every user may bid. An auction
may target any task, whatever its status, as `POST auctions` does not look.

`claimMode = 'multi'` is left out: nothing in the repository sets it. The Bitable
adapters also read and save tasks. They change titles and metadata only
(`upsertFromFeishu` converts the status a second time and finds nothing), so
`Update` covers them.

### SubmissionReview

`step[s]` is the await at which request `s` of SubmissionService.create stands;
its two calls of `transition` are split into read and save like any other.
`Abort` is a refusal, a failed query or a crash, at any of them. The request's
user and task are fixed in `Init`. `job[s]` follows Bull: waiting, active,
`scoring` (updateAiScores has read the task), completed or failed; `attempt` and
`stalls` count towards `Attempts` (attempts: 3 in `queue.module.ts`) and
`MaxStalls` (Bull's maxStalledCount). `overlapped` is a history variable: it
becomes true when two handlers are in flight at once.

### Settlement

`phase[r]` is the await of run `r`, `todo`, `item`, `due`, `listed`, `total`,
`payees` its local variables, `entity` the task that `settle()` is about to save.
The three functions share their steps: a vote run settles and then pays, the
others pay and then settle, and `ReadTask`, `Award` and `SaveSettle` choose
accordingly. `SkipUnread`, `ItemFails` and `RefuseSettle` are the ways into the
catch block of an item; `AbortRun` is a failure outside of it, or a crash;
`PublishRejected` is the insert of a project run, which lacks a NOT NULL column.
Meetings appear as far as a run can tell: the set of results, whether the event
is out, and the contributions, which `setContributions` deletes and inserts in two
steps. `ProjectService.update` takes part because it saves the round it read.

Abstractions:

- A score is fixed for each pair of source (meeting or session) and task.
- `payees` keeps the users where the column stores their number.
- Contributions are a function from users to percentages; several rows for one
  user are excluded by the unique key on task and user; two meetings share them.
- The order of the items, and of the shares in an item, is free. The code takes
  JSONB key order and unordered query results.
- Votes, medians and the status of a meeting are abstracted: `ConfirmTask` may
  add any task to any meeting at any time (the code checks neither), and closing
  happens once. That a stale save can reopen a meeting is in `ReviewMeeting`.
- `owed`, `saved` and `overlapped` are history variables; in `ledger` and
  `settlements` each row carries the run that inserted it.

### SettlementBook

Each run has an account that owes, pays, is closed by at most one settlement,
and then gets at most one draft. A settlement names exactly the users that were
paid and lists only tasks whose payments are complete. `Settlement` implements
it under the mapping `Book`, where the account is what `point_records` says.

### TaskGrid

`metadata` is the row, `sheet[b]` what page `b` holds, `typing[e]` an edit in
flight with the metadata it sent and, once read, the row that will be saved. The
grid sends the whole metadata of its row for one edited cell. `due`, `behind` and
`excused` are history: which value was written last, which page does not know
it, which cells were overwritten from a page or a read that was behind; so is `alone`, an edit since which its page has waited for
no other.
`CellsKept` says that nothing else is ever lost; in particular a page that has
never seen a score cannot erase it. Whether the table component takes the row of
an answer, or rolls a failed edit back, is left open.

### ColumnManager

`columns` is the list in the project's row, `panel[p]` the panel of a tab, `click[e]` a save in flight with the
list it sent, `held[h]` the row that `update`, `archive` or `incrementSettlementRound` has read and will save. The panel
sends its whole list for one column. `meant` is what there should be, `unseen` and `risk` say which columns a panel,
or a list sent from it, may not know of, `overruled` which ones such a save, or a row read before, has changed.
`ColumnsKept` says that this is the only way: the buttons are disabled while a panel saves, so its own saves never
undo each other, not after an error, a lost answer or a load that is answered late. A column is its key, which is the
time of the click; two clicks in one millisecond are left out.

### SkillRegistry

`visit[x]` is the await at which an 'explore' submission stands inside the two
registrations; `skill` is the row of one name. `crossed` remembers submissions
during which another one registered. Each submission registers twice, so
versions go up by two and the version in its metadata is one behind.

### ReviewMeeting

`meeting` rows are saved whole, as they were read; `call[c]` is a handler between
read and save. `room` holds the users in the room, `page` what the pages show. The server may restart, connections may break, and events of the
room reach only who is in it then. The status of a page is never updated after
meeting:ended, and meeting:error has no listener; the model keeps both.

### Approval, Reimbursement, Asset

`instance` and its `records`; `decide[d]` is a decision between its read, its record
and its save. The listeners of approval.completed run inside the call that emits
it, or are lost. Claims are worked on from pages that show what they last
loaded. Direct operations (`work`) and the expiry job (`check`) save rows they
read before. What an approval applies is `latest`, the last operation of the asset.

### BitableSync, LegacyBitable

One project, one table. `row` is the table at Feishu, `task` the platform's side,
`link` the newer syncer's record links, `event` the webhooks with the deliveries
that are still owed, `queue` and `job` Bull's records. `edit`, `twin` and `push`
are a call of TaskService.update, the push of the older syncer and that of the
newer one, which both listen. `faults` counts lost answers and failed saves.

### Auction, Ballot, Dividend, AssetCode

Each call is split at its awaits (`request`, `closing`, `ballot`, `saving`, `clerk` hold
what it read). Jobs of an auction may fail, be retried, or run twice after a stall.
`Points` gives the weights; its annealing is compared with a reference by the assumption `Annealing`. `AssetCode` maps to
`Sequencer` by the numbers that calls hold after their transaction.

### Registration, Directory, Departments, Conversation

`Registration` keeps what waits in Redis, the rows that verifyEmail inserts one
by one, and the page. `Directory` has workers (a full sync, webhooks, logins, links)
that hold a list or a row they read. `Departments` has the two passes of
upsertBatch, each saving rows as they were read, and the tree that is built of
the result. `Conversation` has streams that hold the messages they read first.

### FeishuSetup, RoleEditor

`console[p]` and `editor[p]` are tabs; `caller[c]` is a service between reading the
configuration and caching a client; `gridSave[p]` is a save, which deletes
the rows of the role and then inserts the grid, with errors in between. The grid does not
list every resource, so a save removes what it does not show (`Unshown`).

### Screens, Panes

`Screens` describes each list of each page by a record: when it loads, whether it
is cleared first, what an answer or an error does to it, which changes can be
made, what each does on success and on failure (all from the script of the page),
and which buttons work in which state (from its template). `Panes` runs any one of
these lists against a backend with two keys and two rows: requests under way, the answers
in any order, errors, changes, leaving and returning. `ShownIsCurrent` holds for
what a page shows unless one of the circumstances that its history variables name has
happened (an answer for a key that was left, a load answered before a change, an error that
stands for an empty list).

## 3. Runs

| Run | Instance | Checks |
|---|---|---|
| `submission_review` | 1 task, 2 users, 2 requests, 1 other call, 2 attempts, 1 stall, 1 auction | `TypeOK`, `WorkHasOwner`, `OneReview`, `NoReturn` |
| `review_live` | 1 request, 1 call, 3 attempts, fairness | `ReviewEnds` |
| `settlement` | 1 task, a vote run and a meeting run, 1 call, 1 project update, failures | `PayeesMatchLedger`, `TotalMatchesLedger`, `PaymentOrder`, `RoundsDistinct`, refinement `KeepsBook` |
| `settlement_live` | 2 tasks (one may be split), a meeting run and a project run, failures, fairness | `TypeOK`, `MeetingSettled` |
| `screens` | six parts, one at a time: a meeting over two tasks with two pages; two Feishu tabs and one service; two role tabs; two project pages with a grid; two panels of columns with two saves, and one panel that is opened again or one other handler; one list of `Screens` | `ScreensTypeOK`, `TriggeredOnce`, `ConfirmedIsRecorded`, `ParticipantsCounted`, `SetupTakesEffect`, `EditsKept` (`GridKept`, `CellsKept`, `ColumnsKept`), `ShownIsCurrent` |
| `finance` | one claim or one asset, two instances, two deciders, two pages or workers | `TypeOK`, `ApprovedFirst`, `AnnouncedOnce`, `ClaimFollowsApproval`, `DisposedIsFinal` |
| `bitable` | three parts over one table: events, pushes, full syncs; up to 3 tasks and rows, 2 bindings, fairness | `TypeOK`, `StampedIsApplied`, `StraysAreFaults`, `OneTaskPerRow`, `Converges` |
| `governance` | nine parts, one at a time: auction, ballot, dividend, code, registration, directory, departments, chat, skill; fairness of the close jobs | `TypeOK`, `HighestWins`, `VotesCounted`, `ApprovedAddsUp`, `TenantsHaveAdmin`, `ResignedLeft`, `MendedIsShown`, `AnswerKept`, `SkillTraced`, `AuctionsEnd`, refinement `CodesInTurn` |
| `task_terminal` | 1 request | violation of `TerminalIsFinal` |
| `review_unrecorded` | 1 request, no retries, fairness | violation of `CompletionRecorded` |
| `settlement_repaid` | a meeting run and a project run, no failures | violation of `ResultPaidOnce` |
| `settlement_unrecorded` | the same, fairness | violation of `ProjectRunRecorded` |

`screens` and `governance` put parts together that share no state: `part` says
which of them runs; the variables of the others keep their initial values. The
state space is the sum of the parts, and each property is about one of them.

What they show:

- However reads and stale saves interleave, claimed, submitted or reviewed work
  has an owner. The stronger statements need handlers that do not overlap:
  `NoReturn` and `OneReview` say so with `~overlapped`. Without it they are false,
  since nothing in the code prevents two requests from passing the same check.
- A review ends after its last attempt at the latest. If the process dies
  between the task's transition and `queue.add`, there is no job to end; that
  hazard has no property because the code has no answer to it.
- A settlement row tells the truth about `point_records`, with failing shares,
  refused tasks and concurrent runs. It cannot tell that a task was paid by two runs.
- A meeting triggers its settlement once and keeps what was confirmed as long as
  its saves do not cross; the pages count the participants that are there, unless a tab of the same
  user was closed, a connection was lost or the server restarted.
- Nothing is paid, transferred or disposed of without the signatures its chain
  asks for, up to the first gap; with a gap the chain ends there, although the
  tab that configures it says that a blank final approver is skipped.
- Webhooks in any order, repeated, with failures, leave no change unapplied that
  is newer than what is stored, and once Feishu and the jobs come to rest tasks
  have the texts of their rows. Both syncers together make two rows for
  one new task; the model has this, and the properties say what holds in spite of it.
- The highest bid that was accepted before the close read the bids wins, the result
  of a session is the outcome of votes that were cast, approved dividends add up to within
  the rounding of their shares, codes are given out in turn.
- A tenant has an administrator unless the call that founded it was cut off; nobody is
  marked resigned who has not left Feishu, or joined while a full sync was under way; a full sync
  that ran alone mends the tree whatever came before; a turn that was answered while nothing else
  went on stays in its conversation; a skill names a submission that exists.
- Many of these statements carry an exemption (`overlapped`, `crossed`, `behind`,
  `excused`, `lost` and the like). Each is a history
  variable set by a circumstance the code has no answer to, listed under "hazards"; what happens
  then is in the model, and only the property in question is silent about it.
- The four violations are disagreements between the code and its own comments,
  tests or schema; `PROJECT.json` quotes the lines under "findings".

### Bounds, and why they are enough

- One task is enough for `SubmissionReview`: nothing relates two tasks, and a
  request or a job touches one. Two requests and one further call are the
  smallest instance in which a check, a save and a second check interleave.
  Users and requests are symmetric; the symmetry set is used in the safety run
  only.
- `MaxAuctions = 1`: the second auction behaves as the first.
- Two attempts and one stall reach every edge of the job's life cycle; the
  liveness run has the three attempts of the code.
- In `settlement` two runs of different kinds compete for one task, with a split
  into two shares of 50% of 3 points: each share rounds to 2, so that the sum
  differs from the score. `settlement_live` has two tasks, so that one can
  fail while the other is settled, and a project run that begins while the
  meeting run is still going; it has no task handlers.
- `MaxUpdates = 1`: one stale project save is enough to move the round back.
- `finance`: two instances let a claim be submitted again after a rejection and an asset be operated
  on while an approval is open. Claims and assets are explored apart, because an approval concerns
  one of them; a failed expiry run meets one direct operation at most.
- `bitable`: in `Events` people change one row, with two workers, or one worker and a fault; two
  events have one further delivery each. In `TaskEvents` tasks are made and edited, with the echo of one
  row. In `Syncs` nothing is announced, bindings come and go, and a full sync meets the state that the
  pushes left.
- `governance`: two bidders and two closers with two calls and two faults, or three calls and one;
  two tabs of one user and one of another; two officers; three clerks, so that one holds the lock while two wait, over two
  categories with one prefix; two people who share a mail; two departments; two streams over two
  conversations; three submissions. The comments of `MCGovernance` name the combinations that are cut off.
- `screens`: two tabs each, three selections, two saves, one error; a second error or a third request
  repeats what the first did. In `FeishuPart` clients and the automatic configuration are
  explored apart: its steps use no client. In `Panes` two keys, two items, two loads at a time, two changes.
  In `ColumnManager` two saves: one may overtake or miss the other, a third would miss one of them.
- Systems of requests may stop for good (every request may have ended and every bound be used up),
  so deadlock is not checked in any run.

### Fairness

- `review_live`: weak fairness of `JobWork`, the steps of a job that succeed. Bull
  hands a waiting job to a worker, and an attempt goes on unless it fails. No
  fairness is assumed for requests, which may be abandoned.
- `settlement_live`: weak fairness of `RunWork`, since Node resumes a function whose
  await has settled, and of the start of the listener's run for an emitted
  event. Nothing is assumed of users.
- `bitable`: weak fairness of the delivery of each event, of taking jobs and of the workers'
  steps: Feishu repeats an event until it is answered, Bull hands out its jobs. Nothing is
  assumed of people, pushes, full syncs or faults.
- `governance`: weak fairness of the deadline, of taking the close job and of its steps
  (`AuctionFairness`): time passes, and Bull runs a delayed job after its deadline. Nothing is assumed of bidders.

Failures (`AttemptFails`, `JobStalls`, `RunFailure`, faults and errors) may happen at every await and
are never fair: a step that is stuck is not saved by a crash.

## 4. Proofs

Each theorem holds for every value of the constants: any number of tasks, users,
calls, runs, meetings, rows, workers, pages, and any bound. The named assumptions of the modules say
that the values that stand for "none" (`Nobody`, `Idle`, `NoItem`, `NoCall`, ...) are not values
of the kinds they stand beside, that bounds are natural numbers, that a score is at least 1 (`Math.max(1,
...)`), that the kinds of runs are disjoint, that a table's rows, bindings and workers, the departments
of a company, the members of a project and the submissions of a skill are finitely many.
The modules of the `governance` and `screens` runs are proved about under specifications of their own
(`AuctionSpec`, `BallotSpec`, `DividendSpec`, `RegistrationSpec`, `DirectorySpec`, `SkillSpec`, `ChatSpec`, `CodeSpec`, `DeptSpec`, `SetupSpec`, `RolesSpec`, `TaskGridSpec`, `ColumnsSpec`, `PanesSpec`),
whose steps are those the runs take in the part of that module. That a behaviour of `MCGovernance` or
`MCScreens` is one of each of them is proved too (`PartsRun`, `ScreensRun`): a step of one part is a stutter
of the others, except that ballots and dividends share the points. There points move on their own in both
specifications, in the latter only before there is a dividend, and where ballots run there never is one
(`NoDividendAtBallots`). So the invariants that the runs check over all parts are theorems as well
(`PartsTypeCorrect`, `ScreensTypeCorrect`, `EditsStay`).

Nearly every proof has the same shape: the code reads a row, decides, and saves
the entity later, so the property alone is never inductive. It becomes so when the invariant says
of every entity that waits to be saved what the property says of the rows, or what its
handler still knows of the rows when it saves: the versions only grow, an earlier signature stays, a
history variable tells that somebody else was there.

| Module | Inductive invariant | Why it is needed | What follows |
|---|---|---|---|
| `SubmissionReviewProofs` | `IInv`: `TypeOK`; a waiting job has attempts left; a request enqueues once | a failing attempt could exceed the limit | `TypeCorrect` |
| | `OwnerInv`: rows and the entities of calls, requests and jobs have an owner | a stale save is harmless if the entity was well owned when it was read | `WorkOwned` |
| | `SerialInv`: while nothing has overlapped, at most one handler is in flight, what it will save is a lawful successor of the row as it is now, and a task with a review job is under review or past it, with an assignee | no later request may get by the status check | `ReviewedOnce`, `HandedInStays` |
| `SettlementProofs` | `TypeInv` and `LocalInv` (below), `NumberInv`, `RoundInv` | | `PayeesCorrect`, `ListedPaid`, `PaidFirst`, `SettledFirst`, `PaymentOrdered`, `RoundsAreDistinct`, refinement `BookKept` |
| | `NewInv`: a payment that is due, or may come to be, has no row of this run yet; `TotalInv`: the total is the sum of its rows | two equal payments of a run would be one member of the set that is summed | `TotalsCorrect` |
| `GovernanceProofs` | `CodeInv`: who has found a row still holds its lock and the committed number | the update after the read | refinement `NumbersInTurn` |
| | `RegistrationInv`: a verification past its first insert has a tenant; only founders make tenants | another verification may meet a tenant without an administrator | `FoundersGovern` |
| | `DirectoryInv`: accounts, links, events and workers name people who are known; a full sync misses only who joined since (`WorkOK`) | the sync resigns whoever is not in a list it fetched long ago | `NobodyResignedForNothing` |
| | `SkillInv`: the row a submission holds is the skill's as long as nobody crossed (`VisitInv`), versions differ (`VersionsInv`) | two registrations with four awaits between them | `SkillsAreTraced` |
| | `SkillBoundInv`: no row, kept, read or noted, has a higher version than there were saves, counted as requests past their first save and requests that are over | a save puts one on top of a row that was read long ago | `SkillTypeCorrect` |
| | `DeptInv`: the chart and every list of it, read or half saved, have no cycle (`ChartInv`, `ListOK`); a run that is alone has saved the rows, then the parents it is past (`SyncOK`); what a mended list says is shown (`MendedInv`) | two passes over all departments, one save at a time, with webhooks in between | `DeptTypeCorrect`, `TreeIsMended` |
| | `ChatInv`: a turn that must be kept is in the messages every stream holds | the stream saves the whole conversation | `AnswersStay` |
| | `JobInv`, `CreatedInv`: a job keeps an attempt until it has failed, since one call adds it and only the run that owns it counts | attempts could exceed their limit | `AuctionTypeCorrect` |
| | `WinnerInv`: what a run of the close job is about to save is right, as a closed row is | it decides before it saves, and bids are saved meanwhile | `WinnerIsHighest` |
| | `BallotInv`: what a call that closes the session has counted are votes of different users with all that are not late (`CallsCount`, `Counted`) | it counts, reads the members and saves in three steps | `BallotTypeCorrect`, `OutcomesAreCounted` |
| | `DividendInv`: rows, and rows that calls will save, are as one total made them (`RowInv`) | fills and decisions save whole rows over each other | `DividendTypeCorrect`, `AmountsFollowTotal` |
| | none: annealing by `k` complete steps divides by `3 ^ k`, one third at a time | | `MeltsByThirds` |
| `FinanceProofs` | `ApprovalInv`, `OnceInv`, `ClaimInv`, `StoryInv`, `AssetInv`: what pages, listeners, direct operations and the expiry job hold was earned by a signed chain | money and assets move by saves of rows that were read before the decision | `FinanceTypeCorrect`, `SignedBeforePaid`, `StepsAreSigned`, `EventsOnce`, `ClaimsFollow`, `DisposedStays` |
| `ScreensProofs` | `MeetingInv`: entities equal their row unless it raced, one call closes it, pages were told what is recorded, the room has everybody who counts | saves of whole meetings | `MeetingTypeCorrect`, `ClosedOnce`, `ConfirmedStays`, `EveryVoterCounts` |
| | `SetupInv`: a service that has not gone stale holds the row; an automatic configuration without an error has carried out the steps before the current one | the client is cached later | `SetupTypeCorrect`, `SetUpWorks` |
| | `RolesInv`: saves of a role are alone unless they crossed, answers come for the role that was asked for | delete and insert are two steps | `RolesTypeCorrect`, `GridsAreKept` |
| | `GridInv`: a page that is not behind shows what was written last, an edit carries only such values beside its own (`PagesFollow`, `EditsFollow`, `CellAsTyped`, `ReviewFollows`) | the grid sends all cells for one | `GridTypeCorrect`, `CellsStay` |
| | `ColumnInv`: the list of a panel, of its load, of a save under way and of a handler agrees with the row but for what each may not know (`PanelsAgree`, `ClicksAgree`, `HandlersAgree`); a panel hears of one save at a time | every save replaces the list | `ColumnsTypeCorrect`, `ColumnsStay` |
| | `ListInv`: the page holds a row as it is, or a change of it is out whose end the page has not heard; `LoadsOK`: an answer brings a row as it is, or has missed such a change, which knows it; `AlterInv`: a change that no other has crossed made what the backend lists now | a list loaded, or changed in place, while other requests are under way | `PanesTypeCorrect`, `PanesShowRows` |
| | `OpenInv`: a key that is open has been loaded or will be; `Sane`: which scripts the pages of `Screens` have at all | a page that does not load when it opens relies on what it loaded before | |
| `BitableProofs` | `KnownInv`: what a handler has read or saved is at least as new as the event it is for, its row is in the table, its task has that row unless that is noted (`HandlingOK`, `PushOK`, `TwinOK`, `PullOK`, `EditOK`, `Sound`) | every handler spans four to six awaits, with two syncers on one table | `BitableTypeCorrect`, `StampsAreApplied` |
| | `ClaimInv`: a row that a handler is about to make a task of has none (`Single`) | two handlers could find none, one after the other | `RowsBecomeOneTask` |
| | `StrayInv`: rows that nothing links to and no push holds are no more than the faults | a push that ends must have linked its row or failed | `StraysAreCounted` |

`LocalInv` of a settlement run has these parts:

| Part | Says |
|---|---|
| `ItemsInv` | items still to do are neither listed nor saved, and the current item is neither to do nor listed |
| `DueInv` | what is due belongs to the current item; it is owed while it is being paid, and gone before a meeting or project run settles |
| `PaidInv` | nothing is owed and unpaid for a listed item, nor for the current one except what is due |
| `OrderInv` | a vote run pays only for saved items; of the others, saved items are paid |
| `BookInv` | `payees` are those of the ledger; settlements and drafts follow the phase |
| `OriginInv` | items and payments of a vote or meeting run are of its session or meeting |

A step of run `r` changes only the parts of `r`; steps of the other handlers
change none of them, so one lemma for each action of a run is enough. In the refinements each step of the
code is mapped to a step of the abstract module or to a stutter. `NumberInv` says that a run that has
not yet a round left no trace, and `RoundInv` that, while nothing has overlapped, at
most one run is active, a pending project save holds the current round, and
all rounds given out differ and are at most `projects.settlementRound`.

Three properties compare sums. `MapThenSumSet` is a recursive function over the subsets of a set, which takes
whatever member `CHOOSE` yields first. An induction theorem with an operator as parameter cannot be used here,
so `Sums` takes a smallest set for which a lemma fails instead (`Least` for numbers, `Smallest` for finite sets) and derives
a contradiction. It shows that a function with those equations exists (`SumExists`), is the only one (`SumUnique`),
is a natural number when its terms are (`SumType`), that one member more adds its term, whichever comes first
(`SumStep`), and that a sum splits in two (`SumSplit`). `Melted` is treated alike. What a function gives that is applied over
and over exists, is unique, and stays in every set that is closed under it (`OrbitExists`, `OrbitUnique`, `OrbitStays`);
`PowerOfThree` and the levels of `AboveIn` are of this kind. On them rest:

- `TotalsCorrect`: each row of a run is new when it is inserted, so `SumStep` applies to the total;
- `OutcomesAreCounted`: the weights for and against are the two parts of one sum;
- `AmountsFollowTotal`: each amount is off by half a cent at most, so a set of them by half a cent for each member;
- `TreeIsMended`: `AboveIn` takes as many steps as there are departments and one more. A path that is longer
  meets a department twice, and levels that follow from equal ones are equal, so the union of these levels is closed
  under parents (`AboveStep`), and it is the least such set (`AboveLeast`). All other steps use these two facts only.

Two proof attempts failed for good reasons and corrected the models:

- `OneOrder` was first stated for every claim. It is false: if the submission of a claim fails after its
  approval instance was made, the claim is submitted again with a second instance; when the other instance is
  approved after the claim was completed, `handleApprovalCompleted` (`reimbursement/reimbursement.service.ts:245`)
  does not look at the claim's status and takes it back to `leader_approved`, so that it is paid and
  completed again, and a second asset is ordered. The property now speaks of claims with one instance.
- In `TaskGrid` whether a page still shows what was typed was read off the edits in flight when the answer came. An
  edit that was answered in between may have replaced the page's row too; the history field `alone` remembers it.

Only model-checked, within the bounds above:

- liveness: `ReviewEnds`, `MeetingSettled`, `Converges`, `AuctionsEnd` (temporal reasoning
  with fairness and ENABLED is out of this prover's reach);
- that the four violations happen, each by its counterexample.

## 5. Plan

Done: the core (tasks, submissions, settlements) with its proofs; meetings; approvals with
claims and assets; auctions, votes, dividends, codes; both Bitable syncers; accounts, directory,
departments; conversations; Feishu setup and roles; the pages' lists; skills, the task grid and the columns of a project.

Proved: every invariant and action property of the passing runs, and the refinements of `SettlementBook` and `Sequencer`.

## 6. Not modelled

- Files (`upload`), the audit log, sync logs, statistics, health checks: nothing reads them for a
  decision. Depreciation and leaderboards are formulas over rows that are read.
- What large language models answer, prompts, embeddings and plugins: an answer or an error.
- Passwords, tokens, sessions, and who may call what.
- Of the Bitable syncers: the adapters other than that of tasks (the same code runs them), creation of tables, writebackPoints,
  deletion of rows at Feishu, code that nothing calls (syncSingleRecord, ConflictResolverService).
- Of the pages: texts, styles, sorting, filtering and paging in a list, routing, the API clients, and
  forms that are only typed into. More than a third of the implementation's lines are styles, markup, type
  declarations, DTOs and migrations, which have no behaviour of their own; what a button's
  condition in a template lets the user do is in `Screens`.
- Migrations other than the constraints that handlers run into: the NOT NULL column of settlements, the
  unique keys of asset codes, skills, accounts, votes and contributions.

`PROJECT.json` gives the reason for each component.
