----------------------------- MODULE Settlement -----------------------------
(***************************************************************************)
(* backend/src/settlement/settlement.service.ts: the three ways points are *)
(* paid out for finished tasks.                                            *)
(*   vote run     triggerSettlement   settles a task, then pays it         *)
(*   meeting run  settleFromMeeting   pays a task, then settles it         *)
(*   project run  settleProject       as a meeting run, over the results   *)
(*                                    of every closed meeting              *)
(* A run is an async function without a transaction: it stops at every     *)
(* await, where other runs and the handlers of TaskService, ProjectService *)
(* and MeetingService go on; a query may fail, or the process may die.     *)
(* One step of the model is what happens between two awaits.               *)
(***************************************************************************)
EXTENDS TaskService, FiniteSetsExt

CONSTANTS
  Meetings, Sessions,                  \* review meetings, passed vote sessions
  VoteRuns, MeetingRuns, ProjectRuns,  \* calls of the three functions
  Project,       \* what a project run settles, in place of a meeting or session
  SessionTasks,  \* [Sessions -> SUBSET Tasks]: session.taskIds
  Score,         \* [Sources -> [Tasks -> Nat]]: final points, rounded, at least 1
  Splits,        \* [Tasks -> sets of contributions: functions from users to percents]
  MaxUpdates,    \* bound: project updates in flight at once
  Failures,      \* whether queries may fail and the process may die
  InitialRows,   \* the task rows a behaviour may start from
  NoItem         \* a run that has not begun an item

Runs    == VoteRuns \cup MeetingRuns \cup ProjectRuns
Sources == Meetings \cup Sessions
Item    == [source : Sources, task : Tasks]
Payment == [source : Sources, task : Tasks, user : Users, points : Nat]
NoSplit == [u \in {} |-> 0]

ASSUME RunsAssumption ==
  /\ VoteRuns \cap MeetingRuns = {}
  /\ VoteRuns \cap ProjectRuns = {}
  /\ MeetingRuns \cap ProjectRuns = {}
ASSUME SessionTasksAssumption == SessionTasks \in [Sessions -> SUBSET Tasks]
ASSUME ScoreAssumption == Score \in [Sources -> [Tasks -> Nat \ {0}]]
ASSUME SplitsAssumption ==
  \A t \in Tasks :
    /\ NoSplit \in Splits[t]
    /\ \A f \in Splits[t] : DOMAIN f \subseteq Users /\ \A u \in DOMAIN f : f[u] \in Nat
ASSUME MaxUpdatesAssumption == MaxUpdates \in Nat
ASSUME InitialRowsAssumption == InitialRows \subseteq Row
ASSUME FailuresAssumption == Failures \in BOOLEAN
ASSUME NoItemAssumption == NoItem \notin Item
ASSUME ProjectAssumption == Project \notin Sources

VARIABLES
  \* rows of other tables
  results,      \* [Meetings -> SUBSET Tasks]: keys of the JSONB column results
  event,        \* [Meetings -> EventState]: status of the meeting and its event
  contribs,     \* [Tasks -> contributions]: task_contributions
  round,        \* projects.settlementRound
  projectCall,  \* rounds that calls of ProjectService.update will save
  ledger,       \* point_records, each with the run that inserted it
  settlements,  \* rows of settlements, each with its run
  drafts,       \* dividends, as the runs whose settlement they are for
  \* the local state of a run
  phase,        \* [Runs -> Phase]: the await the run is at
  origin,       \* [Runs -> Sources or Project]
  runRound,     \* [Runs -> Nat]: settlementRound of its project entity
  todo,         \* [Runs -> SUBSET Item]: the items not yet begun
  item,         \* [Runs -> Item or NoItem]: the item begun last
  due,          \* [Runs -> SUBSET Payment]: payments of the item still to make
  entity,       \* [Runs -> Row]: the task entity settle() will save
  listed,       \* [Runs -> SUBSET Item]: settledTaskIds
  total,        \* [Runs -> Nat]: totalPointsAwarded
  payees,       \* [Runs -> SUBSET Users]: affectedUsers
  \* history
  owed,         \* [Runs -> SUBSET Payment]: payments of every item it came to pay
  saved,        \* [Runs -> SUBSET Item]: items whose task it saved as settled
  overlapped    \* a run overlapped with another or with a project update

meetingVars == <<results, event, contribs>>
projectVars == <<round, projectCall>>
bookVars    == <<ledger, settlements, drafts>>
itemVars    == <<todo, item, due, entity, listed, total, payees, owed, saved>>
runVars     == <<phase, origin, runRound, itemVars>>
vars        == <<taskVars, meetingVars, projectVars, bookVars, runVars, overlapped>>

Phase == { "idle", "readRound", "saveRound", "next", "split", "pay", "settle",
           "write", "publish", "draft", "done", "failed" }
EventState == {"open", "emitted", "handled", "lost"}
Entry == [run : Runs, round : Nat, payment : Payment]
SettlementRow ==
  [run : Runs, origin : Sources, round : Nat, tasks : SUBSET Tasks, total : Nat,
   payees : SUBSET Users]

TypeOK ==
  /\ TaskTypeOK
  /\ results \in [Meetings -> SUBSET Tasks]
  /\ event \in [Meetings -> EventState]
  /\ contribs \in [Tasks -> UNION {Splits[t] : t \in Tasks}]
  /\ \A t \in Tasks : contribs[t] \in Splits[t]
  /\ round \in Nat
  /\ projectCall \subseteq Nat
  /\ ledger \subseteq Entry
  /\ settlements \subseteq SettlementRow
  /\ drafts \subseteq Runs
  /\ phase \in [Runs -> Phase]
  /\ origin \in [Runs -> Sources \cup {Project}]
  /\ runRound \in [Runs -> Nat]
  /\ todo \in [Runs -> SUBSET Item]
  /\ item \in [Runs -> Item \cup {NoItem}]
  /\ due \in [Runs -> SUBSET Payment]
  /\ entity \in [Runs -> Row]
  /\ listed \in [Runs -> SUBSET Item]
  /\ total \in [Runs -> Nat]
  /\ payees \in [Runs -> SUBSET Users]
  /\ owed \in [Runs -> SUBSET Payment]
  /\ saved \in [Runs -> SUBSET Item]
  /\ overlapped \in BOOLEAN

NoRow == [status |-> "open", assignee |-> Nobody]

Init ==
  /\ task \in [Tasks -> InitialRows]
  /\ call = [c \in Calls |-> Idle]
  /\ auctions = [t \in Tasks |-> 0]
  /\ results = [m \in Meetings |-> {}]
  /\ event = [m \in Meetings |-> "open"]
  /\ contribs = [t \in Tasks |-> NoSplit]
  /\ round = 0
  /\ projectCall = {}
  /\ ledger = {}
  /\ settlements = {}
  /\ drafts = {}
  /\ phase = [r \in Runs |-> "idle"]
  /\ origin = [r \in Runs |-> Project]
  /\ runRound = [r \in Runs |-> 0]
  /\ todo = [r \in Runs |-> {}]
  /\ item = [r \in Runs |-> NoItem]
  /\ due = [r \in Runs |-> {}]
  /\ entity = [r \in Runs |-> NoRow]
  /\ listed = [r \in Runs |-> {}]
  /\ total = [r \in Runs |-> 0]
  /\ payees = [r \in Runs |-> {}]
  /\ owed = [r \in Runs |-> {}]
  /\ saved = [r \in Runs |-> {}]
  /\ overlapped = FALSE

-----------------------------------------------------------------------------
(* Starting a run.                                                         *)

Active == {r \in Runs : phase[r] \notin {"idle", "done", "failed"}}

Start(r, from, items) ==
  /\ phase[r] = "idle"
  /\ phase' = [phase EXCEPT ![r] = "readRound"]
  /\ origin' = [origin EXCEPT ![r] = from]
  /\ todo' = [todo EXCEPT ![r] = items]
  /\ overlapped' = (overlapped \/ Active # {} \/ projectCall # {})
  /\ UNCHANGED <<taskVars, results, contribs, projectVars, bookVars, runRound, item,
                 due, entity, listed, total, payees, owed, saved>>

\* triggerSettlement: the session has passed; it may have been settled before.
StartVote(r, v) ==
  /\ r \in VoteRuns
  /\ Start(r, v, [source : {v}, task : SessionTasks[v]])
  /\ UNCHANGED event

\* MeetingSettlementListener: the event is taken and the meeting read again.
StartMeeting(r, m) ==
  /\ r \in MeetingRuns
  /\ event[m] = "emitted"
  /\ results[m] # {}
  /\ event' = [event EXCEPT ![m] = "handled"]
  /\ Start(r, m, [source : {m}, task : results[m]])

\* settleProject: every result of a closed meeting whose task is not settled.
Unsettled ==
  {i \in Item : /\ i.source \in Meetings
               /\ event[i.source] # "open"
               /\ i.task \in results[i.source]
               /\ task[i.task].status # "settled"}

StartProject(r) ==
  /\ r \in ProjectRuns
  /\ Unsettled # {}
  /\ Start(r, Project, Unsettled)
  /\ UNCHANGED event

-----------------------------------------------------------------------------
(* incrementSettlementRound: findOne, add one, save the project.           *)

ReadRound(r) ==
  /\ phase[r] = "readRound"
  /\ phase' = [phase EXCEPT ![r] = "saveRound"]
  /\ runRound' = [runRound EXCEPT ![r] = round + 1]
  /\ UNCHANGED <<taskVars, meetingVars, projectVars, bookVars, origin, itemVars, overlapped>>

\* Defect: the incremented round is used but not saved.
RoundNotSaved(r) ==
  /\ phase[r] = "saveRound"
  /\ phase' = [phase EXCEPT ![r] = "next"]
  /\ UNCHANGED <<taskVars, meetingVars, projectVars, bookVars, origin, runRound, itemVars,
                 overlapped>>

SaveRound(r) ==
  /\ phase[r] = "saveRound"
  /\ phase' = [phase EXCEPT ![r] = "next"]
  /\ round' = runRound[r]
  /\ UNCHANGED <<taskVars, meetingVars, projectCall, bookVars, origin, runRound,
                 itemVars, overlapped>>

-----------------------------------------------------------------------------
(* The loop over the items.                                                *)

\* Math.max(1, Math.round(finalPoints * percentage / 100))
Share(points, percent) ==
  LET rounded == (2 * points * percent + 100) \div 200
  IN  IF rounded < 1 THEN 1 ELSE rounded

Pays(i, u, n) == [source |-> i.source, task |-> i.task, user |-> u, points |-> n]

\* All to the assignee of the entity read, when it has one.
AssigneeDue(i) ==
  {Pays(i, u, Score[i.source][i.task]) : u \in {task[i.task].assignee} \ {Nobody}}

\* One share for each contribution.
SplitDue(i) ==
  {Pays(i, u, Share(Score[i.source][i.task], contribs[i.task][u])) :
     u \in DOMAIN contribs[i.task]}

\* taskService.findOne: the next item begins.
TakeItem(r, i, next) ==
  /\ phase[r] = "next"
  /\ i \in todo[r]
  /\ todo' = [todo EXCEPT ![r] = @ \ {i}]
  /\ item' = [item EXCEPT ![r] = i]
  /\ due' = [due EXCEPT ![r] = AssigneeDue(i)]
  /\ phase' = [phase EXCEPT ![r] = next]
  /\ UNCHANGED <<taskVars, meetingVars, projectVars, bookVars, origin, runRound,
                 entity, listed, total, payees, owed, saved, overlapped>>

\* A vote run goes on to settle the task, the others to look for contributions.
ReadTask(r, i) == TakeItem(r, i, IF r \in VoteRuns THEN "settle" ELSE "split")

\* contributionRepository.find: contributions replace the assignee.
DueNow(r) == IF contribs[item[r].task] = NoSplit THEN due[r] ELSE SplitDue(item[r])

OweDue(r, next) ==
  /\ phase[r] = "split"
  /\ due' = [due EXCEPT ![r] = DueNow(r)]
  /\ owed' = [owed EXCEPT ![r] = @ \cup DueNow(r)]
  /\ phase' = [phase EXCEPT ![r] = next]
  /\ UNCHANGED <<taskVars, meetingVars, projectVars, bookVars, origin, runRound,
                 todo, item, entity, listed, total, payees, saved, overlapped>>

\* Defect: the task is settled first, whatever is due.
SettleBeforePaying(r) == OweDue(r, "settle")

ReadContributions(r) == OweDue(r, IF DueNow(r) = {} THEN "settle" ELSE "pay")

\* pointsService.awardPoints, and the two sums of the summary.  After the last
\* payment a vote run lists the task, the others settle it.
Award(r, p, users, points) ==
  LET left == due[r] \ {p}
      last == left = {}
  IN  /\ phase[r] = "pay"
      /\ p \in due[r]
      /\ ledger' = ledger \cup {[run |-> r, round |-> runRound[r], payment |-> p]}
      /\ total' = [total EXCEPT ![r] = @ + points]
      /\ payees' = [payees EXCEPT ![r] = @ \cup users]
      /\ due' = [due EXCEPT ![r] = left]
      /\ phase' = [phase EXCEPT ![r] =
                     IF ~last THEN "pay" ELSE IF r \in VoteRuns THEN "next" ELSE "settle"]
      /\ listed' = [listed EXCEPT ![r] =
                      IF last /\ r \in VoteRuns THEN @ \cup {item[r]} ELSE @]
      /\ UNCHANGED <<taskVars, meetingVars, projectVars, settlements, drafts, origin,
                     runRound, todo, item, entity, owed, saved, overlapped>>

\* Defects: the assignee counts as affected, not the contributor; the total adds
\* the points of the task, not of the share.
PayCountsAssignee(r, p) == Award(r, p, {task[p.task].assignee} \ {Nobody}, p.points)
PayTotalsScore(r, p) == Award(r, p, {p.user}, Score[p.source][p.task])

Pay(r, p) == Award(r, p, {p.user}, p.points)

\* taskService.settle reads the task again and asks the transition table.
ReadSettle(r) ==
  LET row == task[item[r].task] IN
  /\ phase[r] = "settle"
  /\ CanTransition(row.status, "settled")
  /\ entity' = [entity EXCEPT ![r] = [row EXCEPT !.status = "settled"]]
  /\ phase' = [phase EXCEPT ![r] = "write"]
  /\ UNCHANGED <<taskVars, meetingVars, projectVars, bookVars, origin, runRound, todo,
                 item, due, listed, total, payees, owed, saved, overlapped>>

\* taskService.settle saves; a vote run then pays the assignee, if there is one.
PaysNext(r) == r \in VoteRuns /\ due[r] # {}

SaveSettled(r, lists) ==
  /\ phase[r] = "write"
  /\ task' = [task EXCEPT ![item[r].task] = entity[r]]
  /\ saved' = [saved EXCEPT ![r] = @ \cup {item[r]}]
  /\ owed' = [owed EXCEPT ![r] = @ \cup due[r]]
  /\ entity' = [entity EXCEPT ![r] = NoRow]
  /\ phase' = [phase EXCEPT ![r] = IF PaysNext(r) THEN "pay" ELSE "next"]
  /\ listed' = [listed EXCEPT ![r] = IF lists THEN @ \cup {item[r]} ELSE @]
  /\ UNCHANGED <<call, auctions, meetingVars, projectVars, bookVars, origin, runRound,
                 todo, item, due, total, payees, overlapped>>

SaveSettle(r) == SaveSettled(r, ~PaysNext(r))

\* catch (err): the run goes on with the next item and keeps what it has paid.
NextItem(r) ==
  /\ phase' = [phase EXCEPT ![r] = "next"]
  /\ item' = [item EXCEPT ![r] = NoItem]
  /\ due' = [due EXCEPT ![r] = {}]
  /\ entity' = [entity EXCEPT ![r] = NoRow]
  /\ UNCHANGED <<taskVars, meetingVars, projectVars, bookVars, origin, runRound, todo,
                 listed, total, payees, owed, saved, overlapped>>

\* validateTransition throws: the task was settled, cancelled or reopened meanwhile.
RefuseSettle(r) ==
  /\ phase[r] = "settle"
  /\ ~CanTransition(task[item[r].task].status, "settled")
  /\ NextItem(r)

\* A query about the item fails.
ItemFails(r) ==
  /\ Failures
  /\ phase[r] \in {"split", "pay", "settle", "write"}
  /\ NextItem(r)

\* The same when findOne itself fails.
SkipUnread(r, i) ==
  /\ Failures
  /\ phase[r] = "next"
  /\ i \in todo[r]
  /\ todo' = [todo EXCEPT ![r] = @ \ {i}]
  /\ UNCHANGED <<taskVars, meetingVars, projectVars, bookVars, phase, origin, runRound,
                 item, due, entity, listed, total, payees, owed, saved, overlapped>>

EndLoop(r) ==
  /\ phase[r] = "next"
  /\ todo[r] = {}
  /\ phase' = [phase EXCEPT ![r] = "publish"]
  /\ item' = [item EXCEPT ![r] = NoItem]
  /\ UNCHANGED <<taskVars, meetingVars, projectVars, bookVars, origin, runRound, todo,
                 due, entity, listed, total, payees, owed, saved, overlapped>>

-----------------------------------------------------------------------------
(* The settlement record and the dividend draft.                           *)

\* settlementRepository.save.
Record(r, tasks) ==
  /\ phase[r] = "publish"
  /\ settlements' = settlements \cup
       {[run |-> r, origin |-> origin[r], round |-> runRound[r], tasks |-> tasks,
         total |-> total[r], payees |-> payees[r]]}
  /\ phase' = [phase EXCEPT ![r] = "draft"]
  /\ UNCHANGED <<taskVars, meetingVars, projectVars, ledger, drafts, origin, runRound,
                 itemVars, overlapped>>

ListedTasks(r) == {i.task : i \in listed[r]}

\* Defects: a settlement of no session or meeting; one that lists every task the
\* run came to pay; none when no task was settled.
PublishNull(r) == Record(r, ListedTasks(r))
PublishListsAll(r) == origin[r] # Project /\ Record(r, {p.task : p \in owed[r]})
PublishIfSettled(r) == origin[r] # Project /\ listed[r] # {} /\ Record(r, ListedTasks(r))

\* Only a run that has a session or a meeting to name gets past the column.
Publish(r) == origin[r] # Project /\ Record(r, ListedTasks(r))

\* dividendService.createDraft, after reads and snapshots that change nothing here.
Draft(r) ==
  /\ phase[r] = "draft"
  /\ drafts' = drafts \cup {r}
  /\ phase' = [phase EXCEPT ![r] = "done"]
  /\ UNCHANGED <<taskVars, meetingVars, projectVars, ledger, settlements, origin, runRound,
                 itemVars, overlapped>>

\* Non-fatal: the settlement stays without a draft.
DraftFails(r) ==
  /\ Failures
  /\ phase[r] = "draft"
  /\ phase' = [phase EXCEPT ![r] = "done"]
  /\ UNCHANGED <<taskVars, meetingVars, projectVars, bookVars, origin, runRound, itemVars,
                 overlapped>>

\* The function rejects, or its process is gone: its local state is lost.
Stop(r) ==
  /\ phase' = [phase EXCEPT ![r] = "failed"]
  /\ todo' = [todo EXCEPT ![r] = {}]
  /\ item' = [item EXCEPT ![r] = NoItem]
  /\ due' = [due EXCEPT ![r] = {}]
  /\ entity' = [entity EXCEPT ![r] = NoRow]
  /\ UNCHANGED <<taskVars, meetingVars, projectVars, bookVars, origin, runRound, listed,
                 total, payees, owed, saved, overlapped>>

\* settleProject saves a settlement without a voteSessionId; the column is NOT NULL
\* and the insert is rejected after everything has been paid.
PublishRejected(r) ==
  /\ phase[r] = "publish"
  /\ origin[r] = Project
  /\ Stop(r)

\* A query fails outside the try blocks, or the process dies at this await.
AbortRun(r) ==
  /\ Failures
  /\ r \in Active
  /\ Stop(r)

RunWork(r) ==
  \/ ReadRound(r)
  \/ SaveRound(r)
  \/ \E i \in todo[r] : ReadTask(r, i)
  \/ ReadContributions(r)
  \/ \E p \in due[r] : Pay(r, p)
  \/ ReadSettle(r)
  \/ SaveSettle(r)
  \/ RefuseSettle(r)
  \/ EndLoop(r)
  \/ Publish(r)
  \/ PublishRejected(r)
  \/ Draft(r)

RunFailure(r) ==
  \/ \E i \in todo[r] : SkipUnread(r, i)
  \/ ItemFails(r)
  \/ DraftFails(r)
  \/ AbortRun(r)

RunStep(r) == RunWork(r) \/ RunFailure(r)

-----------------------------------------------------------------------------
(* The other handlers, as far as a run can notice them.                    *)

\* MeetingService.confirmTask adds a result; it does not ask whether the meeting
\* is still open.
ConfirmTask(m, t) ==
  /\ results' = [results EXCEPT ![m] = @ \cup {t}]
  /\ UNCHANGED <<event, contribs>>

\* MeetingService.closeMeeting emits meeting.closed.
CloseMeeting(m) ==
  /\ event[m] = "open"
  /\ event' = [event EXCEPT ![m] = "emitted"]
  /\ UNCHANGED <<results, contribs>>

\* settleFromMeeting throws when there are no results; the listener logs it.
RefuseMeeting(m) ==
  /\ event[m] = "emitted"
  /\ results[m] = {}
  /\ event' = [event EXCEPT ![m] = "handled"]
  /\ UNCHANGED <<results, contribs>>

\* The process dies, or the meeting cannot be read, before the run begins: the
\* event exists only in memory.
LoseEvent(m) ==
  /\ Failures
  /\ event[m] = "emitted"
  /\ event' = [event EXCEPT ![m] = "lost"]
  /\ UNCHANGED <<results, contribs>>

\* MeetingService.setContributions, in any state of the meeting: the old rows
\* are deleted, and the new ones inserted after another await.
DeleteContributions(t) ==
  /\ contribs[t] # NoSplit
  /\ contribs' = [contribs EXCEPT ![t] = NoSplit]
  /\ UNCHANGED <<results, event>>

InsertContributions(t) ==
  /\ contribs[t] = NoSplit
  /\ \E f \in Splits[t] \ {NoSplit} : contribs' = [contribs EXCEPT ![t] = f]
  /\ UNCHANGED <<results, event>>

MeetingStep ==
  \/ \E m \in Meetings :
       \/ \E t \in Tasks : ConfirmTask(m, t)
       \/ CloseMeeting(m)
       \/ RefuseMeeting(m)
       \/ LoseEvent(m)
  \/ \E t \in Tasks : DeleteContributions(t) \/ InsertContributions(t)

\* ProjectService.update saves the whole row, settlementRound as it was read.
ReadProject ==
  /\ Cardinality(projectCall) < MaxUpdates
  /\ projectCall' = projectCall \cup {round}
  /\ overlapped' = (overlapped \/ Active # {})
  /\ UNCHANGED round

SaveProject ==
  /\ round' \in projectCall
  /\ projectCall' = projectCall \ {round'}
  /\ UNCHANGED overlapped

SaveProjectFails ==
  /\ Failures
  /\ \E n \in projectCall : projectCall' = projectCall \ {n}
  /\ UNCHANGED <<round, overlapped>>

\* A review job that is delivered again, or late, scores the task once more.
RescoreTask == \E c \in Calls, t \in Tasks : UpdateAiScores(c, t)

Next ==
  \/ \E r \in Runs : RunStep(r)
  \/ \E r \in Runs, v \in Sessions : StartVote(r, v)
  \/ \E r \in Runs, m \in Meetings : StartMeeting(r, m)
  \/ \E r \in Runs : StartProject(r)
  \/ MeetingStep /\ UNCHANGED <<taskVars, projectVars, bookVars, runVars, overlapped>>
  \/ ReadProject /\ UNCHANGED <<taskVars, meetingVars, bookVars, runVars>>
  \/ SaveProject /\ UNCHANGED <<taskVars, meetingVars, bookVars, runVars>>
  \/ SaveProjectFails /\ UNCHANGED <<taskVars, meetingVars, bookVars, runVars>>
  \/ TaskNext /\ UNCHANGED <<meetingVars, projectVars, bookVars, runVars, overlapped>>
  \/ RescoreTask /\ UNCHANGED <<meetingVars, projectVars, bookVars, runVars, overlapped>>

Spec == Init /\ [][Next]_vars

\* Node resumes a function whose await has settled, and calls the listener of an
\* event.  A run may fail or die half-way, but nothing makes it do so.
Fairness ==
  /\ \A r \in Runs : WF_vars(RunWork(r))
  /\ \A m \in Meetings : WF_vars(\E r \in Runs : StartMeeting(r, m))

FairSpec == Spec /\ Fairness

-----------------------------------------------------------------------------
(* Properties.                                                             *)

EntriesOf(r) == {e \in ledger : e.run = r}
Paid(r) == {e.payment : e \in EntriesOf(r)}
Of(i, payments) == {p \in payments : p.source = i.source /\ p.task = i.task}

\* The summary of a settlement tells what is in point_records: the total is the
\* sum of what its run inserted and the affected users are those it paid, with
\* shares that failed, tasks that were skipped and other runs on the same tasks.
PayeesMatchLedger ==
  \A s \in settlements : s.payees = {p.user : p \in Paid(s.run)}

TotalMatchesLedger ==
  \A s \in settlements :
    s.total = MapThenSumSet(LAMBDA e : e.payment.points, EntriesOf(s.run))

\* settledTaskIds lists a task only when every payment its run owed for it has
\* been made: one failed share of a split keeps the task off the list.
ListedIsPaid ==
  \A r \in Runs : \A i \in listed[r] : Of(i, owed[r]) \subseteq Paid(r)

\* Meeting and project runs settle a task only after all its payments: a crash in
\* between leaves a paid task unsettled, never a settled task unpaid.
PaidBeforeSettled ==
  \A r \in MeetingRuns \cup ProjectRuns : \A i \in saved[r] : Of(i, owed[r]) \subseteq Paid(r)

\* A vote run pays only for tasks it has settled itself: of several triggers for
\* one session, a run whose settle() was refused pays nothing for the task.
SettledBeforePaid ==
  \A r \in VoteRuns : \A p \in Paid(r) : [source |-> p.source, task |-> p.task] \in saved[r]

\* A crash between the two finds every task either payable again or fully paid, but for
\* vote runs, which would rather leave a payment out than make it twice.
PaymentOrder == PaidBeforeSettled /\ SettledBeforePaid

\* As long as no run overlaps with another run or with a project update, runs
\* that left a trace have rounds of their own, also after failed runs.
Traced(r) == \E x \in ledger \cup settlements : x.run = r
RoundsDistinct ==
  ~overlapped => \A r, q \in Runs :
    r # q /\ Traced(r) /\ Traced(q) => runRound[r] # runRound[q]

\* Settlement implements SettlementBook: the accounts are what point_records says
\* of each run, and only the fields the promise is about are kept of a settlement.
Book == INSTANCE SettlementBook WITH
  Payments <- Payment,
  paid     <- [r \in Runs |-> Paid(r)],
  closed   <- {[run |-> s.run, tasks |-> s.tasks, payees |-> s.payees] : s \in settlements}

KeepsBook == Book!Spec

\* A meeting that is closed with results gets its settlement, unless the event is
\* lost or the run fails outside the per-task try blocks: a refused or failed
\* task never keeps the others from being settled and recorded.
MeetingSettled ==
  \A m \in Meetings :
    event[m] = "emitted" /\ results[m] # {} ~>
      \/ event[m] = "lost"
      \/ \E s \in settlements : s.origin = m
      \/ \E r \in MeetingRuns : origin[r] = m /\ phase[r] = "failed"

\* settleProject handles unprocessed results: what a meeting decided about a task
\* is paid to a user at most once.
ResultPaidOnce ==
  \A d, e \in ledger :
    /\ d.payment.source \in Meetings
    /\ d.payment = e.payment
    => d = e

\* settleProject settles the results it found, or throws when there are none: a
\* call that got past that check and met no failure returns a settlement.
ProjectRunRecorded ==
  \A r \in ProjectRuns : phase[r] = "publish" ~> \E s \in settlements : s.run = r

=============================================================================
