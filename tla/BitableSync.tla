----------------------------- MODULE BitableSync -----------------------------
(***************************************************************************)
(* Tasks kept in step with a Feishu table: backend/src/bitable-sync, and   *)
(* the webhook controller and listener of backend/src/feishu.              *)
(*   A binding ties a project to a table; a link (feishu_bitable_records)  *)
(* ties a row of the table to the task pushed to it.  A row pulled from    *)
(* the table is looked up by tasks.feishuRecordId instead, which a push    *)
(* does not set.  Two workers take the jobs of the queue.                  *)
(*   There is one project, one table and one kind of entity; a text stands *)
(* for the synchronised fields, which never include the status (a pulled   *)
(* status is translated twice and dropped).  Sync logs are left out.       *)
(***************************************************************************)
EXTENDS Integers, FiniteSets

CONSTANTS
  Tasks, Rows, Bindings,   \* ids
  Workers,                 \* Bull runs one job per named handler: two in all
  Callers,                 \* calls of TaskService whose events are being handled
  Retries, Attempts,       \* of a push, of a job: 3 and 3 in the code
  MaxEdits,                \* bound: texts people write
  MaxEvents,               \* bound: events of the table
  MaxJobs,                 \* bound: full syncs asked for
  MaxBinds,                \* bound: calls that change a binding
  MaxFaults,               \* bound: calls and queries that fail
  NoTask, NoRow, NoLink, NoCall, NoBinding

ASSUME SyncAssumption ==
  /\ Retries \in Nat \ {0} /\ Attempts \in Nat \ {0}
  /\ {MaxEdits, MaxEvents, MaxJobs, MaxBinds, MaxFaults} \subseteq Nat
  /\ IsFiniteSet(Rows) /\ IsFiniteSet(Bindings) /\ IsFiniteSet(Workers) /\ IsFiniteSet(Callers)
  /\ Bindings # {} /\ Workers \cap Callers = {} /\ Bindings \cap (Workers \cup Callers) = {}
  /\ NoTask \notin Tasks /\ NoRow \notin Rows /\ NoBinding \notin Bindings

VARIABLES
  binding,   \* [Bindings -> Binding or NoBinding]: settings of the ids used so far
  live,      \* the binding that exists, or NoBinding: UNIQUE(tenant, project, entityType)
  binds,     \* calls that changed a binding so far
  task,      \* [Tasks -> Task or NoTask]
  row,       \* [Rows -> TableRow or NoRow]: the table, as Feishu holds it
  link,      \* [Bindings \X Rows -> Link or NoLink]: UNIQUE(binding, row)
  edits,     \* texts written so far; each is a number of its own
  event,     \* events of the table: a function from 1 .. their number
  owed,      \* [1 .. MaxEvents -> 0 .. 2]: deliveries Feishu still makes
  queue,     \* jobs waiting
  jobs,      \* full syncs asked for so far
  job,       \* [Workers -> the job in hand, or NoCall]
  push,      \* [Callers \cup Workers -> the task being pushed, or NoCall]
  faults,
  \* history
  applied,   \* [Rows -> the newest version of the row saved into a task]
  ours,      \* rows the platform made
  disturbed  \* a pull was lost, refused or overtaken, or the platform wrote a task or a row

bindingVars == <<binding, live, binds>>
tableVars   == <<row, event, owed>>
queueVars   == <<queue, jobs>>
syncVars == <<bindingVars, task, tableVars, link, edits, queueVars, job, push, faults,
              applied, ours, disturbed>>

Texts == 0 .. MaxEdits
Version == Nat
Directions == {"push_only", "pull_only", "bidirectional"}
Binding == [active : BOOLEAN, direction : Directions]
Task == [text : Texts, row : Rows \cup {NoRow}]
TableRow == [text : Texts, version : Version]
\* entity: set by the syncer; task: set by the deprecated one; event: the last one handled.
Link == [entity : Tasks \cup {NoTask}, task : Tasks \cup {NoTask}, event : 0 .. MaxEvents]
Event == [row : Rows, version : Version]
\* id: tells jobs for the same event, or full syncs, apart.
Job == [id : Nat, binding : Bindings, kind : {"record", "full"},
        row : Rows \cup {NoRow}, event : 0 .. MaxEvents, tries : 0 .. Attempts - 1]

\* A job in hand: of a full sync, the tasks to push and the listed rows to pull; the row
\* being pulled, what was read of it, the task and the link it was found to have.
Handling ==
  [job : Job, settings : Binding,
   at : {"push", "list", "next", "fetch", "find", "save", "findlink", "savelink", "stamp"},
   todo : SUBSET (Tasks \cup Rows), texts : [Tasks -> Texts],
   rows : [Rows -> TableRow \cup {NoRow}], row : Rows \cup {NoRow}, read : TableRow \cup {NoRow},
   found : Tasks \cup {NoTask}, was : Link \cup {NoLink}]
Pushing ==
  [at : {"entity", "find", "create", "update", "findlink", "savelink"}, binding : Bindings,
   task : Tasks, text : Texts, row : Rows \cup {NoRow}, was : Link \cup {NoLink},
   tries : 0 .. Retries - 1]

ASSUME NothingAssumption ==
  /\ NoBinding \notin Binding /\ NoTask \notin Task /\ NoRow \notin TableRow /\ NoLink \notin Link
  /\ NoCall \notin Handling /\ NoCall \notin Pushing

SyncTypeOK ==
  /\ binding \in [Bindings -> Binding \cup {NoBinding}] /\ live \in Bindings \cup {NoBinding}
  /\ binds \in 0 .. MaxBinds
  /\ task \in [Tasks -> Task \cup {NoTask}]
  /\ row \in [Rows -> TableRow \cup {NoRow}]
  /\ link \in [Bindings \X Rows -> Link \cup {NoLink}]
  /\ edits \in Texts /\ faults \in 0 .. MaxFaults
  /\ DOMAIN event \in {1 .. n : n \in 0 .. MaxEvents} /\ \A e \in DOMAIN event : event[e] \in Event
  /\ owed \in [1 .. MaxEvents -> 0 .. 2]
  /\ queue \subseteq Job /\ jobs \in 0 .. MaxJobs
  /\ job \in [Workers -> Handling \cup {NoCall}]
  /\ push \in [Callers \cup Workers -> Pushing \cup {NoCall}]
  /\ applied \in [Rows -> Version] /\ ours \subseteq Rows /\ disturbed \in BOOLEAN

SyncInit ==
  /\ binding = [b \in Bindings |-> NoBinding] /\ live = NoBinding /\ binds = 0
  /\ task = [t \in Tasks |-> NoTask]
  /\ row = [r \in Rows |-> NoRow]
  /\ link = [br \in Bindings \X Rows |-> NoLink]
  /\ edits = 0 /\ event = << >> /\ owed = [e \in 1 .. MaxEvents |-> 0]
  /\ queue = {} /\ jobs = 0
  /\ job = [w \in Workers |-> NoCall]
  /\ push = [p \in Callers \cup Workers |-> NoCall]
  /\ faults = 0 /\ applied = [r \in Rows |-> 0]
  /\ ours = {} /\ disturbed = FALSE

Update(f, x, y) == [f EXCEPT ![x] = y]

\* Ids are given out in some order; which of the unused ones comes next does not matter.
Unused(f, none) == {x \in DOMAIN f : f[x] = none}
Fresh(f, none) == IF Unused(f, none) = {} THEN {} ELSE {CHOOSE x \in Unused(f, none) : TRUE}

-----------------------------------------------------------------------------
(* Bindings.                                                                *)

Bind == binds < MaxBinds /\ binds' = binds + 1
OnlyBindings ==
  UNCHANGED <<task, tableVars, edits, job, push, faults, applied, ours, disturbed>>

\* createBinding: a new id; the insert fails while the project has a binding.
CreateBinding(b, direction) ==
  /\ Bind /\ live = NoBinding /\ b \in Fresh(binding, NoBinding)
  /\ live' = b
  /\ binding' = Update(binding, b, [active |-> TRUE, direction |-> direction])
  /\ UNCHANGED <<link, queueVars>> /\ OnlyBindings

\* updateBinding: nothing tells the jobs that already wait.
UpdateBinding(b, settings) ==
  /\ Bind /\ live = b
  /\ binding' = Update(binding, b, settings)
  /\ UNCHANGED <<live, link, queueVars>> /\ OnlyBindings

\* deleteBinding: the row goes, its links stay.
DeleteBinding(b) ==
  /\ Bind /\ live = b
  /\ live' = NoBinding
  /\ UNCHANGED <<binding, link, queueVars>> /\ OnlyBindings

NewJob(id, b, kind, r, e) ==
  [id |-> id, binding |-> b, kind |-> kind, row |-> r, event |-> e, tries |-> 0]

TriggerFullSync(b) ==
  /\ live = b /\ jobs < MaxJobs /\ jobs' = jobs + 1
  /\ queue' = queue \cup {NewJob(jobs, b, "full", NoRow, 0)}
  /\ UNCHANGED <<bindingVars, link>> /\ OnlyBindings

-----------------------------------------------------------------------------
(* The table.                                                               *)

NextVersion(r) == IF row[r] = NoRow THEN 1 ELSE row[r].version + 1
Wrote(r, text) == row' = Update(row, r, [text |-> text, version |-> NextVersion(r)])

\* A change of row r may be announced; Feishu sends an event once or twice.
Announce(r) ==
  /\ Cardinality(DOMAIN event) < MaxEvents
  /\ LET e == Cardinality(DOMAIN event) + 1
     IN /\ event' = [x \in 1 .. e |->
              IF x = e THEN [row |-> r, version |-> NextVersion(r)] ELSE event[x]]
        /\ \E n \in 1 .. 2 : owed' = Update(owed, e, n)

\* Somebody adds or edits a row in Feishu.
EditRow(r) ==
  /\ edits < MaxEdits /\ edits' = edits + 1
  /\ row[r] # NoRow \/ r \in Fresh(row, NoRow)
  /\ Wrote(r, edits + 1) /\ Announce(r)
  /\ UNCHANGED <<bindingVars, task, link, queueVars, job, push, faults, applied, ours, disturbed>>

\* The platform writes a row through the API, which is announced like any other change.
WriteRow(r, text) ==
  /\ Wrote(r, text)
  /\ Announce(r) \/ UNCHANGED <<event, owed>>
  /\ ours' = IF row[r] = NoRow THEN ours \cup {r} ELSE ours
  /\ disturbed' = TRUE

\* Mutant: every event is taken for one already handled once its row has a link.
HandledByRow(b, e) == link[<<b, event[e].row>>] # NoLink

\* enqueueRecordSync: the latest event of the row is remembered, not the earlier ones.
Handled(b, e) == LET l == link[<<b, event[e].row>>] IN l # NoLink /\ l.event = e

\* findBindings: the active binding of the table, if it does not only push.
Pulling == live # NoBinding /\ binding[live].active /\ binding[live].direction # "push_only"

\* handleWebhook and routeWebhook, in any order: delivers event e.  It is answered before
\* it is handled, so an event that cannot be queued is gone.
DeliverEvent(e) ==
  /\ owed[e] > 0 /\ owed' = Update(owed, e, owed[e] - 1)
  /\ \/ ~ Pulling /\ disturbed' = TRUE /\ UNCHANGED queue
     \/ Pulling /\ Handled(live, e) /\ UNCHANGED <<queue, disturbed>>
     \/ /\ Pulling /\ ~ Handled(live, e)
        /\ queue' = queue \cup {NewJob(owed[e], live, "record", event[e].row, e)}
        /\ UNCHANGED disturbed
  /\ UNCHANGED <<bindingVars, task, row, event, link, edits, jobs, job, push, faults, applied, ours>>

LoseEvent(e) ==
  /\ owed[e] > 0 /\ owed' = Update(owed, e, owed[e] - 1)
  /\ faults < MaxFaults /\ faults' = faults + 1
  /\ disturbed' = TRUE
  /\ UNCHANGED <<bindingVars, task, row, event, link, edits, queueVars, job, push, applied, ours>>

-----------------------------------------------------------------------------
(* Pushing a task: pushEntity, pushOne and pushSingleEntity.                *)

OnlyPush == UNCHANGED <<bindingVars, task, edits, queueVars, job, applied>>
PushAt(p, at) == push[p] # NoCall /\ push[p].at = at

Pushes(b, t, text) ==
  [at |-> "find", binding |-> b, task |-> t, text |-> text, row |-> NoRow, was |-> NoLink, tries |-> 0]

\* A listener of task.created or task.updated; the binding is looked up when it runs.
StartPush(c, t) ==
  /\ push[c] = NoCall
  /\ push' = Update(push, c, [Pushes(CHOOSE b \in Bindings : TRUE, t, 0) EXCEPT !.at = "entity"])

PushEntity(c) ==
  /\ PushAt(c, "entity")
  /\ push' = Update(push, c,
       IF live = NoBinding \/ ~ binding[live].active \/ binding[live].direction = "pull_only"
       THEN NoCall ELSE Pushes(live, push[c].task, task[push[c].task].text))
  /\ UNCHANGED <<tableVars, link, faults, ours, disturbed>> /\ OnlyPush

LinkedRows(b, t) == {r \in Rows : link[<<b, r>>] # NoLink /\ link[<<b, r>>].entity = t}

FindPushed(p) ==
  LET found == LinkedRows(push[p].binding, push[p].task)
  IN /\ PushAt(p, "find")
     /\ \/ found = {} /\ push' = [push EXCEPT ![p].at = "create"]
        \/ \E r \in found : push' = [push EXCEPT
             ![p].at = "update", ![p].row = r, ![p].was = link[<<push[p].binding, r>>]]
     /\ UNCHANGED <<tableVars, link, faults, ours, disturbed>> /\ OnlyPush

UpdateRow(p) ==
  /\ PushAt(p, "update")
  /\ WriteRow(push[p].row, push[p].text)
  /\ push' = [push EXCEPT ![p].at = "savelink"]
  /\ UNCHANGED <<link, faults>> /\ OnlyPush

\* Mutant: one retry too many.
RetriedOnceMore(call) ==
  IF call.tries = Retries THEN NoCall
  ELSE [call EXCEPT !.tries = call.tries + 1, !.at = "find", !.row = NoRow, !.was = NoLink]

\* withRetry starts over with the link it does not find.
Retried(call) ==
  IF call.tries + 1 = Retries THEN NoCall
  ELSE [call EXCEPT !.tries = call.tries + 1, !.at = "find", !.row = NoRow, !.was = NoLink]

Fault == faults < MaxFaults /\ faults' = faults + 1

\* Mutant: the id of the new row is not kept.
CreateRowForgotten(p, r) ==
  /\ PushAt(p, "create") /\ r \in Fresh(row, NoRow)
  /\ WriteRow(r, push[p].text)
  /\ push' = Update(push, p, NoCall)
  /\ UNCHANGED <<link, faults>> /\ OnlyPush

\* The row is made even when the answer with its id is lost.
CreateRow(p, r) ==
  /\ PushAt(p, "create") /\ r \in Fresh(row, NoRow)
  /\ WriteRow(r, push[p].text)
  /\ \/ /\ push' = [push EXCEPT ![p].at = "findlink", ![p].row = r]
        /\ faults' = faults
     \/ Fault /\ push' = Update(push, p, Retried(push[p]))
  /\ UNCHANGED link /\ OnlyPush

FindPushLink(p) ==
  /\ PushAt(p, "findlink")
  /\ push' = [push EXCEPT ![p].at = "savelink", ![p].was = link[<<push[p].binding, push[p].row>>]]
  /\ UNCHANGED <<tableVars, link, faults, ours, disturbed>> /\ OnlyPush

\* A save of a link writes every column it read; an insert needs the row to have none yet.
MaySaveLink(call, b) == call.was = NoLink => link[<<b, call.row>>] = NoLink
EmptyLink == [entity |-> NoTask, task |-> NoTask, event |-> 0]
Base(was) == IF was = NoLink THEN EmptyLink ELSE was

SavePushLink(p) ==
  LET call == push[p]
  IN /\ PushAt(p, "savelink") /\ MaySaveLink(call, call.binding)
     /\ link' = [link EXCEPT ![<<call.binding, call.row>>] = [Base(call.was) EXCEPT !.entity = call.task]]
     /\ push' = Update(push, p, NoCall)
     /\ UNCHANGED <<tableVars, faults, ours, disturbed>> /\ OnlyPush

\* A call or a query of the push fails.
FailPush(p) ==
  /\ push[p] # NoCall /\ push[p].at # "entity"
  /\ \/ Fault
     \/ PushAt(p, "savelink") /\ ~ MaySaveLink(push[p], push[p].binding) /\ faults' = faults
  /\ push' = Update(push, p, Retried(push[p]))
  /\ UNCHANGED <<tableVars, link, ours, disturbed>> /\ OnlyPush

PushStep(p) ==
  \/ FindPushed(p) \/ UpdateRow(p) \/ FindPushLink(p) \/ SavePushLink(p)
  \/ FailPush(p) \/ \E r \in Rows : CreateRow(p, r)

-----------------------------------------------------------------------------
(* The jobs of the queue: handleRecordSync, and handleFullSync, which       *)
(* pushes (pushAll) before it pulls (pullAll).                              *)

JobAt(w, at) == job[w] # NoCall /\ job[w].at = at
OnlyJob == UNCHANGED <<bindingVars, tableVars, edits, jobs, ours>>
JobMoves == OnlyJob /\ UNCHANGED <<task, link, queue, push, faults, applied, disturbed>>

Snapshot == [t \in Tasks |-> IF task[t] = NoTask THEN 0 ELSE task[t].text]
Existing == {t \in Tasks : task[t] # NoTask}
NoRows == [r \in Rows |-> NoRow]

\* A job of a binding that is gone ends at once.
TakeJob(w, j) ==
  LET settings == binding[j.binding]
      pushes == j.kind = "full" /\ settings.direction # "pull_only"
      call == [job |-> j, settings |-> settings, row |-> j.row, read |-> NoRow,
               found |-> NoTask, was |-> NoLink, rows |-> NoRows,
               at |-> IF j.kind = "record" THEN "fetch" ELSE IF pushes THEN "push" ELSE "list",
               todo |-> IF pushes THEN Existing ELSE {},
               texts |-> IF pushes THEN Snapshot ELSE [t \in Tasks |-> 0]]
  IN /\ job[w] = NoCall /\ j \in queue
     /\ queue' = queue \ {j}
     /\ job' = IF live = j.binding THEN Update(job, w, call) ELSE job
     /\ disturbed' = (disturbed \/ live # j.binding)
     /\ OnlyJob /\ UNCHANGED <<task, link, push, faults, applied>>

\* The tasks are pushed one by one, as they were when the job read them.
PushNext(w, t) ==
  /\ JobAt(w, "push") /\ push[w] = NoCall /\ t \in job[w].todo
  /\ job' = [job EXCEPT ![w].todo = @ \ {t}]
  /\ push' = Update(push, w, Pushes(job[w].job.binding, t, job[w].texts[t]))
  /\ OnlyJob /\ UNCHANGED <<task, link, queue, faults, applied, disturbed>>

PushesDone(w) ==
  /\ JobAt(w, "push") /\ push[w] = NoCall /\ job[w].todo = {}
  /\ job' = IF job[w].settings.direction = "push_only" THEN Update(job, w, NoCall)
            ELSE [job EXCEPT ![w].at = "list", ![w].texts = [t \in Tasks |-> 0]]
  /\ JobMoves

\* One page of rows holds them all.
ListRows(w) ==
  /\ JobAt(w, "list")
  /\ job' = [job EXCEPT ![w].at = "next", ![w].rows = row,
                        ![w].todo = {r \in Rows : row[r] # NoRow}]
  /\ JobMoves

PullNext(w, r) ==
  /\ JobAt(w, "next") /\ r \in job[w].todo
  /\ job' = [job EXCEPT ![w].at = "find", ![w].todo = @ \ {r}, ![w].row = r,
                        ![w].read = job[w].rows[r]]
  /\ JobMoves

PullsDone(w) ==
  /\ JobAt(w, "next") /\ job[w].todo = {}
  /\ job' = Update(job, w, NoCall)
  /\ JobMoves

\* Mutant: the event counts as handled as soon as its job runs.
FetchRowStamped(w) ==
  /\ JobAt(w, "fetch")
  /\ LET b == job[w].job.binding
         r == job[w].row
     IN link' = IF link[<<b, r>>] = NoLink THEN link
                ELSE [link EXCEPT ![<<b, r>>].event = job[w].job.event]
  /\ job' = [job EXCEPT ![w].at = "find", ![w].read = row[job[w].row]]
  /\ OnlyJob /\ UNCHANGED <<task, queue, push, faults, applied, disturbed>>

\* The row is read when the job runs, not when its event was sent.
FetchRow(w) ==
  /\ JobAt(w, "fetch")
  /\ job' = [job EXCEPT ![w].at = "find", ![w].read = row[job[w].row]]
  /\ JobMoves

\* Mutant: upsertFromFeishu looks at no task.
ImportedNever(r) == {}

\* upsertFromFeishu (task.adapter.ts) looks the row up among the tasks.
Imported(r) == {t \in Tasks : task[t] # NoTask /\ task[t].row = r}

FindTask(w) ==
  LET found == Imported(job[w].row)
  IN /\ JobAt(w, "find")
     /\ \E t \in IF found = {} THEN {NoTask} ELSE found :
          job' = [job EXCEPT ![w].at = "save", ![w].found = t]
     /\ JobMoves

Applied(r, version) ==
  /\ applied' = Update(applied, r, IF version > applied[r] THEN version ELSE applied[r])
  /\ disturbed' = (disturbed \/ version < applied[r])

\* Saves the task that was found, or makes one; a status is never among the fields.
SaveTask(w) ==
  LET call == job[w]
  IN /\ JobAt(w, "save")
     /\ \E t \in IF call.found = NoTask THEN Fresh(task, NoTask) ELSE {call.found} :
          /\ task' = Update(task, t, [text |-> call.read.text, row |-> call.row])
          /\ job' = [job EXCEPT ![w].at = "findlink", ![w].found = t]
     /\ Applied(call.row, call.read.version)
     /\ OnlyJob /\ UNCHANGED <<link, queue, push, faults>>

FindLink(w) ==
  /\ JobAt(w, "findlink")
  /\ job' = [job EXCEPT ![w].at = "savelink", ![w].was = link[<<job[w].job.binding, job[w].row>>]]
  /\ JobMoves

\* upsertBitableRecord: a full sync names the task, a webhook does not.
SaveLink(w) ==
  LET call == job[w]
      base == Base(call.was)
      full == call.job.kind = "full"
  IN /\ JobAt(w, "savelink") /\ MaySaveLink(call, call.job.binding)
     /\ link' = [link EXCEPT ![<<call.job.binding, call.row>>] =
          IF full THEN [base EXCEPT !.entity = call.found] ELSE base]
     /\ job' = [job EXCEPT ![w].at = IF full THEN "next" ELSE "stamp",
                           ![w].read = NoRow, ![w].found = NoTask, ![w].was = NoLink]
     /\ OnlyJob /\ UNCHANGED <<task, queue, push, faults, applied, disturbed>>

\* The event is stamped last, so that one whose job failed is handled when it comes again.
Stamp(w) ==
  LET b == job[w].job.binding
      r == job[w].row
  IN /\ JobAt(w, "stamp")
     /\ link' = IF link[<<b, r>>] = NoLink THEN link
                ELSE [link EXCEPT ![<<b, r>>].event = job[w].job.event]
     /\ job' = Update(job, w, NoCall)
     /\ OnlyJob /\ UNCHANGED <<task, queue, push, faults, applied, disturbed>>

\* A pulled row that fails is skipped; any other failure fails the job, which Bull runs
\* again while it has attempts left.
FailJob(w) ==
  LET j == job[w].job
      skips == j.kind = "full" /\ job[w].at \in {"find", "save", "findlink", "savelink"}
      again == j.tries + 1 < Attempts
  IN /\ job[w] # NoCall /\ job[w].at \notin {"push", "next"}
     /\ \/ Fault
        \/ JobAt(w, "savelink") /\ ~ MaySaveLink(job[w], j.binding) /\ faults' = faults
     /\ IF skips THEN job' = [job EXCEPT ![w].at = "next"] /\ UNCHANGED <<queue, disturbed>>
        ELSE /\ job' = Update(job, w, NoCall)
             /\ queue' = IF again THEN queue \cup {[j EXCEPT !.tries = j.tries + 1]} ELSE queue
             /\ disturbed' = (disturbed \/ ~ again)
     /\ OnlyJob /\ UNCHANGED <<task, link, push, applied>>

\* The process dies with everything in memory; Bull runs the stalled job again.
CrashJob(w) ==
  /\ job[w] # NoCall /\ Fault
  /\ queue' = queue \cup {job[w].job}
  /\ job' = Update(job, w, NoCall) /\ push' = Update(push, w, NoCall)
  /\ OnlyJob /\ UNCHANGED <<task, link, applied, disturbed>>

JobStep(w) ==
  \/ PushesDone(w) \/ ListRows(w) \/ PullsDone(w) \/ FetchRow(w) \/ FindTask(w)
  \/ SaveTask(w) \/ FindLink(w) \/ SaveLink(w) \/ Stamp(w) \/ FailJob(w)
  \/ \E t \in Tasks : PushNext(w, t)
  \/ \E r \in Rows : PullNext(w, r)

SyncStep ==
  \/ \E b \in Bindings : \/ TriggerFullSync(b) \/ DeleteBinding(b)
                         \/ \E d \in Directions : CreateBinding(b, d)
                         \/ \E settings \in Binding : UpdateBinding(b, settings)
  \/ \E r \in Rows : EditRow(r)
  \/ \E e \in DOMAIN event : DeliverEvent(e) \/ LoseEvent(e)
  \/ \E w \in Workers : JobStep(w) \/ PushStep(w) \/ CrashJob(w) \/ \E j \in queue : TakeJob(w, j)
  \/ \E c \in Callers : PushEntity(c) \/ PushStep(c)

-----------------------------------------------------------------------------
(* Properties.                                                              *)

\* Skipping an event never loses a change: an event is remembered as handled only once
\* the row, as it was at the event or later, has been saved into a task.
StampedIsApplied ==
  \A b \in Bindings, r \in Rows :
    link[<<b, r>>] # NoLink /\ link[<<b, r>>].event # 0 =>
      applied[r] >= event[link[<<b, r>>].event].version

\* Rows the platform made and no link leads to: each costs a failure, or is being linked.
\* A lost answer or a failed save makes the retry create the row again.
Strays == {r \in ours : \A b \in Bindings : link[<<b, r>>] = NoLink}

\* Whatever the order in which events arrive, and however often they arrive, a task ends
\* with the text its row ends with, unless a pull was lost or overtaken by another or the
\* platform wrote either of them.
Converges ==
  \A r \in Rows :
    <>[](disturbed \/ row[r] = NoRow \/ live = NoBinding \/
         \E t \in Tasks : task[t] # NoTask /\ task[t].row = r /\ task[t].text = row[r].text)

=============================================================================
