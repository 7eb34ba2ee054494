---------------------------- MODULE LegacyBitable ----------------------------
(***************************************************************************)
(* The deprecated syncer of backend/src/feishu, which still runs beside    *)
(* the one of BitableSync on the same tables: it listens to the same       *)
(* events, and the project page (BitableBindingTab.vue) uses its bindings  *)
(* and its full sync.  It finds the row of a task by tasks.feishuRecordId. *)
(*   With TaskService.create and update, whose events start both syncers,  *)
(* this is the whole of what keeps a project and its table in step.        *)
(***************************************************************************)
EXTENDS BitableSync

VARIABLES
  edit,      \* [Callers -> a call of TaskService.update about to save, or NoCall]
  twin,      \* [Callers -> the push of the deprecated syncer, or NoCall]
  pulls,     \* [Bindings -> full syncs waiting in the deprecated queue]
  pull,      \* the full sync its worker has in hand, or NoCall
  \* history
  shared,    \* rows two handlers have had in hand at the same time
  moved      \* a task lost the row id it had

legacyVars == <<edit, twin, pulls, pull>>
vars == <<syncVars, legacyVars, shared, moved>>

Edit == [task : Tasks, was : Task]
Twin ==
  [at : {"binding", "create", "update", "mark", "link"}, task : Tasks,
   row : Rows \cup {NoRow}, text : Texts, binding : Bindings \cup {NoBinding}]
Pull ==
  [at : {"list", "next", "findlink", "find", "save", "savelink", "end"}, binding : Bindings,
   settings : Binding, tries : 0 .. Attempts - 1, todo : SUBSET Rows, rows : [Rows -> TableRow \cup {NoRow}],
   row : Rows \cup {NoRow}, found : Tasks \cup {NoTask}, was : Link \cup {NoLink}]

ASSUME NoLegacyAssumption == NoCall \notin Edit /\ NoCall \notin Twin /\ NoCall \notin Pull

TypeOK ==
  /\ SyncTypeOK
  /\ edit \in [Callers -> Edit \cup {NoCall}]
  /\ twin \in [Callers -> Twin \cup {NoCall}]
  /\ pulls \in [Bindings -> Nat]
  /\ pull \in Pull \cup {NoCall}
  /\ shared \subseteq Rows /\ moved \in BOOLEAN

Init ==
  /\ SyncInit
  /\ edit = [c \in Callers |-> NoCall] /\ twin = [c \in Callers |-> NoCall]
  /\ pulls = [b \in Bindings |-> 0] /\ pull = NoCall
  /\ shared = {} /\ moved = FALSE

-----------------------------------------------------------------------------
(* TaskService: both listeners of task.created or task.updated start.       *)

OnlyTask ==
  UNCHANGED <<bindingVars, tableVars, link, queueVars, job, faults, applied, ours, pulls, pull>>

\* The deprecated listener works on the entity the event carries.
Emit(c, t, saved) ==
  /\ StartPush(c, t)
  /\ twin[c] = NoCall
  /\ twin' = Update(twin, c, [at |-> "binding", task |-> t, row |-> saved.row, text |-> saved.text,
                             binding |-> NoBinding])

CreateTask(c, t) ==
  /\ t \in Fresh(task, NoTask) /\ edit[c] = NoCall
  /\ edits < MaxEdits /\ edits' = edits + 1
  /\ task' = Update(task, t, [text |-> edits + 1, row |-> NoRow])
  /\ Emit(c, t, task'[t])
  /\ OnlyTask /\ UNCHANGED <<edit, disturbed>>

ReadTask(c, t) ==
  /\ edit[c] = NoCall /\ task[t] # NoTask /\ push[c] = NoCall /\ twin[c] = NoCall
  /\ edits < MaxEdits
  /\ edit' = Update(edit, c, [task |-> t, was |-> task[t]])
  /\ OnlyTask /\ UNCHANGED <<task, edits, push, twin, disturbed>>

\* Saves the whole task, with the row it had when it was read.
SaveEdit(c) ==
  LET t == edit[c].task
  IN /\ edit[c] # NoCall
     /\ edits < MaxEdits /\ edits' = edits + 1
     /\ task' = Update(task, t, [text |-> edits + 1, row |-> edit[c].was.row])
     /\ disturbed' = TRUE
     /\ Emit(c, t, task'[t])
     /\ edit' = Update(edit, c, NoCall)
     /\ OnlyTask

-----------------------------------------------------------------------------
(* syncTaskToFeishu.  Its errors are logged and forgotten.                  *)

OnlyTwin == UNCHANGED <<bindingVars, edits, queueVars, job, push, applied, edit, pulls, pull>>
TwinAt(c, at) == twin[c] # NoCall /\ twin[c].at = at

\* The binding may be inactive or of any direction.
TwinBinding(c) ==
  /\ TwinAt(c, "binding")
  /\ twin' = IF live = NoBinding THEN Update(twin, c, NoCall)
             ELSE [twin EXCEPT ![c].binding = live,
                               ![c].at = IF twin[c].row = NoRow THEN "create" ELSE "update"]
  /\ UNCHANGED <<task, tableVars, link, faults, ours, disturbed>> /\ OnlyTwin

TwinUpdate(c) ==
  /\ TwinAt(c, "update")
  /\ WriteRow(twin[c].row, twin[c].text)
  /\ twin' = Update(twin, c, NoCall)
  /\ UNCHANGED <<task, link, faults>> /\ OnlyTwin

\* The task may have got a row since the event.
TwinCreate(c, r) ==
  /\ TwinAt(c, "create") /\ r \in Fresh(row, NoRow)
  /\ WriteRow(r, twin[c].text)
  /\ twin' = [twin EXCEPT ![c].at = "mark", ![c].row = r]
  /\ UNCHANGED <<task, link, faults>> /\ OnlyTwin

TwinMark(c) ==
  /\ TwinAt(c, "mark")
  /\ task' = [task EXCEPT ![twin[c].task].row = twin[c].row]
  /\ twin' = [twin EXCEPT ![c].at = "link"]
  /\ UNCHANGED <<tableVars, link, faults, ours, disturbed>> /\ OnlyTwin

\* The insert fails when the row has got a link since.
TwinLink(c) ==
  LET b == twin[c].binding
      r == twin[c].row
  IN /\ TwinAt(c, "link")
     /\ link' = IF link[<<b, r>>] # NoLink THEN link
                ELSE [link EXCEPT ![<<b, r>>] = [EmptyLink EXCEPT !.task = twin[c].task]]
     /\ twin' = Update(twin, c, NoCall)
     /\ UNCHANGED <<task, tableVars, faults, ours, disturbed>> /\ OnlyTwin

FailTwin(c) ==
  /\ twin[c] # NoCall /\ Fault
  /\ twin' = Update(twin, c, NoCall)
  /\ UNCHANGED <<task, tableVars, link, ours, disturbed>> /\ OnlyTwin

TwinStep(c) ==
  \/ TwinBinding(c) \/ TwinUpdate(c) \/ TwinMark(c) \/ TwinLink(c) \/ FailTwin(c)
  \/ \E r \in Rows : TwinCreate(c, r)

-----------------------------------------------------------------------------
(* The bindings of the project page, and the deprecated full sync.          *)

\* saveBinding resets an existing binding or makes one; the page then asks for a full sync.
SaveBinding(b) ==
  /\ Bind /\ live \in {b, NoBinding}
  /\ live = NoBinding => b \in Fresh(binding, NoBinding)
  /\ live' = b
  /\ binding' = IF live = b THEN binding
                ELSE Update(binding, b, [active |-> TRUE, direction |-> "bidirectional"])
  /\ pulls' = Update(pulls, b, pulls[b] + 1)
  /\ UNCHANGED <<link, queueVars, edit, twin, pull>> /\ OnlyBindings

TriggerSync(b) ==
  /\ Bind /\ live = b
  /\ pulls' = Update(pulls, b, pulls[b] + 1)
  /\ UNCHANGED <<binding, live, link, queueVars, edit, twin, pull>> /\ OnlyBindings

\* deleteBinding of the deprecated service takes the links along.
RemoveBinding(b) ==
  /\ Bind /\ live = b
  /\ live' = NoBinding
  /\ link' = [br \in Bindings \X Rows |-> IF br[1] = b THEN NoLink ELSE link[br]]
  /\ ours' = Strays
  /\ UNCHANGED <<binding, queueVars, edit, twin, pulls, pull>>
  /\ UNCHANGED <<task, tableVars, edits, job, push, faults, applied, disturbed>>

OnlyPull == UNCHANGED <<binds, tableVars, edits, queueVars, job, push, ours, edit, twin>>
PullAt(at) == pull # NoCall /\ pull.at = at
PullMoves == OnlyPull /\ UNCHANGED <<binding, live, task, link, pulls, faults, applied, disturbed>>

Pulls(b, tries) ==
  [at |-> "list", binding |-> b, settings |-> binding[b], tries |-> tries, todo |-> {},
   rows |-> NoRows, row |-> NoRow, found |-> NoTask, was |-> NoLink]

\* A job whose binding is gone throws: Bull repeats it in vain.
TakePull(b) ==
  /\ pull = NoCall /\ pulls[b] > 0
  /\ pulls' = Update(pulls, b, pulls[b] - 1)
  /\ pull' = IF live # b THEN NoCall ELSE Pulls(b, 0)
  /\ OnlyPull /\ UNCHANGED <<binding, live, task, link, faults, applied, disturbed>>

LegacyList ==
  /\ PullAt("list")
  /\ pull' = [pull EXCEPT !.at = "next", !.rows = row, !.todo = {r \in Rows : row[r] # NoRow}]
  /\ PullMoves

LegacyNext ==
  /\ PullAt("next")
  /\ \/ pull.todo = {} /\ pull' = [pull EXCEPT !.at = "end"]
     \/ \E r \in pull.todo :
          pull' = [pull EXCEPT !.at = "findlink", !.todo = @ \ {r}, !.row = r]
  /\ PullMoves

LegacyFindLink ==
  /\ PullAt("findlink")
  /\ pull' = [pull EXCEPT !.at = "find", !.was = link[<<pull.binding, pull.row>>]]
  /\ PullMoves

\* The task of the link, or else one with this row.
LegacyFind ==
  LET linked == {t \in Tasks : pull.was # NoLink /\ pull.was.task = t}
      found == IF linked # {} THEN linked ELSE Imported(pull.row)
  IN /\ PullAt("find")
     /\ \E t \in IF found = {} THEN {NoTask} ELSE found :
          pull' = [pull EXCEPT !.at = "save", !.found = t]
     /\ PullMoves

LegacySave ==
  LET read == pull.rows[pull.row]
  IN /\ PullAt("save")
     /\ \E t \in IF pull.found = NoTask THEN Fresh(task, NoTask) ELSE {pull.found} :
          /\ task' = Update(task, t, [text |-> read.text, row |-> pull.row])
          /\ pull' = [pull EXCEPT !.at = "savelink", !.found = t]
     /\ Applied(pull.row, read.version)
     /\ OnlyPull /\ UNCHANGED <<binding, live, link, pulls, faults>>

LegacySaveLink ==
  /\ PullAt("savelink") /\ MaySaveLink(pull, pull.binding)
  /\ link' = [link EXCEPT ![<<pull.binding, pull.row>>] = [Base(pull.was) EXCEPT !.task = pull.found]]
  /\ pull' = [pull EXCEPT !.at = "next", !.row = NoRow, !.found = NoTask, !.was = NoLink]
  /\ OnlyPull /\ UNCHANGED <<binding, live, task, pulls, faults, applied, disturbed>>

\* The binding that was read is saved, with the settings it had; one deleted meanwhile is
\* back, unless another has taken its place.
SaveRead ==
  /\ live' = IF live = NoBinding THEN pull.binding ELSE live
  /\ binding' = IF live \in {NoBinding, pull.binding} THEN Update(binding, pull.binding, pull.settings)
                ELSE binding

LegacyEnd ==
  /\ PullAt("end") /\ SaveRead
  /\ pull' = NoCall
  /\ OnlyPull /\ UNCHANGED <<task, link, pulls, faults, applied, disturbed>>

\* One row that fails fails the job, which saves the binding too and is run again.
LegacyFail ==
  /\ pull # NoCall
  /\ \/ Fault
     \/ PullAt("savelink") /\ ~ MaySaveLink(pull, pull.binding) /\ faults' = faults
  /\ SaveRead
  /\ pull' = IF pull.tries + 1 = Attempts THEN NoCall
             ELSE [Pulls(pull.binding, pull.tries + 1) EXCEPT !.settings = pull.settings]
  /\ OnlyPull /\ UNCHANGED <<task, link, pulls, applied, disturbed>>

LegacyPull ==
  \/ LegacyList \/ LegacyNext \/ LegacyFindLink \/ LegacyFind \/ LegacySave \/ LegacySaveLink
  \/ LegacyEnd \/ LegacyFail

-----------------------------------------------------------------------------
Step ==
  \/ SyncStep /\ UNCHANGED legacyVars
  \/ \E c \in Callers : TwinStep(c) \/ SaveEdit(c) \/ \E t \in Tasks : CreateTask(c, t) \/ ReadTask(c, t)
  \/ \E b \in Bindings : SaveBinding(b) \/ TriggerSync(b) \/ RemoveBinding(b) \/ TakePull(b)
  \/ LegacyPull

\* The handlers that have row r in hand to give it a task.
AtRow(r) ==
  {w \in Workers : job[w] # NoCall /\ job[w].row = r} \cup
  {c \in Callers : twin[c] # NoCall /\ twin[c].row = r /\ twin[c].at # "update"} \cup
  {b \in Bindings : pull # NoCall /\ pull.binding = b /\ pull.row = r}

Record ==
  /\ shared' = shared \cup {r \in Rows : Cardinality(AtRow(r)') > 1}
  /\ moved' = (moved \/ \E t \in Existing : task[t].row # NoRow /\ task'[t].row # task[t].row)

Next == Step /\ Record

\* Feishu repeats an event until it is answered; the workers and the calls go on.
Fairness ==
  /\ \A e \in 1 .. MaxEvents : WF_vars(e \in DOMAIN event /\ DeliverEvent(e) /\ UNCHANGED legacyVars /\ Record)
  /\ \A w \in Workers : WF_vars(JobStep(w) /\ UNCHANGED legacyVars /\ Record)
  /\ WF_vars(\E w \in Workers, j \in queue : TakeJob(w, j) /\ UNCHANGED legacyVars /\ Record)

Spec == Init /\ [][Next]_vars /\ Fairness

-----------------------------------------------------------------------------
(* Properties.                                                              *)

\* Rows of the table nobody's link leads to: each costs a failure, or is still being
\* linked.  A lost answer or a failed save makes a retry create the row once more.
StraysAreFaults ==
  LET pushing == {p \in Callers \cup Workers : PushAt(p, "findlink") \/ PushAt(p, "savelink")}
      twins == {c \in Callers : TwinAt(c, "mark") \/ TwinAt(c, "link")}
  IN Cardinality(Strays) <= faults + Cardinality(pushing) + Cardinality(twins)

\* A row becomes one task, whether its push, an event or a full sync comes first, unless
\* two of them had it in hand at the same time or a task had lost its row id.
OneTaskPerRow ==
  moved \/ \A r \in Rows \ shared :
             Cardinality({t \in Existing : task[t].row = r}) <= 1

=============================================================================
