-------------------------- MODULE SubmissionReview --------------------------
(***************************************************************************)
(* Handing in a task and its AI review, on top of the task handlers:       *)
(*  - SubmissionService.create, a request of six awaited steps;            *)
(*  - the Bull queue that holds one review job per submission (external);  *)
(*  - AiReviewProcessor, which asks the LLM and calls updateAiScores.      *)
(* The request, the job and the handlers of TaskService share the task     *)
(* row and nothing orders them.                                            *)
(***************************************************************************)
EXTENDS TaskService

CONSTANTS
  Subs,       \* submission requests; a row of submissions for each that saves
  Attempts,   \* attempts of a job (defaultJobOptions.attempts)
  MaxStalls   \* Bull's maxStalledCount

ASSUME QueueAssumption == Attempts \in Nat \ {0} /\ MaxStalls \in Nat

VARIABLES
  step,        \* [Subs -> Step]: where SubmissionService.create is
  request,     \* [Subs -> [task, user]]: who will hand in what; never changes
  entity,      \* [Subs -> Row]: the task entity the request will save
  review,      \* [Subs -> ReviewStatus]: aiReviewStatus of the submission row
  job,         \* [Subs -> JobState]: the Bull job of the submission
  attempt,     \* [Subs -> Nat]: failed attempts (attemptsMade)
  stalls,      \* [Subs -> Nat]: times the job was found without its worker
  scored,      \* [Subs -> Row]: the task entity the job will save
  overlapped   \* history: two handlers were in flight at the same time

requestVars == <<step, request, entity>>
jobVars     == <<job, attempt, stalls, scored>>
vars        == <<taskVars, requestVars, review, jobVars, overlapped>>

Step == { "idle", "checked", "saved", "submitting", "submitted",
          "transiting", "reviewing", "queued", "over" }
ReviewStatus == {"none", "pending", "processing", "completed", "failed"}
JobState == {"none", "waiting", "active", "scoring", "completed", "failed"}

TypeOK ==
  /\ TaskTypeOK
  /\ step \in [Subs -> Step]
  /\ request \in [Subs -> [task : Tasks, user : Users]]
  /\ entity \in [Subs -> Row]
  /\ review \in [Subs -> ReviewStatus]
  /\ job \in [Subs -> JobState]
  /\ attempt \in [Subs -> 0 .. Attempts]
  /\ stalls \in [Subs -> 0 .. MaxStalls]
  /\ scored \in [Subs -> Row]
  /\ overlapped \in BOOLEAN

NoRow == [status |-> "open", assignee |-> Nobody]

Init ==
  /\ TaskInit
  /\ step = [s \in Subs |-> "idle"]
  /\ request \in [Subs -> [task : Tasks, user : Users]]
  /\ entity = [s \in Subs |-> NoRow]
  /\ review = [s \in Subs |-> "none"]
  /\ job = [s \in Subs |-> "none"]
  /\ attempt = [s \in Subs |-> 0]
  /\ stalls = [s \in Subs |-> 0]
  /\ scored = [s \in Subs |-> NoRow]
  /\ overlapped = FALSE

-----------------------------------------------------------------------------
(* Which handlers are between their first and their last await.            *)

InFlight == {<<"call", c>> : c \in {c \in Calls : call[c] # Idle}}
       \cup {<<"request", s>> : s \in {s \in Subs : step[s] \notin {"idle", "over"}}}
       \cup {<<"job", s>> : s \in {s \in Subs : job[s] = "scoring"}}

Track == overlapped' = (overlapped \/ \E x, y \in InFlight' : x # y)

-----------------------------------------------------------------------------
(* SubmissionService.create.                                               *)

Goto(s, to) == step' = [step EXCEPT ![s] = to]

\* Steps 1 and 2: findOne, the assignee and status checks, the skill.
CheckTask(s) ==
  /\ step[s] = "idle"
  /\ task[request[s].task].assignee = request[s].user
  /\ task[request[s].task].status = "claimed"
  /\ Goto(s, "checked")
  /\ UNCHANGED <<taskVars, request, entity, review, jobVars>>

\* Step 3: the submission row.
SaveSubmission(s) ==
  /\ step[s] = "checked"
  /\ Goto(s, "saved")
  /\ review' = [review EXCEPT ![s] = "pending"]
  /\ UNCHANGED <<taskVars, request, entity, jobVars>>

\* transition(task, user, to) reads the task again; a refusal ends the request
\* and leaves the submission row behind.
ReadTransition(s, from, to, next) ==
  LET row == task[request[s].task] IN
  /\ step[s] = from
  /\ TransitionAllowed(row, request[s].user, to)
  /\ Goto(s, next)
  /\ entity' = [entity EXCEPT ![s] = TransitionRow(row, request[s].user, to)]
  /\ UNCHANGED <<taskVars, request, review, jobVars>>

SaveTransition(s, from, next) ==
  /\ step[s] = from
  /\ Goto(s, next)
  /\ task' = [task EXCEPT ![request[s].task] = entity[s]]
  /\ entity' = [entity EXCEPT ![s] = NoRow]
  /\ UNCHANGED <<call, auctions, request, review, jobVars>>

\* Step 4: CLAIMED to SUBMITTED.
ReadSubmitted(s) == ReadTransition(s, "saved", "submitted", "submitting")
SaveSubmitted(s) == SaveTransition(s, "submitting", "submitted")

\* Step 5: SUBMITTED to AI_REVIEWING, then the job, then the row's status.
ReadReviewing(s) == ReadTransition(s, "submitted", "ai_reviewing", "transiting")
SaveReviewing(s) == SaveTransition(s, "transiting", "reviewing")

Enqueue(s) ==
  /\ step[s] = "reviewing"
  /\ Goto(s, "queued")
  /\ job' = [job EXCEPT ![s] = "waiting"]
  /\ UNCHANGED <<taskVars, request, entity, review, attempt, stalls, scored>>

MarkProcessing(s) ==
  /\ step[s] = "queued"
  /\ Goto(s, "over")
  /\ review' = [review EXCEPT ![s] = "processing"]
  /\ UNCHANGED <<taskVars, request, entity, jobVars>>

\* The request ends early: a refused transition, a failed query, a crash.
Abort(s) ==
  /\ step[s] \notin {"idle", "over"}
  /\ Goto(s, "over")
  /\ entity' = [entity EXCEPT ![s] = NoRow]
  /\ UNCHANGED <<taskVars, request, review, jobVars>>

Request(s) ==
  \/ CheckTask(s)
  \/ SaveSubmission(s)
  \/ ReadSubmitted(s)
  \/ SaveSubmitted(s)
  \/ ReadReviewing(s)
  \/ SaveReviewing(s)
  \/ Enqueue(s)
  \/ MarkProcessing(s)
  \/ Abort(s)

-----------------------------------------------------------------------------
(* The review job.                                                         *)

JobGoto(s, to) == job' = [job EXCEPT ![s] = to]

StartJob(s) ==
  /\ job[s] = "waiting"
  /\ JobGoto(s, "active")
  /\ UNCHANGED <<taskVars, requestVars, review, attempt, stalls, scored>>

\* An LLM call answered: updateAiScores reads the task, whatever its status.
ReadScores(s) ==
  /\ job[s] = "active"
  /\ JobGoto(s, "scoring")
  /\ scored' = [scored EXCEPT ![s] = ScoredRow(task[request[s].task])]
  /\ UNCHANGED <<taskVars, requestVars, review, attempt, stalls>>

SaveScores(s) ==
  /\ job[s] = "scoring"
  /\ JobGoto(s, "completed")
  /\ task' = [task EXCEPT ![request[s].task] = scored[s]]
  /\ scored' = [scored EXCEPT ![s] = NoRow]
  /\ UNCHANGED <<call, auctions, requestVars, review, attempt, stalls>>

\* Defects: one attempt too many; an error that never reaches Bull.
AttemptTooMany(s) ==
  /\ job[s] \in {"active", "scoring"}
  /\ attempt' = [attempt EXCEPT ![s] = @ + 1]
  /\ JobGoto(s, IF attempt[s] <= Attempts THEN "waiting" ELSE "failed")
  /\ scored' = [scored EXCEPT ![s] = NoRow]
  /\ UNCHANGED <<taskVars, requestVars, review, stalls>>

AttemptSwallowed(s) ==
  /\ job[s] \in {"active", "scoring"}
  /\ JobGoto(s, "completed")
  /\ scored' = [scored EXCEPT ![s] = NoRow]
  /\ UNCHANGED <<taskVars, requestVars, review, attempt, stalls>>

\* The three LLM calls fail, or a query does: the error goes to Bull.
AttemptFails(s) ==
  /\ job[s] \in {"active", "scoring"}
  /\ attempt' = [attempt EXCEPT ![s] = @ + 1]
  /\ JobGoto(s, IF attempt[s] + 1 < Attempts THEN "waiting" ELSE "failed")
  /\ scored' = [scored EXCEPT ![s] = NoRow]
  /\ UNCHANGED <<taskVars, requestVars, review, stalls>>

\* The worker died: Bull finds the job stalled and hands it out again.
JobStalls(s) ==
  /\ job[s] \in {"active", "scoring"}
  /\ IF stalls[s] < MaxStalls
     THEN JobGoto(s, "waiting") /\ stalls' = [stalls EXCEPT ![s] = @ + 1]
     ELSE JobGoto(s, "failed") /\ UNCHANGED stalls
  /\ scored' = [scored EXCEPT ![s] = NoRow]
  /\ UNCHANGED <<taskVars, requestVars, review, attempt>>

JobWork(s) == StartJob(s) \/ ReadScores(s) \/ SaveScores(s)

Job(s) == JobWork(s) \/ AttemptFails(s) \/ JobStalls(s)

-----------------------------------------------------------------------------

Next ==
  \/ TaskNext /\ UNCHANGED <<requestVars, review, jobVars>> /\ Track
  \/ \E s \in Subs : Request(s) /\ Track
  \/ \E s \in Subs : Job(s) /\ Track

Spec == Init /\ [][Next]_vars

\* The worker takes waiting jobs, and an attempt goes on unless it fails.
Fairness == \A s \in Subs : WF_vars(JobWork(s) /\ Track)

FairSpec == Spec /\ Fairness

-----------------------------------------------------------------------------

\* Work that is claimed, handed in or under AI review always has an assignee, in
\* the table and in every entity waiting to be saved, however handlers overlap:
\* a stale save may bring an old row back, never a row nobody ever wrote.
HasOwner(row) ==
  row.status \in {"claimed", "submitted", "ai_reviewing"} => row.assignee # Nobody

WorkHasOwner == \A t \in Tasks : HasOwner(task[t])

\* While no two handlers have overlapped, a task that was handed in never goes
\* back to open or claimed, so it is handed in and paid for once; the checks of
\* claimTask and transition together ensure it, no single one does.
HandedIn == {"submitted", "ai_reviewing", "pending_review", "settled"}
NoReturn ==
  [][\A t \in Tasks :
       task[t].status \in HandedIn /\ ~overlapped' => task'[t].status \notin {"open", "claimed"}]_vars

\* While no two handlers have overlapped, at most one submission of a task gets a
\* review job: later requests are refused by the status check.
OneReview ==
  ~overlapped => \A s, r \in Subs :
    s # r /\ job[s] # "none" /\ job[r] # "none" => request[s].task # request[r].task

\* A queued review ends: the task reaches pending_review, or Bull has given the
\* job up after its last attempt; stalls, failures and overlapping saves included.
ReviewEnds ==
  \A s \in Subs :
    job[s] = "waiting" ~> job[s] = "failed" \/ task[request[s].task].status = "pending_review"

\* What the table's comments and tests call final: a settled or cancelled task
\* keeps its status.
TerminalIsFinal ==
  [][\A t \in Tasks : task[t].status \in Terminal => task'[t].status = task[t].status]_vars

\* aiReviewStatus follows the review: a completed job is recorded as completed.
CompletionRecorded == \A s \in Subs : job[s] = "completed" ~> review[s] = "completed"

=============================================================================
