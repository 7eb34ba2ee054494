----------------------- MODULE SubmissionReviewProofs -----------------------
(***************************************************************************)
(* SubmissionReview for any tasks, users, calls, requests, attempts and    *)
(* stalls: type correctness, that work always has an owner, and what the   *)
(* checks achieve as long as no two handlers overlap.                      *)
(***************************************************************************)
EXTENDS SubmissionReview, TaskServiceProofs

-----------------------------------------------------------------------------
(* Type correctness.                                                       *)

LEMMA NoRowType == NoRow \in Row
BY DEF NoRow, Row, TaskStatus

LEMMA InitType == ASSUME Init PROVE TypeOK
<1>1. TaskTypeOK
  <2>1. [status |-> "open", assignee |-> Nobody] \in Row
    BY DEF Row, TaskStatus
  <2>2. 0 \in 0 .. MaxAuctions
    BY MaxAuctionsAssumption
  <2> QED BY <2>1, <2>2 DEF Init, TaskInit, TaskTypeOK
<1>2. 0 \in 0 .. Attempts /\ 0 \in 0 .. MaxStalls
  BY QueueAssumption
<1> QED BY <1>1, <1>2, NoRowType DEF Init, TypeOK, Step, ReviewStatus, JobState

\* A handler of TaskService leaves the requests and the jobs alone.
LEMMA TaskStepKeepsType ==
  ASSUME TypeOK, TaskNext /\ UNCHANGED <<requestVars, review, jobVars>> /\ Track
  PROVE  TypeOK'
<1>1. TaskTypeOK'
  BY TaskStepType DEF TypeOK
<1>2. overlapped' \in BOOLEAN
  BY DEF Track
<1> QED BY <1>1, <1>2 DEF TypeOK, requestVars, jobVars

\* The four steps of SubmissionService.create that read and save the task.
LEMMA ReadTransitionType ==
  ASSUME TypeOK, NEW s \in Subs, NEW from \in Step, NEW to \in TaskStatus,
         NEW next \in Step, ReadTransition(s, from, to, next), Track
  PROVE  TypeOK'
<1>1. TransitionRow(task[request[s].task], request[s].user, to) \in Row
  <2>1. task[request[s].task] \in Row /\ request[s].user \in Users
    BY DEF TypeOK, TaskTypeOK
  <2> QED BY <2>1, RowsFitTable
<1>2. overlapped' \in BOOLEAN
  BY DEF Track
<1> QED BY <1>1, <1>2 DEF ReadTransition, Goto, TypeOK, TaskTypeOK, taskVars, jobVars

LEMMA SaveTransitionType ==
  ASSUME TypeOK, NEW s \in Subs, NEW from \in Step, NEW next \in Step,
         SaveTransition(s, from, next), Track
  PROVE  TypeOK'
<1>1. overlapped' \in BOOLEAN
  BY DEF Track
<1> QED BY <1>1, NoRowType DEF SaveTransition, Goto, TypeOK, TaskTypeOK, jobVars

LEMMA RequestType == ASSUME TypeOK, NEW s \in Subs, Request(s), Track PROVE TypeOK'
<1> USE DEF Step
<1>0. overlapped' \in BOOLEAN
  BY DEF Track
<1>1. CASE CheckTask(s)
  BY <1>0, <1>1 DEF CheckTask, Goto, TypeOK, TaskTypeOK, taskVars, jobVars
<1>2. CASE SaveSubmission(s)
  BY <1>0, <1>2 DEF SaveSubmission, Goto, TypeOK, TaskTypeOK, taskVars, jobVars, ReviewStatus
<1>3. CASE ReadSubmitted(s)
  BY <1>3, ReadTransitionType DEF ReadSubmitted, TaskStatus
<1>4. CASE SaveSubmitted(s)
  BY <1>4, SaveTransitionType DEF SaveSubmitted
<1>5. CASE ReadReviewing(s)
  BY <1>5, ReadTransitionType DEF ReadReviewing, TaskStatus
<1>6. CASE SaveReviewing(s)
  BY <1>6, SaveTransitionType DEF SaveReviewing
<1>7. CASE Enqueue(s)
  BY <1>0, <1>7 DEF Enqueue, Goto, TypeOK, TaskTypeOK, taskVars, JobState
<1>8. CASE MarkProcessing(s)
  BY <1>0, <1>8 DEF MarkProcessing, Goto, TypeOK, TaskTypeOK, taskVars, jobVars, ReviewStatus
<1>9. CASE Abort(s)
  BY <1>0, <1>9, NoRowType DEF Abort, Goto, TypeOK, TaskTypeOK, taskVars, jobVars
<1> QED BY <1>1, <1>2, <1>3, <1>4, <1>5, <1>6, <1>7, <1>8, <1>9 DEF Request

-----------------------------------------------------------------------------
(* Bull's counters.  attemptsMade stays within Attempts because a job that  *)
(* is not over has an attempt left, and because a request enqueues once.    *)

QueueInv ==
  \A s \in Subs :
    /\ step[s] \notin {"queued", "over"} => job[s] = "none"
    /\ job[s] \notin {"completed", "failed"} => attempt[s] < Attempts

IInv == TypeOK /\ QueueInv

LEMMA JobType == ASSUME IInv, NEW s \in Subs, Job(s), Track PROVE TypeOK'
<1> USE DEF IInv, QueueInv, TypeOK, TaskTypeOK, taskVars, requestVars
<1>0. overlapped' \in BOOLEAN
  BY DEF Track
<1>1. CASE StartJob(s)
  BY <1>0, <1>1 DEF StartJob, JobGoto, JobState
<1>2. CASE ReadScores(s)
  <2>1. ScoredRow(task[request[s].task]) \in Row
    BY ScoredRowType
  <2> QED BY <1>0, <1>2, <2>1 DEF ReadScores, JobGoto, JobState
<1>3. CASE SaveScores(s)
  BY <1>0, <1>3, NoRowType DEF SaveScores, JobGoto, JobState
<1>4. CASE AttemptFails(s)
  <2>1. attempt' \in [Subs -> 0 .. Attempts]
    BY <1>4, QueueAssumption DEF AttemptFails
  <2>2. job' \in [Subs -> JobState]
    BY <1>4 DEF AttemptFails, JobGoto, JobState
  <2> QED BY <1>0, <1>4, <2>1, <2>2, NoRowType DEF AttemptFails
<1>5. CASE JobStalls(s)
  <2>1. stalls' \in [Subs -> 0 .. MaxStalls]
    BY <1>5, QueueAssumption DEF JobStalls
  <2>2. job' \in [Subs -> JobState]
    BY <1>5 DEF JobStalls, JobGoto, JobState
  <2> QED BY <1>0, <1>5, <2>1, <2>2, NoRowType DEF JobStalls
<1> QED BY <1>1, <1>2, <1>3, <1>4, <1>5 DEF Job, JobWork

LEMMA RequestKeepsQueue ==
  ASSUME IInv, NEW s \in Subs, Request(s) PROVE QueueInv'
<1> USE DEF IInv, QueueInv, TypeOK, Goto, jobVars
<1>1. CASE CheckTask(s)
  BY <1>1 DEF CheckTask
<1>2. CASE SaveSubmission(s)
  BY <1>2 DEF SaveSubmission
<1>3. CASE ReadSubmitted(s)
  BY <1>3 DEF ReadSubmitted, ReadTransition
<1>4. CASE SaveSubmitted(s)
  BY <1>4 DEF SaveSubmitted, SaveTransition
<1>5. CASE ReadReviewing(s)
  BY <1>5 DEF ReadReviewing, ReadTransition
<1>6. CASE SaveReviewing(s)
  BY <1>6 DEF SaveReviewing, SaveTransition
<1>7. CASE Enqueue(s)
  BY <1>7 DEF Enqueue
<1>8. CASE MarkProcessing(s)
  BY <1>8 DEF MarkProcessing
<1>9. CASE Abort(s)
  BY <1>9 DEF Abort
<1> QED BY <1>1, <1>2, <1>3, <1>4, <1>5, <1>6, <1>7, <1>8, <1>9 DEF Request

LEMMA JobKeepsQueue == ASSUME IInv, NEW s \in Subs, Job(s) PROVE QueueInv'
<1> USE DEF IInv, QueueInv, TypeOK, JobGoto, requestVars
<1>1. CASE StartJob(s)
  BY <1>1 DEF StartJob
<1>2. CASE ReadScores(s)
  BY <1>2 DEF ReadScores
<1>3. CASE SaveScores(s)
  BY <1>3 DEF SaveScores
<1>4. CASE AttemptFails(s)
  BY <1>4, QueueAssumption DEF AttemptFails
<1>5. CASE JobStalls(s)
  BY <1>5 DEF JobStalls
<1> QED BY <1>1, <1>2, <1>3, <1>4, <1>5 DEF Job, JobWork

LEMMA InductiveStep == ASSUME IInv, [Next]_vars PROVE IInv'
<1>1. CASE TaskNext /\ UNCHANGED <<requestVars, review, jobVars>> /\ Track
  BY <1>1, TaskStepKeepsType DEF IInv, QueueInv, requestVars, jobVars
<1>2. CASE \E s \in Subs : Request(s) /\ Track
  BY <1>2, RequestType, RequestKeepsQueue DEF IInv
<1>3. CASE \E s \in Subs : Job(s) /\ Track
  BY <1>3, JobType, JobKeepsQueue DEF IInv
<1>4. CASE UNCHANGED vars
  BY <1>4 DEF IInv, QueueInv, TypeOK, TaskTypeOK, vars, taskVars, requestVars, jobVars
<1> QED BY <1>1, <1>2, <1>3, <1>4 DEF Next

LEMMA Inductive == Spec => []IInv
<1>1. ASSUME Init PROVE IInv
  <2>1. QueueInv
    BY <1>1, QueueAssumption DEF QueueInv, Init
  <2> QED BY <1>1, <2>1, InitType DEF IInv
<1> QED BY <1>1, InductiveStep, PTL DEF Spec

\* Every variable keeps its type: no row holds a status or an assignee that is
\* not one, and no job is handed out more often than Bull's options allow.
THEOREM TypeCorrect == Spec => []TypeOK
<1>1. IInv => TypeOK
  BY DEF IInv
<1> QED BY <1>1, Inductive, PTL

-----------------------------------------------------------------------------
(* Work has an owner.  The rows of the table alone are not inductive: a row *)
(* comes back from any entity that waits to be saved, so those count too.   *)

OwnerInv ==
  /\ \A t \in Tasks : HasOwner(task[t])
  /\ \A c \in Calls : call[c] # Idle => HasOwner(call[c].row)
  /\ \A s \in Subs : HasOwner(entity[s]) /\ HasOwner(scored[s])

LEMMA NoRowOwner == HasOwner(NoRow)
BY DEF HasOwner, NoRow

\* What the handlers compute from an owned row is owned.
LEMMA RowsKeepOwner ==
  ASSUME NEW row \in Row, HasOwner(row), NEW u \in Users, NEW to \in TaskStatus
  PROVE  /\ TransitionAllowed(row, u, to) => HasOwner(TransitionRow(row, u, to))
         /\ HasOwner(ScoredRow(row))
         /\ HasOwner(ClaimedRow(u))
         /\ HasOwner([row EXCEPT !.assignee = u])
<1>1. ASSUME TransitionAllowed(row, u, to) PROVE HasOwner(TransitionRow(row, u, to))
  <2>1. CASE to = "claimed"
    BY <2>1, NobodyAssumption DEF HasOwner, TransitionRow
  <2>2. CASE to \in {"submitted", "ai_reviewing"}
    <3>1. row.status \in {"claimed", "submitted"}
      BY <1>1, <2>2 DEF TransitionAllowed, CanTransition, ValidTransitions
    <3> QED BY <2>2, <3>1 DEF HasOwner, TransitionRow
  <2>3. CASE to \notin {"claimed", "submitted", "ai_reviewing"}
    BY <2>3 DEF HasOwner, TransitionRow
  <2> QED BY <2>1, <2>2, <2>3
<1>2. HasOwner(ScoredRow(row))
  BY DEF HasOwner, ScoredRow, Row
<1>3. HasOwner(ClaimedRow(u)) /\ HasOwner([row EXCEPT !.assignee = u])
  BY NobodyAssumption DEF HasOwner, ClaimedRow, Row
<1> QED BY <1>1, <1>2, <1>3

LEMMA BeginKeepsOwner ==
  ASSUME TypeOK, OwnerInv, NEW c \in Calls, NEW t \in Tasks, NEW row \in Row,
         HasOwner(row), Begin(c, t, row)
  PROVE  \A d \in Calls : call'[d] # Idle => HasOwner(call'[d].row)
BY DEF TypeOK, TaskTypeOK, OwnerInv, Begin

LEMMA TaskStepKeepsOwner ==
  ASSUME TypeOK, OwnerInv, TaskNext, UNCHANGED <<entity, scored>>
  PROVE  OwnerInv'
<1> USE DEF TypeOK, TaskTypeOK
<1>0. ASSUME NEW t \in Tasks PROVE task[t] \in Row /\ HasOwner(task[t])
  BY DEF OwnerInv
<1>1. ASSUME NEW c \in Calls, NEW t \in Tasks, Update(c, t) PROVE OwnerInv'
  BY <1>0, <1>1, BeginKeepsOwner DEF Update, OwnerInv
<1>2. ASSUME NEW c \in Calls, NEW t \in Tasks, NEW u \in Users, NEW to \in TaskStatus,
             Transition(c, t, u, to)
      PROVE  OwnerInv'
  <2>1. TransitionRow(task[t], u, to) \in Row /\ HasOwner(TransitionRow(task[t], u, to))
    BY <1>0, <1>2, RowsFitTable, RowsKeepOwner DEF Transition
  <2> QED BY <1>2, <2>1, BeginKeepsOwner DEF Transition, OwnerInv
<1>3. ASSUME NEW c \in Calls, NEW t \in Tasks, NEW u \in Users, ClaimFree(c, t, u)
      PROVE  OwnerInv'
  <2>1. ClaimedRow(u) \in Row /\ HasOwner(ClaimedRow(u))
    BY NobodyAssumption DEF ClaimedRow, HasOwner, Row, TaskStatus
  <2> QED BY <1>3, <2>1, BeginKeepsOwner DEF ClaimFree, OwnerInv
<1>4. ASSUME NEW c \in Calls, NEW t \in Tasks, NEW u \in Users, AuctionClosed(c, t, u)
      PROVE  OwnerInv'
  <2> DEFINE row == [task[t] EXCEPT !.assignee = u]
  <2>1. row \in Row /\ HasOwner(row)
    BY <1>0, NobodyAssumption DEF HasOwner, Row
  <2>2. Begin(c, t, row) /\ UNCHANGED task
    BY <1>4 DEF AuctionClosed
  <2> HIDE DEF row
  <2> QED BY <2>1, <2>2, BeginKeepsOwner DEF OwnerInv
<1>5. ASSUME NEW c \in Calls, SaveTask(c) PROVE OwnerInv'
  BY <1>5 DEF SaveTask, OwnerInv, Write
<1>6. ASSUME NEW c \in Calls, SaveTaskFails(c) PROVE OwnerInv'
  BY <1>6 DEF SaveTaskFails, OwnerInv
<1>7. ASSUME NEW t \in Tasks, AuctionCreated(t) \/ AuctionCancelled(t) PROVE OwnerInv'
  BY <1>7 DEF AuctionCreated, AuctionCancelled, OwnerInv
<1> QED BY <1>1, <1>2, <1>3, <1>4, <1>5, <1>6, <1>7 DEF TaskNext, ClaimHeld

LEMMA ReadTransitionKeepsOwner ==
  ASSUME TypeOK, OwnerInv, NEW s \in Subs, NEW from, NEW to \in TaskStatus, NEW next,
         ReadTransition(s, from, to, next)
  PROVE  OwnerInv'
<1> DEFINE row == TransitionRow(task[request[s].task], request[s].user, to)
<1>1. HasOwner(row)
  <2>1. task[request[s].task] \in Row /\ HasOwner(task[request[s].task]) /\ request[s].user \in Users
    BY DEF TypeOK, TaskTypeOK, OwnerInv
  <2> QED BY <2>1, RowsKeepOwner DEF ReadTransition
<1>2. entity' = [entity EXCEPT ![s] = row] /\ UNCHANGED <<taskVars, scored>>
  BY DEF ReadTransition, jobVars
<1> HIDE DEF row
<1> QED BY <1>1, <1>2 DEF TypeOK, OwnerInv, taskVars

LEMMA SaveTransitionKeepsOwner ==
  ASSUME TypeOK, OwnerInv, NEW s \in Subs, NEW from, NEW next, SaveTransition(s, from, next)
  PROVE  OwnerInv'
BY NoRowOwner DEF SaveTransition, TypeOK, TaskTypeOK, OwnerInv, jobVars

LEMMA RequestKeepsOwner == ASSUME TypeOK, OwnerInv, NEW s \in Subs, Request(s) PROVE OwnerInv'
<1>1. CASE CheckTask(s) \/ SaveSubmission(s) \/ Enqueue(s) \/ MarkProcessing(s)
  BY <1>1 DEF CheckTask, SaveSubmission, Enqueue, MarkProcessing, OwnerInv, taskVars, jobVars
<1>2. CASE ReadSubmitted(s) \/ ReadReviewing(s)
  BY <1>2, ReadTransitionKeepsOwner DEF ReadSubmitted, ReadReviewing, TaskStatus
<1>3. CASE SaveSubmitted(s) \/ SaveReviewing(s)
  BY <1>3, SaveTransitionKeepsOwner DEF SaveSubmitted, SaveReviewing
<1>4. CASE Abort(s)
  BY <1>4, NoRowOwner DEF Abort, OwnerInv, TypeOK, taskVars, jobVars
<1> QED BY <1>1, <1>2, <1>3, <1>4 DEF Request

LEMMA JobKeepsOwner == ASSUME TypeOK, OwnerInv, NEW s \in Subs, Job(s) PROVE OwnerInv'
<1> USE NoRowOwner DEF TypeOK, OwnerInv, taskVars, requestVars
<1>1. CASE StartJob(s)
  BY <1>1 DEF StartJob
<1>2. CASE ReadScores(s)
  <2>1. HasOwner(ScoredRow(task[request[s].task]))
    BY DEF HasOwner, ScoredRow, TaskTypeOK, Row
  <2> QED BY <1>2, <2>1 DEF ReadScores
<1>3. CASE SaveScores(s)
  BY <1>3 DEF SaveScores, TaskTypeOK
<1>4. CASE AttemptFails(s)
  BY <1>4 DEF AttemptFails
<1>5. CASE JobStalls(s)
  BY <1>5 DEF JobStalls
<1> QED BY <1>1, <1>2, <1>3, <1>4, <1>5 DEF Job, JobWork

\* Claimed, handed-in or reviewed work always has an assignee to be paid, however
\* claims, transitions, auctions, requests and late review jobs overlap.
THEOREM WorkOwned == Spec => []WorkHasOwner
<1>1. ASSUME Init PROVE OwnerInv
  BY <1>1, NoRowOwner DEF Init, TaskInit, OwnerInv, HasOwner
<1>2. ASSUME TypeOK, OwnerInv, [Next]_vars PROVE OwnerInv'
  <2>1. CASE TaskNext /\ UNCHANGED <<requestVars, review, jobVars>> /\ Track
    BY <1>2, <2>1, TaskStepKeepsOwner DEF requestVars, jobVars
  <2>2. CASE \E s \in Subs : Request(s) /\ Track
    BY <1>2, <2>2, RequestKeepsOwner
  <2>3. CASE \E s \in Subs : Job(s) /\ Track
    BY <1>2, <2>3, JobKeepsOwner
  <2>4. CASE UNCHANGED vars
    BY <1>2, <2>4 DEF OwnerInv, vars, taskVars, requestVars, jobVars
  <2> QED BY <1>2, <2>1, <2>2, <2>3, <2>4 DEF Next
<1>3. OwnerInv => WorkHasOwner
  BY DEF OwnerInv, WorkHasOwner
<1> QED BY <1>1, <1>2, <1>3, TypeCorrect, PTL DEF Spec

-----------------------------------------------------------------------------
(* While handlers do not overlap.  The invariant says three things: at most *)
(* one handler is in flight; what it is about to save is a lawful successor *)
(* of the row the table holds now; and a task with a review job is under    *)
(* review or past it, with an assignee, so that no later request gets by    *)
(* the status check and nobody claims the task again.                       *)

Reviewed(row) ==
  /\ row.status \in {"ai_reviewing", "pending_review", "settled", "cancelled"}
  /\ row.assignee # Nobody

Attributed(row) == row.status \in HandedIn \cup {"pending_vote"} => row.assignee # Nobody

Follows(old, new) ==
  /\ Attributed(new)
  /\ old.status \in HandedIn => new.status \notin {"open", "claimed"}
  /\ Reviewed(old) => Reviewed(new)

TaskOf(s) == task[request[s].task]

Begun == {"checked", "saved", "submitting", "submitted", "transiting", "reviewing"}

Alone    == \A x, y \in InFlight : x = y
RowsInv  == \A t \in Tasks : Attributed(task[t])
CallsInv == \A c \in Calls : call[c] # Idle => Follows(task[call[c].task], call[c].row)

RequestInv(s) ==
  /\ step[s] \in {"submitting", "transiting"} => Follows(TaskOf(s), entity[s])
  /\ step[s] = "transiting" => Reviewed(entity[s])
  /\ step[s] = "reviewing" => Reviewed(TaskOf(s))
  /\ \A r \in Subs : step[s] \in Begun /\ job[r] # "none" => request[s].task # request[r].task

JobInv(s) ==
  /\ job[s] = "scoring" => Follows(TaskOf(s), scored[s])
  /\ job[s] # "none" => Reviewed(TaskOf(s))

SerialInv ==
  ~overlapped => Alone /\ RowsInv /\ CallsInv /\ (\A s \in Subs : RequestInv(s) /\ JobInv(s))
                 /\ OneReview

\* What Alone says of the handlers: one in flight leaves the others at rest.
OnlyCall(c) ==
  /\ \A d \in Calls : call[d] # Idle => d = c
  /\ \A s \in Subs : step[s] \in {"idle", "over"} /\ job[s] # "scoring"

OnlyRequest(s) ==
  /\ \A c \in Calls : call[c] = Idle
  /\ \A r \in Subs : step[r] \notin {"idle", "over"} => r = s
  /\ \A r \in Subs : job[r] # "scoring"

OnlyJob(s) ==
  /\ \A c \in Calls : call[c] = Idle
  /\ \A r \in Subs : step[r] \in {"idle", "over"}
  /\ \A r \in Subs : job[r] = "scoring" => r = s

LEMMA AloneMeans ==
  ASSUME Alone
  PROVE  /\ \A c \in Calls : call[c] # Idle => OnlyCall(c)
         /\ \A s \in Subs : step[s] \notin {"idle", "over"} => OnlyRequest(s)
         /\ \A s \in Subs : job[s] = "scoring" => OnlyJob(s)
<1>1. /\ \A c \in Calls : call[c] # Idle => <<"call", c>> \in InFlight
      /\ \A s \in Subs : step[s] \notin {"idle", "over"} => <<"request", s>> \in InFlight
      /\ \A s \in Subs : job[s] = "scoring" => <<"job", s>> \in InFlight
  BY DEF InFlight
<1> QED BY <1>1 DEF Alone, OnlyCall, OnlyRequest, OnlyJob

\* What each handler computes from an attributed row follows it.
LEMMA RowsFollow ==
  ASSUME NEW row \in Row, Attributed(row), NEW u \in Users, NEW to \in TaskStatus
  PROVE  /\ Follows(row, row)
         /\ TransitionAllowed(row, u, to) => Follows(row, TransitionRow(row, u, to))
         /\ row.assignee = Nobody => Follows(row, ClaimedRow(u))
         /\ Follows(row, [row EXCEPT !.assignee = u])
         /\ Reviewed(row) => Follows(row, ScoredRow(row))
<1> USE DEF Follows, Attributed, Reviewed, HandedIn
<1>1. Follows(row, row)
  OBVIOUS
<1>2. ASSUME TransitionAllowed(row, u, to) PROVE Follows(row, TransitionRow(row, u, to))
  <2>1. CanTransition(row.status, to) /\ (to \in {"open", "submitted"} => row.assignee = u)
    BY <1>2 DEF TransitionAllowed
  <2>2. CASE to \in {"open", "claimed"}
    BY <2>1, <2>2 DEF CanTransition, ValidTransitions, TransitionRow
  <2>3. CASE to \notin {"open", "claimed"}
    <3>1. TransitionRow(row, u, to) = [status |-> to, assignee |-> row.assignee]
      BY <2>3 DEF TransitionRow
    <3>2. CASE to = "submitted"
      BY <2>1, <3>1, <3>2, NobodyAssumption DEF CanTransition, ValidTransitions
    <3>3. CASE to # "submitted"
      BY <2>1, <2>3, <3>1, <3>3 DEF CanTransition, ValidTransitions
    <3> QED BY <3>2, <3>3
  <2> QED BY <2>2, <2>3
<1>3. ASSUME row.assignee = Nobody PROVE Follows(row, ClaimedRow(u))
  BY <1>3 DEF ClaimedRow
<1>4. Follows(row, [row EXCEPT !.assignee = u])
  BY NobodyAssumption DEF Row
<1>5. ASSUME Reviewed(row) PROVE Follows(row, ScoredRow(row))
  BY <1>5 DEF ScoredRow, Row
<1> QED BY <1>1, <1>2, <1>3, <1>4, <1>5

\* A handler that read the row: nothing else changes, so only its entity counts.
LEMMA BeginKeepsSerial ==
  ASSUME TypeOK, SerialInv, ~overlapped, Alone',
         NEW c \in Calls, NEW t \in Tasks, NEW row, Follows(task[t], row), Begin(c, t, row),
         UNCHANGED <<task, requestVars, jobVars>>
  PROVE  SerialInv'
<1>1. RowsInv' /\ (\A s \in Subs : RequestInv(s)' /\ JobInv(s)') /\ OneReview'
  BY DEF SerialInv, RowsInv, RequestInv, JobInv, TaskOf, OneReview, requestVars, jobVars
<1>2. CallsInv'
  <2> SUFFICES ASSUME NEW d \in Calls, call'[d] # Idle
               PROVE  Follows(task[call'[d].task], call'[d].row)
    BY DEF CallsInv, Follows, requestVars
  <2>1. CASE d = c
    BY <2>1 DEF Begin, TypeOK, TaskTypeOK
  <2>2. CASE d # c
    BY <2>2 DEF Begin, TypeOK, TaskTypeOK, SerialInv, CallsInv
  <2> QED BY <2>1, <2>2
<1> QED BY <1>1, <1>2 DEF SerialInv

\* A save while nothing else is in flight: the row it writes follows the old one.
LEMMA SaveKeepsSerial ==
  ASSUME TypeOK, SerialInv, ~overlapped, Alone', NEW c \in Calls, SaveTask(c),
         UNCHANGED <<requestVars, jobVars>>
  PROVE  SerialInv'
<1> DEFINE t   == call[c].task
           row == call[c].row
<1>1. t \in Tasks /\ row \in Row
  BY DEF SaveTask, TypeOK, TaskTypeOK, Write
<1>2. Follows(task[t], row) /\ OnlyCall(c)
  BY AloneMeans DEF SaveTask, SerialInv, CallsInv
<1>3. task' = [task EXCEPT ![t] = row] /\ call' = [call EXCEPT ![c] = Idle]
  BY DEF SaveTask
<1> HIDE DEF t, row
<1>4. RowsInv'
  BY <1>1, <1>2, <1>3 DEF SerialInv, RowsInv, Follows, Attributed
<1>5. CallsInv'
  BY <1>2, <1>3 DEF CallsInv, OnlyCall, TypeOK, TaskTypeOK
<1>6. ASSUME NEW s \in Subs PROVE RequestInv(s)' /\ JobInv(s)'
  <2>1. RequestInv(s)'
    BY <1>2 DEF RequestInv, OnlyCall, requestVars, Begun
  <2>2. job[s] # "none" => Reviewed(TaskOf(s)')
    BY <1>1, <1>2, <1>3 DEF SerialInv, JobInv, TaskOf, Follows, requestVars, TypeOK, TaskTypeOK
  <2> QED BY <1>2, <2>1, <2>2 DEF JobInv, OnlyCall, jobVars, Reviewed
<1>7. OneReview'
  BY DEF SerialInv, OneReview, requestVars, jobVars
<1> QED BY <1>4, <1>5, <1>6, <1>7 DEF SerialInv

LEMMA TaskStepKeepsSerial ==
  ASSUME TypeOK, SerialInv, ~overlapped, Alone', TaskNext, UNCHANGED <<requestVars, jobVars>>
  PROVE  SerialInv'
<1>0. ASSUME NEW t \in Tasks PROVE task[t] \in Row /\ Attributed(task[t])
  BY DEF SerialInv, RowsInv, TypeOK, TaskTypeOK
<1>1. ASSUME NEW c \in Calls, NEW t \in Tasks, Update(c, t) PROVE SerialInv'
  <2>1. Follows(task[t], task[t])
    BY <1>0 DEF Follows, HandedIn
  <2> QED BY <1>1, <2>1, BeginKeepsSerial DEF Update
<1>2. ASSUME NEW c \in Calls, NEW t \in Tasks, NEW u \in Users, NEW to \in TaskStatus,
             Transition(c, t, u, to)
      PROVE  SerialInv'
  <2>1. Follows(task[t], TransitionRow(task[t], u, to))
    BY <1>0, <1>2, RowsFollow DEF Transition
  <2> QED BY <1>2, <2>1, BeginKeepsSerial DEF Transition
<1>3. ASSUME NEW c \in Calls, NEW t \in Tasks, NEW u \in Users, ClaimFree(c, t, u)
      PROVE  SerialInv'
  <2>1. Follows(task[t], ClaimedRow(u))
    BY <1>0, <1>3, RowsFollow DEF ClaimFree, TaskStatus
  <2> QED BY <1>3, <2>1, BeginKeepsSerial DEF ClaimFree
<1>4. ASSUME NEW c \in Calls, NEW t \in Tasks, NEW u \in Users, AuctionClosed(c, t, u)
      PROVE  SerialInv'
  <2> DEFINE row == [task[t] EXCEPT !.assignee = u]
  <2>1. Follows(task[t], row)
    BY <1>0, RowsFollow DEF TaskStatus
  <2>2. Begin(c, t, row) /\ UNCHANGED task
    BY <1>4 DEF AuctionClosed
  <2> HIDE DEF row
  <2> QED BY <2>1, <2>2, BeginKeepsSerial
<1>5. ASSUME NEW c \in Calls, SaveTask(c) PROVE SerialInv'
  BY <1>5, SaveKeepsSerial
<1>6. ASSUME NEW c \in Calls, SaveTaskFails(c) PROVE SerialInv'
  BY <1>6 DEF SaveTaskFails, SerialInv, RowsInv, CallsInv, RequestInv, JobInv, TaskOf, OneReview,
              requestVars, jobVars, TypeOK, TaskTypeOK
<1>7. ASSUME NEW t \in Tasks, AuctionCreated(t) \/ AuctionCancelled(t) PROVE SerialInv'
  BY <1>7 DEF AuctionCreated, AuctionCancelled, SerialInv, RowsInv, CallsInv, RequestInv, JobInv,
              TaskOf, OneReview, requestVars, jobVars
<1> QED BY <1>1, <1>2, <1>3, <1>4, <1>5, <1>6, <1>7 DEF TaskNext, ClaimHeld

-----------------------------------------------------------------------------
(* The steps of the request and of the job.                                *)

\* A transition the request read: what it will save follows the row.
LEMMA ReadTransitionKeepsSerial ==
  ASSUME TypeOK, SerialInv, ~overlapped, Alone', NEW s \in Subs,
         ReadSubmitted(s) \/ ReadReviewing(s)
  PROVE  SerialInv'
<1> DEFINE to  == IF step[s] = "saved" THEN "submitted" ELSE "ai_reviewing"
           row == TransitionRow(TaskOf(s), request[s].user, to)
<1>1. /\ TransitionAllowed(TaskOf(s), request[s].user, to)
      /\ entity' = [entity EXCEPT ![s] = row]
      /\ step' = [step EXCEPT ![s] = IF step[s] = "saved" THEN "submitting" ELSE "transiting"]
      /\ step[s] \in {"saved", "submitted"}
      /\ UNCHANGED <<taskVars, request, review, jobVars>>
  BY DEF ReadSubmitted, ReadReviewing, ReadTransition, Goto, TaskOf
<1>2. TaskOf(s) \in Row /\ Attributed(TaskOf(s)) /\ request[s].user \in Users
  BY DEF SerialInv, RowsInv, TaskOf, TypeOK, TaskTypeOK
<1>3. Follows(TaskOf(s), row)
  BY <1>1, <1>2, RowsFollow DEF TaskStatus
<1>4. step[s] = "submitted" => Reviewed(row)
  <2> SUFFICES ASSUME step[s] = "submitted" PROVE Reviewed(row)
    OBVIOUS
  <2>1. TaskOf(s).status = "submitted"
    BY <1>1 DEF TransitionAllowed, CanTransition, ValidTransitions
  <2>2. row = [status |-> "ai_reviewing", assignee |-> TaskOf(s).assignee]
    BY DEF TransitionRow
  <2> QED BY <1>2, <2>1, <2>2 DEF Reviewed, Attributed, HandedIn
<1> HIDE DEF row, to
<1>5. RowsInv' /\ CallsInv' /\ OneReview'
  BY <1>1 DEF SerialInv, RowsInv, CallsInv, OneReview, taskVars, jobVars
<1>6. ASSUME NEW r \in Subs PROVE RequestInv(r)' /\ JobInv(r)'
  <2>1. JobInv(r)'
    BY <1>1 DEF SerialInv, JobInv, TaskOf, taskVars, jobVars
  <2>2. CASE r = s
    <3>1. TaskOf(r)' = TaskOf(s) /\ entity'[r] = row
      BY <1>1, <2>2 DEF TaskOf, TypeOK, taskVars
    <3>2. step'[r] = IF step[s] = "saved" THEN "submitting" ELSE "transiting"
      BY <1>1, <2>2 DEF TypeOK
    <3>3. \A q \in Subs : step[s] \in Begun /\ job[q] # "none" => request[s].task # request[q].task
      BY DEF SerialInv, RequestInv
    <3> QED BY <1>1, <1>3, <1>4, <2>1, <2>2, <3>1, <3>2, <3>3 DEF RequestInv, Begun, jobVars
  <2>3. CASE r # s
    BY <1>1, <2>1, <2>3 DEF SerialInv, RequestInv, TaskOf, TypeOK, taskVars, jobVars
  <2> QED BY <2>2, <2>3
<1> QED BY <1>5, <1>6 DEF SerialInv

\* A transition the request saves, alone: as SaveKeepsSerial.
LEMMA SaveTransitionKeepsSerial ==
  ASSUME TypeOK, SerialInv, ~overlapped, Alone', NEW s \in Subs,
         SaveSubmitted(s) \/ SaveReviewing(s)
  PROVE  SerialInv'
<1> DEFINE t   == request[s].task
           row == entity[s]
<1>1. /\ task' = [task EXCEPT ![t] = row]
      /\ step' = [step EXCEPT ![s] = IF step[s] = "submitting" THEN "submitted" ELSE "reviewing"]
      /\ step[s] \in {"submitting", "transiting"}
      /\ UNCHANGED <<call, auctions, request, review, jobVars>>
  BY DEF SaveSubmitted, SaveReviewing, SaveTransition, Goto
<1>2. t \in Tasks /\ row \in Row
  BY DEF TypeOK
<1>3. Follows(task[t], row) /\ OnlyRequest(s) /\ (step[s] = "transiting" => Reviewed(row))
  BY <1>1, AloneMeans DEF SerialInv, RequestInv, TaskOf
<1>4. \A r \in Subs : job[r] # "none" => request[r].task # t
  BY <1>1 DEF SerialInv, RequestInv, Begun
<1> HIDE DEF t, row
<1>5. RowsInv'
  BY <1>1, <1>2, <1>3 DEF SerialInv, RowsInv, Follows, Attributed
<1>6. CallsInv' /\ OneReview'
  BY <1>1, <1>3 DEF CallsInv, OnlyRequest, SerialInv, OneReview, jobVars
<1>7. ASSUME NEW r \in Subs PROVE RequestInv(r)' /\ JobInv(r)'
  <2>1. job[r] # "none" => TaskOf(r)' = TaskOf(r)
    BY <1>1, <1>2, <1>4 DEF TaskOf, TypeOK, TaskTypeOK
  <2>2. JobInv(r)'
    BY <1>1, <1>3, <2>1 DEF SerialInv, JobInv, OnlyRequest, jobVars, Reviewed
  <2>3. RequestInv(r)'
    <3>1. CASE r = s
      <4>1. TaskOf(s)' = row
        BY <1>1, <1>2 DEF TaskOf, TypeOK, TaskTypeOK, t
      <4>2. step'[s] = IF step[s] = "submitting" THEN "submitted" ELSE "reviewing"
        BY <1>1 DEF TypeOK
      <4> QED BY <1>1, <1>3, <1>4, <3>1, <4>1, <4>2 DEF RequestInv, Begun, jobVars, Reviewed, t
    <3>2. CASE r # s
      BY <1>1, <1>3, <3>2 DEF RequestInv, OnlyRequest, Begun, TypeOK
    <3> QED BY <3>1, <3>2
  <2> QED BY <2>2, <2>3
<1> QED BY <1>5, <1>6, <1>7 DEF SerialInv

LEMMA RequestKeepsSerial ==
  ASSUME IInv, SerialInv, ~overlapped, Alone', NEW s \in Subs, Request(s)
  PROVE  SerialInv'
<1> USE DEF IInv, TypeOK, TaskTypeOK, taskVars, jobVars, Goto
<1>1. CASE CheckTask(s)
  <2>1. RowsInv' /\ CallsInv' /\ OneReview'
    BY <1>1 DEF CheckTask, SerialInv, RowsInv, CallsInv, OneReview
  <2>2. ASSUME NEW r \in Subs, job[r] # "none" PROVE request[s].task # request[r].task
    BY <1>1, <2>2 DEF CheckTask, SerialInv, JobInv, Reviewed, TaskOf
  <2>3. \A r \in Subs : RequestInv(r)' /\ JobInv(r)'
    BY <1>1, <2>2 DEF CheckTask, SerialInv, RequestInv, JobInv, TaskOf, Begun
  <2> QED BY <2>1, <2>3 DEF SerialInv
<1>2. CASE SaveSubmission(s)
  BY <1>2 DEF SaveSubmission, SerialInv, RowsInv, CallsInv, RequestInv, JobInv, TaskOf, OneReview, Begun
<1>3. CASE ReadSubmitted(s) \/ ReadReviewing(s)
  BY <1>3, ReadTransitionKeepsSerial
<1>4. CASE SaveSubmitted(s) \/ SaveReviewing(s)
  BY <1>4, SaveTransitionKeepsSerial
<1>5. CASE Enqueue(s)
  <2>1. OnlyRequest(s) /\ Reviewed(TaskOf(s))
    BY <1>5, AloneMeans DEF Enqueue, SerialInv, RequestInv
  <2>2. \A r \in Subs : job[r] # "none" => request[s].task # request[r].task
    BY <1>5 DEF Enqueue, SerialInv, RequestInv, Begun
  <2>3. RowsInv' /\ CallsInv'
    BY <1>5 DEF Enqueue, SerialInv, RowsInv, CallsInv
  <2>4. OneReview'
    BY <1>5, <2>2 DEF Enqueue, SerialInv, OneReview
  <2>5. \A r \in Subs : RequestInv(r)'
    BY <1>5, <2>1 DEF Enqueue, OnlyRequest, RequestInv, Begun
  <2>6. \A r \in Subs : JobInv(r)'
    BY <1>5, <2>1 DEF Enqueue, SerialInv, JobInv, TaskOf, Reviewed
  <2> QED BY <2>3, <2>4, <2>5, <2>6 DEF SerialInv
<1>6. CASE MarkProcessing(s)
  BY <1>6 DEF MarkProcessing, SerialInv, RowsInv, CallsInv, RequestInv, JobInv, TaskOf, OneReview, Begun
<1>7. CASE Abort(s)
  BY <1>7 DEF Abort, SerialInv, RowsInv, CallsInv, RequestInv, JobInv, TaskOf, OneReview, Begun
<1> QED BY <1>1, <1>2, <1>3, <1>4, <1>5, <1>6, <1>7 DEF Request

LEMMA JobKeepsSerial ==
  ASSUME TypeOK, SerialInv, ~overlapped, Alone', NEW s \in Subs, Job(s)
  PROVE  SerialInv'
<1> USE DEF TypeOK, TaskTypeOK, taskVars, requestVars, JobGoto
<1>1. CASE StartJob(s)
  BY <1>1 DEF StartJob, SerialInv, RowsInv, CallsInv, RequestInv, JobInv, TaskOf, OneReview
<1>2. CASE ReadScores(s)
  <2>1. TaskOf(s) \in Row /\ Attributed(TaskOf(s)) /\ Reviewed(TaskOf(s))
    BY <1>2 DEF ReadScores, SerialInv, RowsInv, JobInv, TaskOf
  <2>2. Follows(TaskOf(s), ScoredRow(TaskOf(s)))
    BY <2>1, RowsFollow DEF TypeOK, TaskStatus
  <2> QED
    BY <1>2, <2>2 DEF ReadScores, SerialInv, RowsInv, CallsInv, RequestInv, JobInv, TaskOf, OneReview
<1>3. CASE SaveScores(s)
  <2> DEFINE t   == request[s].task
             row == scored[s]
  <2>1. /\ task' = [task EXCEPT ![t] = row]
        /\ job' = [job EXCEPT ![s] = "completed"]
        /\ UNCHANGED <<call, auctions, requestVars>>
        /\ t \in Tasks /\ row \in Row
    BY <1>3 DEF SaveScores
  <2>2. Follows(task[t], row) /\ Reviewed(row) /\ OnlyJob(s)
    BY <1>3, AloneMeans DEF SaveScores, SerialInv, JobInv, TaskOf, Follows
  <2> HIDE DEF t, row
  <2>3. RowsInv'
    BY <2>1, <2>2 DEF SerialInv, RowsInv, Follows, Attributed
  <2>4. CallsInv' /\ OneReview'
    BY <1>3, <2>1, <2>2 DEF SaveScores, CallsInv, OnlyJob, SerialInv, OneReview
  <2>5. ASSUME NEW r \in Subs PROVE RequestInv(r)' /\ JobInv(r)'
    <3>1. RequestInv(r)'
      BY <2>1, <2>2 DEF RequestInv, OnlyJob, Begun
    <3>2. job[r] # "none" => Reviewed(TaskOf(r)')
      BY <2>1, <2>2 DEF SerialInv, JobInv, TaskOf
    <3> QED BY <1>3, <2>1, <2>2, <3>1, <3>2 DEF SaveScores, JobInv, OnlyJob, Reviewed
  <2> QED BY <2>3, <2>4, <2>5 DEF SerialInv
<1>4. CASE AttemptFails(s)
  BY <1>4 DEF AttemptFails, SerialInv, RowsInv, CallsInv, RequestInv, JobInv, TaskOf, OneReview
<1>5. CASE JobStalls(s)
  <2>1. UNCHANGED <<task, call, step, entity, request>>
    BY <1>5 DEF JobStalls, taskVars, requestVars
  <2>2. \A r \in Subs : /\ job'[r] # "none" => job[r] # "none"
                        /\ job'[r] = "scoring" => job[r] = "scoring" /\ scored'[r] = scored[r]
    BY <1>5 DEF JobStalls, JobGoto, TypeOK
  <2>3. RowsInv' /\ CallsInv'
    BY <2>1 DEF SerialInv, RowsInv, CallsInv
  <2>4. OneReview'
    BY <2>1, <2>2 DEF SerialInv, OneReview
  <2>5. \A r \in Subs : RequestInv(r)' /\ JobInv(r)'
    BY <2>1, <2>2 DEF SerialInv, RequestInv, JobInv, TaskOf
  <2> QED BY <2>3, <2>4, <2>5 DEF SerialInv
<1> QED BY <1>1, <1>2, <1>3, <1>4, <1>5 DEF Job, JobWork

\* A step that leaves two handlers in flight ends the claim; any other keeps it.
LEMMA SerialStep == ASSUME IInv, SerialInv, [Next]_vars PROVE SerialInv'
<1>1. CASE UNCHANGED vars
  BY <1>1 DEF SerialInv, RowsInv, CallsInv, RequestInv, JobInv, TaskOf, OneReview, Alone, InFlight,
              vars, taskVars, requestVars, jobVars
<1>2. CASE Next
  <2>1. Track
    BY <1>2 DEF Next
  <2>2. CASE overlapped'
    BY <2>2 DEF SerialInv
  <2>3. CASE ~overlapped'
    <3>1. ~overlapped /\ Alone'
      BY <2>1, <2>3 DEF Track, Alone, IInv, TypeOK
    <3>2. CASE TaskNext /\ UNCHANGED <<requestVars, review, jobVars>>
      BY <3>1, <3>2, TaskStepKeepsSerial DEF IInv
    <3>3. CASE \E s \in Subs : Request(s)
      BY <3>1, <3>3, RequestKeepsSerial
    <3>4. CASE \E s \in Subs : Job(s)
      BY <3>1, <3>4, JobKeepsSerial DEF IInv
    <3> QED BY <1>2, <3>2, <3>3, <3>4 DEF Next
  <2> QED BY <2>2, <2>3
<1> QED BY <1>1, <1>2

LEMMA Serial == Spec => [](IInv /\ SerialInv)
<1>1. ASSUME Init PROVE SerialInv
  <2>1. InFlight = {}
    BY <1>1 DEF Init, TaskInit, InFlight
  <2> QED
    BY <1>1, <2>1 DEF Init, TaskInit, SerialInv, Alone, RowsInv, CallsInv, RequestInv, JobInv,
                      Attributed, HandedIn, Begun, OneReview
<1> QED BY <1>1, SerialStep, Inductive, PTL DEF Spec

\* While no two handlers have overlapped, a task never gets a second review job:
\* by the time a later request reads it, the status check refuses.
THEOREM ReviewedOnce == Spec => []OneReview
<1>1. SerialInv => OneReview
  BY DEF SerialInv, OneReview
<1> QED BY <1>1, Serial, PTL

\* While no two handlers have overlapped, no step takes a task that was handed in
\* back to open or claimed: not a save, not a claim, not a late review job.
THEOREM HandedInStays == Spec => NoReturn
<1>1. ASSUME IInv, SerialInv, [Next]_vars, NEW t \in Tasks,
             task[t].status \in HandedIn, ~overlapped'
      PROVE  task'[t].status \notin {"open", "claimed"}
  <2> USE DEF IInv, TypeOK, TaskTypeOK
  <2>0. CASE UNCHANGED task
    BY <1>1, <2>0 DEF HandedIn
  <2>1. CASE UNCHANGED vars
    BY <2>0, <2>1 DEF vars, taskVars
  <2>2. CASE Next
    <3>1. ~overlapped
      BY <1>1, <2>2 DEF Next, Track
    <3>2. ASSUME NEW c \in Calls, SaveTask(c) PROVE task'[t].status \notin {"open", "claimed"}
      BY <1>1, <3>1, <3>2 DEF SaveTask, SerialInv, CallsInv, Follows, HandedIn, Write
    <3>3. ASSUME TaskNext, \A c \in Calls : ~SaveTask(c) PROVE UNCHANGED task
      BY <3>3 DEF TaskNext, Update, Transition, ClaimFree, AuctionClosed, SaveTaskFails,
                  AuctionCreated, ClaimHeld, AuctionCancelled
    <3>4. ASSUME NEW s \in Subs, Request(s) PROVE task'[t].status \notin {"open", "claimed"}
      <4>1. CASE SaveSubmitted(s) \/ SaveReviewing(s)
        BY <1>1, <3>1, <4>1 DEF SaveSubmitted, SaveReviewing, SaveTransition, SerialInv,
                                RequestInv, TaskOf, Follows, HandedIn
      <4>2. CASE ~(SaveSubmitted(s) \/ SaveReviewing(s))
        BY <2>0, <3>4, <4>2 DEF Request, CheckTask, SaveSubmission, ReadSubmitted, ReadReviewing,
                                ReadTransition, Enqueue, MarkProcessing, Abort, taskVars
      <4> QED BY <4>1, <4>2
    <3>5. ASSUME NEW s \in Subs, Job(s) PROVE task'[t].status \notin {"open", "claimed"}
      <4>1. CASE SaveScores(s)
        BY <1>1, <3>1, <4>1 DEF SaveScores, SerialInv, JobInv, TaskOf, Follows, HandedIn
      <4>2. CASE ~SaveScores(s)
        BY <2>0, <3>5, <4>2 DEF Job, JobWork, StartJob, ReadScores, AttemptFails, JobStalls, taskVars
      <4> QED BY <4>1, <4>2
    <3> QED BY <2>0, <2>2, <3>2, <3>3, <3>4, <3>5 DEF Next
  <2> QED BY <1>1, <2>1, <2>2
<1>2. IInv /\ SerialInv /\ [Next]_vars =>
        [\A t \in Tasks : task[t].status \in HandedIn /\ ~overlapped' =>
           task'[t].status \notin {"open", "claimed"}]_vars
  BY <1>1
<1> QED BY <1>2, Serial, PTL DEF Spec, NoReturn

=============================================================================
