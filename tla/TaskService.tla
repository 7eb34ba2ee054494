---------------------------- MODULE TaskService -----------------------------
(***************************************************************************)
(* The rows of the tasks table and the handlers of                         *)
(* backend/src/task/task.service.ts that change them.                      *)
(*                                                                         *)
(* Every handler awaits findOne, decides on the entity it got, and awaits  *)
(* save(entity).  Other handlers run between the two awaits, and no row    *)
(* version, lock or transaction protects the row: save puts the whole      *)
(* entity back.  A call that passed its checks is therefore the entity it  *)
(* is about to save; a call that throws changes nothing and is not kept.   *)
(***************************************************************************)
EXTENDS TaskStateMachine, Naturals, FiniteSets

CONSTANTS
  Tasks,
  Users,
  Calls,        \* concurrent HTTP requests and listener runs
  MaxAuctions,  \* bound: claim auctions open at once for one task
  Nobody,       \* assigneeId = null
  Idle          \* a call slot that is free

ASSUME NobodyAssumption == Nobody \notin Users
ASSUME IdleAssumption == \A t \in Tasks, s \in TaskStatus, u \in Users \cup {Nobody} :
         Idle # [task |-> t, row |-> [status |-> s, assignee |-> u]]
ASSUME MaxAuctionsAssumption == MaxAuctions \in Nat

VARIABLES
  task,      \* [Tasks -> Row]: the rows (title, description, scores left out)
  call,      \* [Calls -> Write or Idle]: entities waiting to be saved
  auctions   \* [Tasks -> Nat]: open task_claim auctions that target the task

taskVars == <<task, call, auctions>>

Row   == [status : TaskStatus, assignee : Users \cup {Nobody}]
Write == [task : Tasks, row : Row]

TaskTypeOK ==
  /\ task \in [Tasks -> Row]
  /\ call \in [Calls -> Write \cup {Idle}]
  /\ auctions \in [Tasks -> 0 .. MaxAuctions]

\* TaskService.create: a new task is open and has no assignee.
TaskInit ==
  /\ task = [t \in Tasks |-> [status |-> "open", assignee |-> Nobody]]
  /\ call = [c \in Calls |-> Idle]
  /\ auctions = [t \in Tasks |-> 0]

-----------------------------------------------------------------------------
(* What each handler computes from the row it read.                        *)

\* Defect: transition without validateTransition.
UncheckedTransition(row, u, to) == to \in {"open", "submitted"} => row.assignee = u

\* transition(id, tenantId, userId, toStatus): the business rules after
\* validateTransition.
TransitionAllowed(row, u, to) ==
  /\ CanTransition(row.status, to)
  /\ to \in {"open", "submitted"} => row.assignee = u

\* Defect: the claim through transition forgets to set the assignee.
UnassignedRow(row, u, to) ==
  [status |-> to, assignee |-> IF to = "open" THEN Nobody ELSE row.assignee]

TransitionRow(row, u, to) ==
  [ status   |-> to,
    assignee |-> CASE to = "claimed" -> u
                   [] to = "open"    -> Nobody
                   [] OTHER          -> row.assignee ]

\* updateAiScores: the status is set whatever it was.
ScoredRow(row) == [row EXCEPT !.status = "pending_review"]

\* claimTask, claimMode 'single' and nobody holds the task: no status check.
ClaimedRow(u) == [status |-> "claimed", assignee |-> u]

-----------------------------------------------------------------------------
(* The awaited halves of a call.                                           *)

Begin(c, t, row) ==
  /\ call[c] = Idle
  /\ call' = [call EXCEPT ![c] = [task |-> t, row |-> row]]

\* update: only title, description and metadata change, but the entity that is
\* saved carries the status and the assignee that were read.
Update(c, t) ==
  /\ Begin(c, t, task[t])
  /\ UNCHANGED <<task, auctions>>

\* PATCH tasks/:id/transition, by any user of the tenant, to any status.
Transition(c, t, u, to) ==
  /\ TransitionAllowed(task[t], u, to)
  /\ Begin(c, t, TransitionRow(task[t], u, to))
  /\ UNCHANGED <<task, auctions>>

\* Defect: claiming without asking whether somebody holds the task.
ClaimAlways(c, t, u) ==
  /\ Begin(c, t, ClaimedRow(u))
  /\ UNCHANGED <<task, auctions>>

\* POST tasks/:id/claim when the row read has no assignee.
ClaimFree(c, t, u) ==
  /\ task[t].assignee = Nobody
  /\ Begin(c, t, ClaimedRow(u))
  /\ UNCHANGED <<task, auctions>>

\* POST auctions: a task_claim auction may be opened for any task.
AuctionCreated(t) ==
  /\ auctions[t] < MaxAuctions
  /\ auctions' = [auctions EXCEPT ![t] = @ + 1]
  /\ UNCHANGED <<task, call>>

\* POST tasks/:id/claim when the row read has an assignee: an auction is created
\* and the assignee bids 0 in it, whatever the status and whoever claims.
ClaimHeld(t) == task[t].assignee # Nobody /\ AuctionCreated(t)

\* A claim auction ends: the close job picks a winner among the bidders (any user
\* may bid), and TaskAuctionListener reads the task to set its assignee.
AuctionClosed(c, t, winner) ==
  /\ auctions[t] > 0
  /\ auctions' = [auctions EXCEPT ![t] = @ - 1]
  /\ Begin(c, t, [task[t] EXCEPT !.assignee = winner])
  /\ UNCHANGED task

\* AuctionService.cancel: the auction ends and no task changes.
AuctionCancelled(t) ==
  /\ auctions[t] > 0
  /\ auctions' = [auctions EXCEPT ![t] = @ - 1]
  /\ UNCHANGED <<task, call>>

\* updateAiScores, called by a review job: not part of TaskNext, since only a
\* module that has the jobs can say when it is called.
UpdateAiScores(c, t) ==
  /\ Begin(c, t, ScoredRow(task[t]))
  /\ UNCHANGED <<task, auctions>>

\* taskRepository.save(entity): the whole row becomes the entity.
SaveTask(c) ==
  /\ call[c] # Idle
  /\ task' = [task EXCEPT ![call[c].task] = call[c].row]
  /\ call' = [call EXCEPT ![c] = Idle]
  /\ UNCHANGED auctions

\* The save rejects (connection lost, constraint): the row stays as it was.
SaveTaskFails(c) ==
  /\ call[c] # Idle
  /\ call' = [call EXCEPT ![c] = Idle]
  /\ UNCHANGED <<task, auctions>>

TaskNext ==
  \/ \E c \in Calls, t \in Tasks :
       \/ Update(c, t)
       \/ \E u \in Users :
            \/ \E to \in TaskStatus : Transition(c, t, u, to)
            \/ ClaimFree(c, t, u)
            \/ AuctionClosed(c, t, u)
  \/ \E c \in Calls : SaveTask(c) \/ SaveTaskFails(c)
  \/ \E t \in Tasks : AuctionCreated(t) \/ ClaimHeld(t) \/ AuctionCancelled(t)

=============================================================================
