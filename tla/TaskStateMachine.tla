-------------------------- MODULE TaskStateMachine --------------------------
(***************************************************************************)
(* The task status enum and the transition table of                        *)
(* backend/src/task/task-state-machine.ts.  The table only protects the    *)
(* callers that ask it: TaskService.transition and TaskService.settle do,  *)
(* claimTask, updateAiScores and the auction listener do not.              *)
(***************************************************************************)

TaskStatus == { "open", "claimed", "submitted", "ai_reviewing",
                "pending_review", "pending_vote", "settled", "cancelled" }

\* Record<TaskStatus, TaskStatus[]>, as the set of pairs it allows.
ValidTransitions ==
  UNION { {"open"}           \X {"claimed", "cancelled"},
          {"claimed"}        \X {"submitted", "open", "cancelled"},
          {"submitted"}      \X {"ai_reviewing", "cancelled"},
          {"ai_reviewing"}   \X {"pending_review", "cancelled"},
          {"pending_review"} \X {"settled", "cancelled"},
          {"pending_vote"}   \X {"settled", "cancelled"} }

\* validateTransition(from, to): the condition under which it does not throw.
CanTransition(from, to) == <<from, to>> \in ValidTransitions

\* The statuses with an empty row in the table: final, say its comments.
Terminal == {s \in TaskStatus : \A to \in TaskStatus : ~CanTransition(s, to)}

=============================================================================
