-------------------------- MODULE TaskServiceProofs --------------------------
(***************************************************************************)
(* What the handlers of TaskService preserve, for any tasks, users, calls  *)
(* and auctions.  The modules that add other writers to the task rows cite *)
(* these lemmas for the steps they take over from TaskNext.                *)
(***************************************************************************)
EXTENDS TaskService, TLAPS

LEMMA RowsFitTable ==
  ASSUME NEW u \in Users, NEW to \in TaskStatus, NEW row \in Row
  PROVE  /\ TransitionRow(row, u, to) \in Row
         /\ ScoredRow(row) \in Row
         /\ ClaimedRow(u) \in Row
         /\ [row EXCEPT !.assignee = u] \in Row
BY DEF TransitionRow, ScoredRow, ClaimedRow, Row, TaskStatus

LEMMA ScoredRowType == \A row \in Row : ScoredRow(row) \in Row
BY DEF ScoredRow, Row, TaskStatus

LEMMA BeginType ==
  ASSUME TaskTypeOK, NEW c \in Calls, NEW t \in Tasks, NEW row \in Row,
         Begin(c, t, row)
  PROVE  call' \in [Calls -> Write \cup {Idle}]
BY DEF TaskTypeOK, Begin, Write

\* Every handler of TaskService keeps the rows, the waiting entities and the
\* auction counts well typed.
LEMMA TaskStepType == ASSUME TaskTypeOK, TaskNext PROVE TaskTypeOK'
<1>1. ASSUME NEW c \in Calls, NEW t \in Tasks, Update(c, t) PROVE TaskTypeOK'
  BY <1>1, BeginType DEF Update, TaskTypeOK
<1>2. ASSUME NEW c \in Calls, NEW t \in Tasks, NEW u \in Users, NEW to \in TaskStatus,
             Transition(c, t, u, to)
      PROVE  TaskTypeOK'
  <2>1. TransitionRow(task[t], u, to) \in Row
    BY RowsFitTable DEF TaskTypeOK
  <2> QED BY <1>2, <2>1, BeginType DEF Transition, TaskTypeOK
<1>3. ASSUME NEW c \in Calls, NEW t \in Tasks, NEW u \in Users, ClaimFree(c, t, u)
      PROVE  TaskTypeOK'
  <2>1. ClaimedRow(u) \in Row
    BY DEF ClaimedRow, Row, TaskStatus
  <2> QED BY <1>3, <2>1, BeginType DEF ClaimFree, TaskTypeOK
<1>4. ASSUME NEW c \in Calls, NEW t \in Tasks, NEW u \in Users, AuctionClosed(c, t, u)
      PROVE  TaskTypeOK'
  <2>1. call' \in [Calls -> Write \cup {Idle}]
    <3>1. [task[t] EXCEPT !.assignee = u] \in Row
      BY DEF TaskTypeOK, Row
    <3> QED BY <1>4, <3>1, BeginType DEF AuctionClosed
  <2>2. auctions' \in [Tasks -> 0 .. MaxAuctions]
    BY <1>4, MaxAuctionsAssumption DEF AuctionClosed, TaskTypeOK
  <2> QED BY <1>4, <2>1, <2>2 DEF AuctionClosed, TaskTypeOK
<1>5. ASSUME NEW c \in Calls, SaveTask(c) PROVE TaskTypeOK'
  BY <1>5 DEF SaveTask, TaskTypeOK, Write
<1>6. ASSUME NEW c \in Calls, SaveTaskFails(c) PROVE TaskTypeOK'
  BY <1>6 DEF SaveTaskFails, TaskTypeOK
<1>7. ASSUME NEW t \in Tasks, AuctionCreated(t) PROVE TaskTypeOK'
  BY <1>7, MaxAuctionsAssumption DEF AuctionCreated, TaskTypeOK
<1>8. ASSUME NEW t \in Tasks, AuctionCancelled(t) PROVE TaskTypeOK'
  BY <1>8, MaxAuctionsAssumption DEF AuctionCancelled, TaskTypeOK
<1> QED BY <1>1, <1>2, <1>3, <1>4, <1>5, <1>6, <1>7, <1>8 DEF TaskNext, ClaimHeld

=============================================================================
