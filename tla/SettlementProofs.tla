-------------------------- MODULE SettlementProofs --------------------------
(***************************************************************************)
(* Settlement for any tasks, users, meetings, sessions, runs, scores and   *)
(* splits.  LocalInv relates the local variables of a run to what it has   *)
(* written to point_records and settlements; it is inductive together with *)
(* the types and implies every safety property but TotalMatchesLedger,     *)
(* which adds up the rows of a run: TotalInv is inductive beside it.       *)
(***************************************************************************)
EXTENDS Settlement, TaskServiceProofs, Sums

-----------------------------------------------------------------------------
(* What is paid is a payment.                                              *)

LEMMA ShareType == \A points, percent \in Nat : Share(points, percent) \in Nat
<1> TAKE points, percent \in Nat
<1>1. 2 * points * percent \in Nat
  OBVIOUS
<1> DEFINE n == 2 * points * percent
<1> HIDE DEF n
<1>2. (n + 100) \div 200 \in Nat
  BY <1>1 DEF n
<1> QED BY <1>2 DEF Share, n

LEMMA NoRowType == NoRow \in Row
BY DEF NoRow, Row, TaskStatus

LEMMA DueType ==
  ASSUME TypeOK, NEW i \in Item
  PROVE  /\ AssigneeDue(i) \subseteq Payment
         /\ SplitDue(i) \subseteq Payment
<1>1. i.task \in Tasks /\ i.source \in Sources /\ Score[i.source][i.task] \in Nat
  BY ScoreAssumption DEF Item
<1>2. AssigneeDue(i) \subseteq Payment
  BY <1>1 DEF AssigneeDue, Pays, Payment, TypeOK, TaskTypeOK, Row
<1>3. ASSUME NEW u \in DOMAIN contribs[i.task]
      PROVE  Pays(i, u, Share(Score[i.source][i.task], contribs[i.task][u])) \in Payment
  <2>1. contribs[i.task] \in Splits[i.task]
    BY <1>1 DEF TypeOK
  <2>2. u \in Users /\ contribs[i.task][u] \in Nat
    BY <1>1, <1>3, <2>1, SplitsAssumption
  <2> QED BY <1>1, <2>2, ShareType DEF Pays, Payment
<1> QED BY <1>2, <1>3 DEF SplitDue

\* The parts of an item's due that the invariant is about: all for that item.
LEMMA DueOfItem ==
  ASSUME NEW i \in Item
  PROVE  \A p \in AssigneeDue(i) \cup SplitDue(i) : p.source = i.source /\ p.task = i.task
BY DEF AssigneeDue, SplitDue, Pays

-----------------------------------------------------------------------------
(* Type correctness.  item[r] is an item, and not NoItem, whenever a run is *)
(* between beginning it and ending it.                                      *)

InItem == {"split", "pay", "settle", "write"}

HasItem(r) == phase[r] \in InItem => item[r] \in Item

TypeInv == TypeOK /\ \A r \in Runs : HasItem(r)

LEMMA InitType == ASSUME Init PROVE TypeInv
<1>1. TaskTypeOK
  BY InitialRowsAssumption, MaxAuctionsAssumption DEF Init, TaskTypeOK
<1>2. contribs \in [Tasks -> UNION {Splits[t] : t \in Tasks}] /\ \A t \in Tasks : contribs[t] \in Splits[t]
  BY SplitsAssumption DEF Init
<1>3. \A r \in Runs : HasItem(r)
  BY DEF Init, HasItem, InItem
<1> QED BY <1>1, <1>2, <1>3, NoRowType DEF TypeInv, Init, TypeOK, EventState, Phase, Entry, SettlementRow

LEMMA StartType ==
  ASSUME TypeInv, NEW r \in Runs, NEW from \in Sources \cup {Project}, NEW items \in SUBSET Item,
         Start(r, from, items), event' \in [Meetings -> EventState]
  PROVE  TypeInv'
BY DEF TypeInv, HasItem, InItem, Start, TypeOK, TaskTypeOK, taskVars, projectVars, bookVars, Phase

LEMMA StartVoteType ==
  ASSUME TypeInv, NEW r \in Runs, NEW v \in Sessions, StartVote(r, v) PROVE TypeInv'
<1>1. [source : {v}, task : SessionTasks[v]] \in SUBSET Item
  BY SessionTasksAssumption DEF Item, Sources
<1>2. v \in Sources \cup {Project}
  BY DEF Sources
<1> QED BY <1>1, <1>2, StartType DEF StartVote, TypeInv, TypeOK

LEMMA StartMeetingType ==
  ASSUME TypeInv, NEW r \in Runs, NEW m \in Meetings, StartMeeting(r, m) PROVE TypeInv'
<1>1. [source : {m}, task : results[m]] \in SUBSET Item
  BY DEF Item, Sources, TypeInv, TypeOK
<1>2. m \in Sources \cup {Project}
  BY DEF Sources
<1>3. event' \in [Meetings -> EventState]
  BY DEF StartMeeting, TypeInv, TypeOK, EventState
<1> QED BY <1>1, <1>2, <1>3, StartType DEF StartMeeting

LEMMA StartProjectType ==
  ASSUME TypeInv, NEW r \in Runs, StartProject(r) PROVE TypeInv'
<1>1. Unsettled \in SUBSET Item
  BY DEF Unsettled
<1> QED BY <1>1, StartType DEF StartProject, TypeInv, TypeOK

LEMMA NextItemType == ASSUME TypeInv, NEW r \in Runs, NextItem(r) PROVE TypeInv'
BY NoRowType DEF TypeInv, HasItem, InItem, NextItem, TypeOK, TaskTypeOK, taskVars, meetingVars,
   projectVars, bookVars, Phase

LEMMA StopType == ASSUME TypeInv, NEW r \in Runs, Stop(r) PROVE TypeInv'
BY NoRowType DEF TypeInv, HasItem, InItem, Stop, TypeOK, TaskTypeOK, taskVars, meetingVars,
   projectVars, bookVars, Phase

LEMMA RunStepType == ASSUME TypeInv, NEW r \in Runs, RunStep(r) PROVE TypeInv'
<1> USE DEF TypeInv, TypeOK, TaskTypeOK, HasItem, InItem, taskVars, meetingVars, projectVars,
        bookVars, itemVars, Phase
<1>1. CASE ReadRound(r)
  BY <1>1 DEF ReadRound
<1>2. CASE SaveRound(r)
  BY <1>2 DEF SaveRound
<1>3. ASSUME NEW i \in todo[r], ReadTask(r, i) PROVE TypeInv'
  <2>1. i \in Item
    OBVIOUS
  <2>2. AssigneeDue(i) \subseteq Payment
    BY <2>1, DueType
  <2> QED BY <1>3, <2>1, <2>2 DEF ReadTask, TakeItem
<1>4. ASSUME NEW i \in todo[r], SkipUnread(r, i) PROVE TypeInv'
  BY <1>4 DEF SkipUnread
<1>5. CASE ReadContributions(r)
  <2>1. item[r] \in Item
    BY <1>5 DEF ReadContributions, OweDue, DueNow
  <2>2. SplitDue(item[r]) \subseteq Payment
    BY <2>1, DueType
  <2> QED BY <1>5, <2>1, <2>2 DEF ReadContributions, OweDue, DueNow
<1>6. ASSUME NEW p \in due[r], Pay(r, p) PROVE TypeInv'
  <2>1. p \in Payment /\ p.user \in Users /\ p.points \in Nat /\ item[r] \in Item
    BY <1>6 DEF Pay, Award, Payment
  <2>2. ledger' \subseteq Entry
    BY <1>6, <2>1 DEF Pay, Award, Entry
  <2>3. /\ total' \in [Runs -> Nat]
        /\ payees' \in [Runs -> SUBSET Users]
        /\ due' \in [Runs -> SUBSET Payment]
        /\ listed' \in [Runs -> SUBSET Item]
    BY <1>6, <2>1 DEF Pay, Award
  <2>4. phase' \in [Runs -> Phase] /\ \A q \in Runs : HasItem(q)'
    BY <1>6, <2>1 DEF Pay, Award
  <2> QED BY <1>6, <2>2, <2>3, <2>4 DEF Pay, Award
<1>7. CASE ReadSettle(r)
  <2>1. task[item[r].task] \in Row
    BY <1>7 DEF ReadSettle, Item
  <2>2. [task[item[r].task] EXCEPT !.status = "settled"] \in Row
    BY <2>1 DEF Row, TaskStatus
  <2> QED BY <1>7, <2>2 DEF ReadSettle
<1>8. CASE SaveSettle(r)
  BY ZenonT(40), <1>8, NoRowType DEF SaveSettle, SaveSettled, PaysNext
<1>9. CASE RefuseSettle(r) \/ ItemFails(r)
  BY <1>9, NextItemType DEF RefuseSettle, ItemFails
<1>10. CASE EndLoop(r)
  BY <1>10 DEF EndLoop
<1>11. CASE Publish(r)
  <2>1. settlements' \subseteq SettlementRow
    BY <1>11 DEF Publish, Record, ListedTasks, SettlementRow, Item
  <2> QED BY <1>11, <2>1 DEF Publish, Record, ListedTasks
<1>12. CASE PublishRejected(r) \/ AbortRun(r)
  BY <1>12, StopType DEF PublishRejected, AbortRun
<1>13. CASE Draft(r) \/ DraftFails(r)
  BY <1>13 DEF Draft, DraftFails
<1> QED BY <1>1, <1>2, <1>3, <1>4, <1>5, <1>6, <1>7, <1>8, <1>9, <1>10, <1>11, <1>12, <1>13
        DEF RunStep, RunWork, RunFailure

\* The handlers of the other services leave the runs and their book alone.
OtherStep ==
  \/ MeetingStep /\ UNCHANGED <<taskVars, projectVars, overlapped>>
  \/ (ReadProject \/ SaveProject \/ SaveProjectFails) /\ UNCHANGED <<taskVars, meetingVars>>
  \/ (TaskNext \/ RescoreTask) /\ UNCHANGED <<meetingVars, projectVars, overlapped>>

LEMMA OtherStepType ==
  ASSUME TypeInv, OtherStep, UNCHANGED <<bookVars, runVars>>
  PROVE  TypeInv'
<1> USE DEF TypeInv, TypeOK, HasItem, taskVars, meetingVars, projectVars, bookVars, runVars, itemVars
<1>1. CASE MeetingStep /\ UNCHANGED <<taskVars, projectVars, overlapped>>
  <2>1. results' \in [Meetings -> SUBSET Tasks] /\ event' \in [Meetings -> EventState]
    BY <1>1 DEF MeetingStep, ConfirmTask, CloseMeeting, RefuseMeeting, LoseEvent,
       DeleteContributions, InsertContributions, EventState
  <2>2. /\ contribs' \in [Tasks -> UNION {Splits[t] : t \in Tasks}]
        /\ \A t \in Tasks : contribs'[t] \in Splits[t]
    BY SMTT(30), <1>1, SplitsAssumption DEF MeetingStep, ConfirmTask, CloseMeeting, RefuseMeeting, LoseEvent,
       DeleteContributions, InsertContributions
  <2> QED BY <1>1, <2>1, <2>2 DEF TaskTypeOK
<1>2. CASE (ReadProject \/ SaveProject \/ SaveProjectFails) /\ UNCHANGED <<taskVars, meetingVars>>
  <2>1. round' \in Nat /\ projectCall' \subseteq Nat
    BY <1>2 DEF ReadProject, SaveProject, SaveProjectFails
  <2>2. overlapped' \in BOOLEAN
    BY <1>2 DEF ReadProject, SaveProject, SaveProjectFails
  <2> QED BY <1>2, <2>1, <2>2 DEF TaskTypeOK
<1>3. CASE (TaskNext \/ RescoreTask) /\ UNCHANGED <<meetingVars, projectVars, overlapped>>
  <2>1. ASSUME NEW c \in Calls, NEW t \in Tasks, UpdateAiScores(c, t) PROVE TaskTypeOK'
    <3>1. ScoredRow(task[t]) \in Row
      BY ScoredRowType DEF TaskTypeOK
    <3> QED BY <2>1, <3>1, BeginType DEF UpdateAiScores, TaskTypeOK
  <2>2. TaskTypeOK'
    BY <1>3, <2>1, TaskStepType DEF RescoreTask
  <2> QED BY <1>3, <2>2
<1> QED BY <1>1, <1>2, <1>3 DEF OtherStep

\* A step is a start, a step of a run, another handler's step, or no step.
LEMMA NextCases ==
  ASSUME [Next]_vars
  PROVE  \/ \E r \in Runs : RunStep(r)
         \/ \E r \in Runs, v \in Sessions : StartVote(r, v)
         \/ \E r \in Runs, m \in Meetings : StartMeeting(r, m)
         \/ \E r \in Runs : StartProject(r)
         \/ OtherStep /\ UNCHANGED <<bookVars, runVars>>
         \/ UNCHANGED vars
BY DEF Next, OtherStep

LEMMA TypeStep == ASSUME TypeInv, [Next]_vars PROVE TypeInv'
<1>1. CASE \E r \in Runs : RunStep(r)
  BY <1>1, RunStepType
<1>2. CASE \E r \in Runs, v \in Sessions : StartVote(r, v)
  BY <1>2, StartVoteType
<1>3. CASE \E r \in Runs, m \in Meetings : StartMeeting(r, m)
  BY <1>3, StartMeetingType
<1>4. CASE \E r \in Runs : StartProject(r)
  BY <1>4, StartProjectType
<1>5. CASE OtherStep /\ UNCHANGED <<bookVars, runVars>>
  BY <1>5, OtherStepType
<1>6. CASE UNCHANGED vars
  BY <1>6 DEF TypeInv, HasItem, TypeOK, TaskTypeOK, vars, taskVars, meetingVars, projectVars,
     bookVars, runVars, itemVars
<1> QED BY <1>1, <1>2, <1>3, <1>4, <1>5, <1>6, NextCases

LEMMA TypeInvHolds == Spec => []TypeInv
BY InitType, TypeStep, PTL DEF Spec

\* Every variable keeps its type: what is paid, listed and recorded always is a
\* payment, a task and a settlement of the run, whatever fails or overlaps.
THEOREM TypeCorrect == Spec => []TypeOK
<1>1. TypeInv => TypeOK
  BY DEF TypeInv
<1> QED BY <1>1, TypeInvHolds, PTL

-----------------------------------------------------------------------------
(* The invariant of one run.  SettlementsOf and Paid are the rows the run has *)
(* written; the rest are its local variables.                              *)

SettlementsOf(r) == {s \in settlements : s.run = r}

\* The items of a run are dealt with one at a time and never again.
ItemsInv(r) ==
  /\ todo[r] \cap (listed[r] \cup saved[r]) = {}
  /\ phase[r] = "idle" => owed[r] = {} /\ listed[r] = {} /\ saved[r] = {}
  /\ phase[r] \in InItem => item[r] \notin todo[r] \cup listed[r]

\* What is due is due for the item, and has been owed once it is being paid.
DueInv(r) ==
  /\ phase[r] \in InItem => \A p \in due[r] : p.source = item[r].source /\ p.task = item[r].task
  /\ phase[r] = "pay" => due[r] \subseteq owed[r]
  /\ phase[r] \in {"settle", "write"} /\ r \notin VoteRuns => due[r] = {}

\* Nothing is owed but not paid for an item, except what is due while it is paid.
PaidInv(r) ==
  /\ \A i \in todo[r] \cup listed[r] : Of(i, owed[r]) \subseteq Paid(r)
  /\ phase[r] \in {"split", "settle", "write"} => Of(item[r], owed[r]) \subseteq Paid(r)
  /\ phase[r] = "pay" => Of(item[r], owed[r]) \subseteq Paid(r) \cup due[r]

\* A vote run settles and then pays, the others pay and then settle.
OrderInv(r) ==
  /\ r \in VoteRuns =>
       /\ phase[r] # "split"
       /\ phase[r] = "pay" => item[r] \in saved[r]
       /\ \A p \in Paid(r) : [source |-> p.source, task |-> p.task] \in saved[r]
  /\ r \notin VoteRuns =>
       /\ phase[r] \in InItem => item[r] \notin saved[r]
       /\ \A i \in saved[r] : Of(i, owed[r]) \subseteq Paid(r)

\* The summary and the draft follow the phase.
BookInv(r) ==
  /\ payees[r] = {p.user : p \in Paid(r)}
  /\ \A s \in SettlementsOf(r) : s.payees = payees[r]
  /\ SettlementsOf(r) # {} => phase[r] \in {"draft", "done", "failed"}
  /\ phase[r] = "draft" => SettlementsOf(r) # {}
  /\ r \in drafts => phase[r] = "done"

\* All items and payments of a vote or meeting run are of its session or meeting.
OriginInv(r) ==
  origin[r] # Project =>
    /\ \A i \in todo[r] \cup listed[r] : i.source = origin[r]
    /\ \A p \in owed[r] : p.source = origin[r]
    /\ phase[r] \in InItem => item[r].source = origin[r]

LocalInv(r) ==
  ItemsInv(r) /\ DueInv(r) /\ PaidInv(r) /\ OrderInv(r) /\ BookInv(r) /\ OriginInv(r)

IInv == TypeInv /\ \A r \in Runs : LocalInv(r)

-----------------------------------------------------------------------------
(* A step of one run does not touch the state of another.                  *)

SameRun(q) ==
  /\ phase'[q] = phase[q] /\ origin'[q] = origin[q] /\ todo'[q] = todo[q]
  /\ item'[q] = item[q] /\ due'[q] = due[q] /\ listed'[q] = listed[q]
  /\ payees'[q] = payees[q] /\ owed'[q] = owed[q] /\ saved'[q] = saved[q]
  /\ Paid(q)' = Paid(q)
  /\ SettlementsOf(q)' = SettlementsOf(q)
  /\ (q \in drafts') = (q \in drafts)

LEMMA Frame == ASSUME NEW q \in Runs, LocalInv(q), SameRun(q) PROVE LocalInv(q)'
<1> USE DEF SameRun
<1>1. ItemsInv(q)' /\ DueInv(q)'
  BY DEF LocalInv, ItemsInv, DueInv
<1>2. PaidInv(q)' /\ OrderInv(q)'
  BY DEF LocalInv, PaidInv, OrderInv, Of
<1>3. BookInv(q)' /\ OriginInv(q)'
  BY DEF LocalInv, BookInv, OriginInv
<1> QED BY <1>1, <1>2, <1>3 DEF LocalInv

LEMMA PaidUnchanged == ASSUME UNCHANGED ledger PROVE \A q \in Runs : Paid(q)' = Paid(q)
BY DEF Paid, EntriesOf

LEMMA PaidAfterPay ==
  ASSUME NEW r \in Runs, NEW p \in due[r], Pay(r, p)
  PROVE  /\ Paid(r)' = Paid(r) \cup {p}
         /\ \A q \in Runs \ {r} : Paid(q)' = Paid(q)
<1> DEFINE entry == [run |-> r, round |-> runRound[r], payment |-> p]
<1>1. ledger' = ledger \cup {entry} /\ entry.run = r /\ entry.payment = p
  BY DEF Pay, Award
<1> HIDE DEF entry
<1>2. EntriesOf(r)' = EntriesOf(r) \cup {entry}
  BY <1>1 DEF EntriesOf
<1>3. \A q \in Runs \ {r} : EntriesOf(q)' = EntriesOf(q)
  BY <1>1 DEF EntriesOf
<1> QED BY <1>1, <1>2, <1>3 DEF Paid

LEMMA SettlementsUnchanged ==
  ASSUME UNCHANGED settlements PROVE \A q \in Runs : SettlementsOf(q)' = SettlementsOf(q)
BY DEF SettlementsOf

LEMMA StartFrame ==
  ASSUME TypeOK, NEW r \in Runs, NEW from, NEW items, Start(r, from, items)
  PROVE  /\ Paid(r)' = Paid(r) /\ SettlementsOf(r)' = SettlementsOf(r)
         /\ \A q \in Runs \ {r} : SameRun(q)
BY PaidUnchanged, SettlementsUnchanged DEF Start, SameRun, TypeOK, bookVars

LEMMA RunStepFrame ==
  ASSUME TypeOK, NEW r \in Runs, RunStep(r) PROVE \A q \in Runs \ {r} : SameRun(q)
<1> USE DEF TypeOK, itemVars, bookVars
<1> SUFFICES ASSUME NEW q \in Runs \ {r} PROVE SameRun(q)
  OBVIOUS
<1>1. CASE ReadRound(r)
  BY <1>1, PaidUnchanged, SettlementsUnchanged DEF ReadRound, SameRun
<1>2. CASE SaveRound(r)
  BY <1>2, PaidUnchanged, SettlementsUnchanged DEF SaveRound, SameRun
<1>3. ASSUME NEW i \in todo[r], ReadTask(r, i) \/ SkipUnread(r, i) PROVE SameRun(q)
  BY <1>3, PaidUnchanged, SettlementsUnchanged DEF ReadTask, TakeItem, SkipUnread, SameRun
<1>4. CASE ReadContributions(r)
  BY <1>4, PaidUnchanged, SettlementsUnchanged DEF ReadContributions, OweDue, DueNow, SameRun
<1>5. ASSUME NEW p \in due[r], Pay(r, p) PROVE SameRun(q)
  BY <1>5, PaidAfterPay, SettlementsUnchanged DEF Pay, Award, SameRun
<1>6. CASE ReadSettle(r)
  BY <1>6, PaidUnchanged, SettlementsUnchanged DEF ReadSettle, SameRun
<1>7. CASE SaveSettle(r)
  BY <1>7, PaidUnchanged, SettlementsUnchanged DEF SaveSettle, SaveSettled, PaysNext, SameRun
<1>8. CASE RefuseSettle(r) \/ ItemFails(r)
  BY <1>8, PaidUnchanged, SettlementsUnchanged DEF RefuseSettle, ItemFails, NextItem, SameRun
<1>9. CASE EndLoop(r)
  BY <1>9, PaidUnchanged, SettlementsUnchanged DEF EndLoop, SameRun
<1>10. CASE Publish(r)
  <2>1. SettlementsOf(q)' = SettlementsOf(q)
    BY <1>10 DEF Publish, Record, ListedTasks, SettlementsOf
  <2> QED BY <1>10, <2>1, PaidUnchanged DEF Publish, Record, ListedTasks, SameRun
<1>11. CASE PublishRejected(r) \/ AbortRun(r)
  BY <1>11, PaidUnchanged, SettlementsUnchanged DEF PublishRejected, AbortRun, Stop, SameRun
<1>12. CASE Draft(r) \/ DraftFails(r)
  BY <1>12, PaidUnchanged, SettlementsUnchanged DEF Draft, DraftFails, SameRun
<1> QED BY <1>1, <1>2, <1>3, <1>4, <1>5, <1>6, <1>7, <1>8, <1>9, <1>10, <1>11, <1>12
        DEF RunStep, RunWork, RunFailure

-----------------------------------------------------------------------------
(* The run that steps keeps its own invariant.                             *)

LEMMA StartLocal ==
  ASSUME IInv, NEW r \in Runs, NEW from \in Sources \cup {Project}, NEW items \in SUBSET Item,
         Start(r, from, items), from # Project => \A i \in items : i.source = from
  PROVE  LocalInv(r)'
<1>1. /\ phase[r] = "idle" /\ phase'[r] = "readRound"
      /\ origin'[r] = from /\ todo'[r] = items
      /\ UNCHANGED <<item, due, listed, payees, owed, saved, drafts>>
  BY DEF Start, IInv, TypeInv, TypeOK, bookVars
<1>2. Paid(r)' = Paid(r) /\ SettlementsOf(r)' = SettlementsOf(r)
  BY StartFrame DEF IInv, TypeInv
<1>3. owed[r] = {} /\ listed[r] = {} /\ saved[r] = {}
  BY <1>1 DEF IInv, LocalInv, ItemsInv
<1>4. ItemsInv(r)' /\ DueInv(r)'
  BY <1>1, <1>3 DEF ItemsInv, DueInv, InItem
<1>5. PaidInv(r)'
  BY <1>1, <1>2, <1>3 DEF PaidInv, Of
<1>6. OrderInv(r)'
  BY <1>1, <1>2, <1>3 DEF IInv, LocalInv, OrderInv, InItem
<1>7. BookInv(r)'
  BY <1>1, <1>2 DEF IInv, LocalInv, BookInv
<1>8. OriginInv(r)'
  BY <1>1, <1>3 DEF OriginInv, InItem
<1> QED BY <1>4, <1>5, <1>6, <1>7, <1>8 DEF LocalInv

\* A step that neither pays nor owes, and only moves between awaits.
LEMMA RoundLocal ==
  ASSUME IInv, NEW r \in Runs, ReadRound(r) \/ SaveRound(r) PROVE LocalInv(r)'
<1>1. /\ phase[r] \in {"readRound", "saveRound"} /\ phase'[r] \in {"saveRound", "next"}
      /\ UNCHANGED <<origin, todo, item, due, listed, payees, owed, saved, drafts, ledger, settlements>>
  BY DEF ReadRound, SaveRound, IInv, TypeInv, TypeOK, bookVars, itemVars
<1>2. Paid(r)' = Paid(r) /\ SettlementsOf(r)' = SettlementsOf(r)
  BY <1>1, PaidUnchanged, SettlementsUnchanged
<1> QED BY <1>1, <1>2 DEF IInv, LocalInv, ItemsInv, DueInv, PaidInv, Of, OrderInv, BookInv,
        OriginInv, InItem

LEMMA ReadTaskLocal ==
  ASSUME IInv, NEW r \in Runs, NEW i \in todo[r], ReadTask(r, i) PROVE LocalInv(r)'
<1>1. /\ phase[r] = "next"
      /\ phase'[r] = IF r \in VoteRuns THEN "settle" ELSE "split"
      /\ todo'[r] = todo[r] \ {i} /\ item'[r] = i /\ due'[r] = AssigneeDue(i)
      /\ UNCHANGED <<origin, listed, payees, owed, saved, drafts, ledger, settlements>>
  BY DEF ReadTask, TakeItem, IInv, TypeInv, TypeOK, bookVars
<1>2. Paid(r)' = Paid(r) /\ SettlementsOf(r)' = SettlementsOf(r)
  BY <1>1, PaidUnchanged, SettlementsUnchanged
<1>3. i \in Item
  BY DEF IInv, TypeInv, TypeOK
<1> USE DEF IInv, LocalInv
<1>4. ItemsInv(r)'
  BY <1>1 DEF ItemsInv, InItem
<1>5. DueInv(r)'
  BY <1>1, <1>3, DueOfItem DEF DueInv, InItem
<1>6. PaidInv(r)' /\ OrderInv(r)'
  BY <1>1, <1>2 DEF PaidInv, OrderInv, ItemsInv, Of, InItem
<1>7. BookInv(r)' /\ OriginInv(r)'
  BY <1>1, <1>2 DEF BookInv, OriginInv, InItem
<1> QED BY <1>4, <1>5, <1>6, <1>7

LEMMA SkipUnreadLocal ==
  ASSUME IInv, NEW r \in Runs, NEW i \in todo[r], SkipUnread(r, i) PROVE LocalInv(r)'
<1>1. /\ phase[r] = "next" /\ todo'[r] = todo[r] \ {i}
      /\ UNCHANGED <<phase, origin, item, due, listed, payees, owed, saved, drafts, ledger, settlements>>
  BY DEF SkipUnread, IInv, TypeInv, TypeOK, bookVars
<1>2. Paid(r)' = Paid(r) /\ SettlementsOf(r)' = SettlementsOf(r)
  BY <1>1, PaidUnchanged, SettlementsUnchanged
<1> USE DEF IInv, LocalInv, InItem
<1>3. ItemsInv(r)' /\ DueInv(r)' /\ OriginInv(r)'
  BY <1>1 DEF ItemsInv, DueInv, OriginInv
<1>4. PaidInv(r)' /\ OrderInv(r)' /\ BookInv(r)'
  BY <1>1, <1>2 DEF PaidInv, OrderInv, BookInv, Of
<1> QED BY <1>3, <1>4

LEMMA ReadContributionsLocal ==
  ASSUME IInv, NEW r \in Runs, ReadContributions(r) PROVE LocalInv(r)'
<1> DEFINE d == IF contribs[item[r].task] = NoSplit THEN due[r] ELSE SplitDue(item[r])
<1>1. /\ phase[r] = "split"
      /\ phase'[r] = IF d = {} THEN "settle" ELSE "pay"
      /\ due'[r] = d /\ owed'[r] = owed[r] \cup d
      /\ UNCHANGED <<origin, todo, item, listed, payees, saved, drafts, ledger, settlements>>
  BY DEF ReadContributions, OweDue, DueNow, IInv, TypeInv, TypeOK, bookVars
<1>2. Paid(r)' = Paid(r) /\ SettlementsOf(r)' = SettlementsOf(r)
  BY <1>1, PaidUnchanged, SettlementsUnchanged
<1>3. item[r] \in Item
  BY <1>1 DEF IInv, TypeInv, HasItem, InItem
<1>4. \A p \in d : p.source = item[r].source /\ p.task = item[r].task
  BY <1>1, <1>3, DueOfItem DEF IInv, LocalInv, DueInv, InItem
<1> HIDE DEF d
<1>5. \A i \in todo[r] \cup listed[r] \cup saved[r] : i \in Item /\ i # item[r]
  BY <1>1 DEF IInv, TypeInv, TypeOK, LocalInv, ItemsInv, OrderInv, InItem
<1>6. \A i \in todo[r] \cup listed[r] \cup saved[r] : Of(i, owed'[r]) = Of(i, owed[r])
  BY <1>1, <1>3, <1>4, <1>5 DEF Of, Item
<1>7. Of(item[r], owed'[r]) = Of(item[r], owed[r]) \cup d
  BY <1>1, <1>4 DEF Of
<1> USE DEF IInv, LocalInv, InItem
<1>8. ItemsInv(r)' /\ DueInv(r)'
  BY <1>1, <1>4 DEF ItemsInv, DueInv
<1>9. PaidInv(r)'
  BY ZenonT(40), <1>1, <1>2, <1>6, <1>7 DEF PaidInv
<1>10. OrderInv(r)'
  BY <1>1, <1>2, <1>6 DEF OrderInv
<1>11. BookInv(r)' /\ OriginInv(r)'
  BY <1>1, <1>2, <1>4 DEF BookInv, OriginInv
<1> QED BY <1>8, <1>9, <1>10, <1>11

LEMMA PayLocal ==
  ASSUME IInv, NEW r \in Runs, NEW p \in due[r], Pay(r, p) PROVE LocalInv(r)'
<1> DEFINE last == due[r] \ {p} = {}
<1>1. /\ phase[r] = "pay"
      /\ phase'[r] = IF ~last THEN "pay" ELSE IF r \in VoteRuns THEN "next" ELSE "settle"
      /\ due'[r] = due[r] \ {p}
      /\ payees'[r] = payees[r] \cup {p.user}
      /\ listed'[r] = IF last /\ r \in VoteRuns THEN listed[r] \cup {item[r]} ELSE listed[r]
      /\ UNCHANGED <<origin, todo, item, owed, saved, drafts, settlements>>
  BY DEF Pay, Award, IInv, TypeInv, TypeOK
<1>2. Paid(r)' = Paid(r) \cup {p} /\ SettlementsOf(r)' = SettlementsOf(r)
  BY <1>1, PaidAfterPay, SettlementsUnchanged
<1>3. item[r] \in Item /\ p.source = item[r].source /\ p.task = item[r].task
  BY <1>1 DEF IInv, TypeInv, HasItem, LocalInv, DueInv, InItem
<1>4. last => due[r] = {p}
  OBVIOUS
<1> HIDE DEF last
<1> USE DEF IInv, LocalInv, InItem
<1>5. ItemsInv(r)'
  BY <1>1 DEF ItemsInv
<1>6. DueInv(r)'
  BY <1>1, <1>4 DEF DueInv
<1>7. PaidInv(r)'
  BY <1>1, <1>2, <1>4 DEF PaidInv, Of
<1>8. OrderInv(r)'
  <2>1. [source |-> p.source, task |-> p.task] = item[r]
    BY <1>3 DEF Item
  <2> QED BY <1>1, <1>2, <2>1 DEF OrderInv
<1>9. BookInv(r)'
  BY <1>1, <1>2 DEF BookInv
<1>10. OriginInv(r)'
  BY <1>1 DEF OriginInv
<1> QED BY <1>5, <1>6, <1>7, <1>8, <1>9, <1>10

LEMMA ReadSettleLocal == ASSUME IInv, NEW r \in Runs, ReadSettle(r) PROVE LocalInv(r)'
<1>1. /\ phase[r] = "settle" /\ phase'[r] = "write"
      /\ UNCHANGED <<origin, todo, item, due, listed, payees, owed, saved, drafts, ledger, settlements>>
  BY DEF ReadSettle, IInv, TypeInv, TypeOK, bookVars
<1>2. Paid(r)' = Paid(r) /\ SettlementsOf(r)' = SettlementsOf(r)
  BY <1>1, PaidUnchanged, SettlementsUnchanged
<1> USE DEF IInv, LocalInv, InItem
<1>3. ItemsInv(r)' /\ DueInv(r)' /\ OriginInv(r)'
  BY <1>1 DEF ItemsInv, DueInv, OriginInv
<1>4. PaidInv(r)' /\ OrderInv(r)' /\ BookInv(r)'
  BY <1>1, <1>2 DEF PaidInv, OrderInv, BookInv, Of
<1> QED BY <1>3, <1>4

LEMMA SaveSettleLocal == ASSUME IInv, NEW r \in Runs, SaveSettle(r) PROVE LocalInv(r)'
<1> DEFINE pays == r \in VoteRuns /\ due[r] # {}
<1>1. /\ phase[r] = "write"
      /\ phase'[r] = IF pays THEN "pay" ELSE "next"
      /\ saved'[r] = saved[r] \cup {item[r]}
      /\ owed'[r] = owed[r] \cup due[r]
      /\ listed'[r] = IF pays THEN listed[r] ELSE listed[r] \cup {item[r]}
      /\ UNCHANGED <<origin, todo, item, due, payees, drafts, ledger, settlements>>
  BY DEF SaveSettle, SaveSettled, PaysNext, IInv, TypeInv, TypeOK, bookVars
<1>2. Paid(r)' = Paid(r) /\ SettlementsOf(r)' = SettlementsOf(r)
  BY <1>1, PaidUnchanged, SettlementsUnchanged
<1> USE DEF IInv, LocalInv, InItem
<1>3. /\ item[r] \in Item
      /\ \A p \in due[r] : p.source = item[r].source /\ p.task = item[r].task
      /\ ~pays => due[r] = {}
  BY <1>1 DEF TypeInv, HasItem, DueInv
<1>4. \A i \in todo[r] \cup listed[r] : Of(i, owed'[r]) = Of(i, owed[r])
  <2>1. \A i \in todo[r] \cup listed[r] : i \in Item /\ i # item[r]
    BY <1>1 DEF TypeInv, TypeOK, ItemsInv
  <2> QED BY <1>1, <1>3, <2>1 DEF Of, Item
<1>5. Of(item[r], owed'[r]) = Of(item[r], owed[r]) \cup due[r]
  BY <1>1, <1>3 DEF Of
<1>6. ItemsInv(r)' /\ DueInv(r)'
  BY <1>1, <1>3 DEF ItemsInv, DueInv
<1>7. PaidInv(r)'
  <2>1. Of(item[r], owed[r]) \subseteq Paid(r) /\ item'[r] = item[r] /\ due'[r] = due[r]
    BY <1>1 DEF PaidInv
  <2>2. \A i \in todo[r] \cup listed[r] : Of(i, owed'[r]) \subseteq Paid(r)
    BY <1>4 DEF PaidInv
  <2>3. CASE pays
    <3>1. phase'[r] = "pay" /\ listed'[r] = listed[r] /\ todo'[r] = todo[r]
      BY <1>1, <2>3
    <3>2. Of(item'[r], owed'[r]) \subseteq Paid(r) \cup due'[r]
      BY <1>5, <2>1
    <3> QED BY <1>2, <2>2, <3>1, <3>2 DEF PaidInv
  <2>4. CASE ~pays
    <3>1. phase'[r] = "next" /\ listed'[r] = listed[r] \cup {item[r]} /\ todo'[r] = todo[r]
      BY <1>1, <2>4
    <3>2. Of(item[r], owed'[r]) \subseteq Paid(r)
      BY <1>3, <1>5, <2>1, <2>4
    <3> QED BY <1>2, <2>2, <3>1, <3>2 DEF PaidInv
  <2> QED BY <2>3, <2>4
<1>8. OrderInv(r)'
  <2>1. CASE r \in VoteRuns
    BY <1>1, <1>2, <2>1 DEF OrderInv
  <2>2. CASE r \notin VoteRuns
    <3>1. owed'[r] = owed[r]
      BY <1>1, <1>3, <2>2
    <3> QED BY <1>1, <1>2, <2>2, <3>1 DEF OrderInv, PaidInv
  <2> QED BY <2>1, <2>2
<1>9. BookInv(r)' /\ OriginInv(r)'
  BY <1>1, <1>2, <1>3 DEF BookInv, OriginInv
<1> QED BY <1>6, <1>7, <1>8, <1>9

LEMMA NextItemLocal ==
  ASSUME IInv, NEW r \in Runs, phase[r] \in InItem, NextItem(r) PROVE LocalInv(r)'
<1>1. /\ phase'[r] = "next"
      /\ UNCHANGED <<origin, todo, listed, payees, owed, saved, drafts, ledger, settlements>>
  BY DEF NextItem, IInv, TypeInv, TypeOK, bookVars
<1>2. Paid(r)' = Paid(r) /\ SettlementsOf(r)' = SettlementsOf(r)
  BY <1>1, PaidUnchanged, SettlementsUnchanged
<1> USE DEF IInv, LocalInv, InItem
<1>3. ItemsInv(r)' /\ DueInv(r)' /\ OriginInv(r)'
  BY <1>1 DEF ItemsInv, DueInv, OriginInv
<1>4. PaidInv(r)' /\ OrderInv(r)' /\ BookInv(r)'
  BY <1>1, <1>2 DEF PaidInv, OrderInv, BookInv, Of
<1> QED BY <1>3, <1>4

LEMMA EndLoopLocal == ASSUME IInv, NEW r \in Runs, EndLoop(r) PROVE LocalInv(r)'
<1>1. /\ phase[r] = "next" /\ phase'[r] = "publish"
      /\ UNCHANGED <<origin, todo, listed, payees, owed, saved, drafts, ledger, settlements>>
  BY DEF EndLoop, IInv, TypeInv, TypeOK, bookVars
<1>2. Paid(r)' = Paid(r) /\ SettlementsOf(r)' = SettlementsOf(r)
  BY <1>1, PaidUnchanged, SettlementsUnchanged
<1> USE DEF IInv, LocalInv, InItem
<1>3. ItemsInv(r)' /\ DueInv(r)' /\ OriginInv(r)'
  BY <1>1 DEF ItemsInv, DueInv, OriginInv
<1>4. PaidInv(r)' /\ OrderInv(r)' /\ BookInv(r)'
  BY <1>1, <1>2 DEF PaidInv, OrderInv, BookInv, Of
<1> QED BY <1>3, <1>4

LEMMA PublishLocal == ASSUME IInv, NEW r \in Runs, Publish(r) PROVE LocalInv(r)'
<1>1. /\ phase[r] = "publish" /\ phase'[r] = "draft"
      /\ UNCHANGED <<origin, todo, item, due, listed, payees, owed, saved, drafts, ledger>>
  BY DEF Publish, Record, ListedTasks, IInv, TypeInv, TypeOK, itemVars
<1>2. Paid(r)' = Paid(r)
  BY <1>1, PaidUnchanged
<1> USE DEF IInv, LocalInv, InItem
<1>3. ItemsInv(r)' /\ DueInv(r)' /\ OriginInv(r)'
  BY <1>1 DEF ItemsInv, DueInv, OriginInv
<1>4. PaidInv(r)' /\ OrderInv(r)'
  BY <1>1, <1>2 DEF PaidInv, OrderInv, Of
<1>5. PICK s : s.run = r /\ s.payees = payees[r] /\ settlements' = settlements \cup {s}
  BY DEF Publish, Record, ListedTasks
<1>6. SettlementsOf(r)' = SettlementsOf(r) \cup {s}
  BY <1>5 DEF SettlementsOf
<1>7. BookInv(r)'
  BY <1>1, <1>2, <1>5, <1>6 DEF BookInv
<1> QED BY <1>3, <1>4, <1>7

LEMMA DraftLocal ==
  ASSUME IInv, NEW r \in Runs, Draft(r) \/ DraftFails(r) PROVE LocalInv(r)'
<1>1. /\ phase[r] = "draft" /\ phase'[r] = "done"
      /\ UNCHANGED <<origin, todo, item, due, listed, payees, owed, saved, ledger, settlements>>
  BY DEF Draft, DraftFails, IInv, TypeInv, TypeOK, itemVars, bookVars
<1>2. Paid(r)' = Paid(r) /\ SettlementsOf(r)' = SettlementsOf(r)
  BY <1>1, PaidUnchanged, SettlementsUnchanged
<1> USE DEF IInv, LocalInv, InItem
<1>3. ItemsInv(r)' /\ DueInv(r)' /\ OriginInv(r)'
  BY <1>1 DEF ItemsInv, DueInv, OriginInv
<1>4. PaidInv(r)' /\ OrderInv(r)' /\ BookInv(r)'
  BY <1>1, <1>2 DEF PaidInv, OrderInv, BookInv, Of
<1> QED BY <1>3, <1>4

LEMMA StopLocal ==
  ASSUME IInv, NEW r \in Runs, r \in Active, Stop(r) PROVE LocalInv(r)'
<1>1. /\ phase[r] \notin {"idle", "done", "failed"} /\ phase'[r] = "failed" /\ todo'[r] = {}
      /\ UNCHANGED <<origin, listed, payees, owed, saved, drafts, ledger, settlements>>
  BY DEF Stop, Active, IInv, TypeInv, TypeOK, bookVars
<1>2. Paid(r)' = Paid(r) /\ SettlementsOf(r)' = SettlementsOf(r)
  BY <1>1, PaidUnchanged, SettlementsUnchanged
<1> USE DEF IInv, LocalInv, InItem
<1>3. ItemsInv(r)' /\ DueInv(r)' /\ OriginInv(r)'
  BY <1>1 DEF ItemsInv, DueInv, OriginInv
<1>4. PaidInv(r)' /\ OrderInv(r)' /\ BookInv(r)'
  BY <1>1, <1>2 DEF PaidInv, OrderInv, BookInv, Of
<1> QED BY <1>3, <1>4

LEMMA RunStepLocal == ASSUME IInv, NEW r \in Runs, RunStep(r) PROVE LocalInv(r)'
<1>1. CASE ReadRound(r) \/ SaveRound(r)
  BY <1>1, RoundLocal
<1>2. ASSUME NEW i \in todo[r], ReadTask(r, i) \/ SkipUnread(r, i) PROVE LocalInv(r)'
  BY <1>2, ReadTaskLocal, SkipUnreadLocal
<1>3. CASE ReadContributions(r)
  BY <1>3, ReadContributionsLocal
<1>4. ASSUME NEW p \in due[r], Pay(r, p) PROVE LocalInv(r)'
  BY <1>4, PayLocal
<1>5. CASE ReadSettle(r) \/ SaveSettle(r)
  BY <1>5, ReadSettleLocal, SaveSettleLocal
<1>6. CASE RefuseSettle(r) \/ ItemFails(r)
  BY <1>6, NextItemLocal DEF RefuseSettle, ItemFails, InItem
<1>7. CASE EndLoop(r) \/ Publish(r)
  BY <1>7, EndLoopLocal, PublishLocal
<1>8. CASE Draft(r) \/ DraftFails(r)
  BY <1>8, DraftLocal
<1>9. CASE PublishRejected(r) \/ AbortRun(r)
  BY <1>9, StopLocal DEF PublishRejected, AbortRun, Active
<1> QED BY <1>1, <1>2, <1>3, <1>4, <1>5, <1>6, <1>7, <1>8, <1>9 DEF RunStep, RunWork, RunFailure

-----------------------------------------------------------------------------
(* The inductive invariant.                                                *)

LEMMA Inductive == Spec => []IInv
<1>1. ASSUME Init PROVE IInv
  <2>1. TypeInv
    BY <1>1, InitType
  <2>2. ASSUME NEW r \in Runs PROVE LocalInv(r)
    <3>1. Paid(r) = {} /\ SettlementsOf(r) = {}
      BY <1>1 DEF Init, Paid, EntriesOf, SettlementsOf
    <3> QED BY <1>1, <3>1 DEF Init, LocalInv, ItemsInv, DueInv, PaidInv, Of, OrderInv, BookInv,
            OriginInv, InItem
  <2> QED BY <2>1, <2>2 DEF IInv
<1>2. ASSUME IInv, [Next]_vars PROVE IInv'
  <2>1. TypeInv'
    BY <1>2, TypeStep DEF IInv
  <2> SUFFICES ASSUME NEW q \in Runs PROVE LocalInv(q)'
    BY <2>1 DEF IInv
  <2>2. ASSUME SameRun(q) PROVE LocalInv(q)'
    BY <1>2, <2>2, Frame DEF IInv
  <2>3. ASSUME NEW r \in Runs, RunStep(r) PROVE LocalInv(q)'
    BY <1>2, <2>2, <2>3, RunStepLocal, RunStepFrame DEF IInv, TypeInv
  <2>4. ASSUME NEW r \in Runs, NEW v \in Sessions, StartVote(r, v) PROVE LocalInv(q)'
    <3> DEFINE items == [source : {v}, task : SessionTasks[v]]
    <3>1. items \in SUBSET Item /\ v \in Sources \cup {Project} /\ \A i \in items : i.source = v
      BY SessionTasksAssumption DEF Item, Sources
    <3>2. Start(r, v, items)
      BY <2>4 DEF StartVote
    <3> HIDE DEF items
    <3> QED BY <1>2, <2>2, <3>1, <3>2, StartLocal, StartFrame DEF IInv, TypeInv
  <2>5. ASSUME NEW r \in Runs, NEW m \in Meetings, StartMeeting(r, m) PROVE LocalInv(q)'
    <3> DEFINE items == [source : {m}, task : results[m]]
    <3>1. items \in SUBSET Item /\ m \in Sources \cup {Project} /\ \A i \in items : i.source = m
      BY <1>2 DEF Item, Sources, IInv, TypeInv, TypeOK
    <3>2. Start(r, m, items)
      BY <2>5 DEF StartMeeting
    <3> HIDE DEF items
    <3> QED BY <1>2, <2>2, <3>1, <3>2, StartLocal, StartFrame DEF IInv, TypeInv
  <2>6. ASSUME NEW r \in Runs, StartProject(r) PROVE LocalInv(q)'
    <3>1. Start(r, Project, Unsettled) /\ Unsettled \in SUBSET Item
      BY <2>6 DEF StartProject, Unsettled
    <3> HIDE DEF Unsettled
    <3> QED BY <1>2, <2>2, <3>1, StartLocal, StartFrame DEF IInv, TypeInv
  <2>7. CASE OtherStep /\ UNCHANGED <<bookVars, runVars>>
    BY <2>2, <2>7, PaidUnchanged, SettlementsUnchanged DEF SameRun, bookVars, runVars, itemVars
  <2>8. CASE UNCHANGED vars
    BY <2>2, <2>8, PaidUnchanged, SettlementsUnchanged DEF SameRun, vars, bookVars, runVars, itemVars
  <2> QED BY <1>2, <2>3, <2>4, <2>5, <2>6, <2>7, <2>8, NextCases
<1> QED BY <1>1, <1>2, PTL DEF Spec

\* The users a settlement says it affected are those its run paid, with shares
\* that failed, tasks that were skipped and other runs on the same tasks.
THEOREM PayeesCorrect == Spec => []PayeesMatchLedger
<1>1. ASSUME IInv PROVE PayeesMatchLedger
  <2> SUFFICES ASSUME NEW s \in settlements PROVE s.payees = {p.user : p \in Paid(s.run)}
    BY DEF PayeesMatchLedger
  <2>1. s.run \in Runs
    BY <1>1 DEF IInv, TypeInv, TypeOK, SettlementRow
  <2>2. s \in SettlementsOf(s.run)
    BY DEF SettlementsOf
  <2> QED BY <1>1, <2>1, <2>2 DEF IInv, LocalInv, BookInv
<1> QED BY <1>1, Inductive, PTL

\* A listed task is completely paid, however many shares it has and whichever of
\* them failed.
THEOREM ListedPaid == Spec => []ListedIsPaid
<1>1. IInv => ListedIsPaid
  BY DEF IInv, LocalInv, PaidInv, ListedIsPaid
<1> QED BY <1>1, Inductive, PTL

\* Meeting and project runs never save a task as settled before its payments are
\* in point_records.
THEOREM PaidFirst == Spec => []PaidBeforeSettled
<1>1. IInv => PaidBeforeSettled
  BY RunsAssumption DEF IInv, LocalInv, OrderInv, PaidBeforeSettled, Runs
<1> QED BY <1>1, Inductive, PTL

\* A vote run never pays for a task it has not itself saved as settled.
THEOREM SettledFirst == Spec => []SettledBeforePaid
<1>1. IInv => SettledBeforePaid
  BY DEF IInv, LocalInv, OrderInv, SettledBeforePaid, Runs
<1> QED BY <1>1, Inductive, PTL

\* Both orders together, whatever fails and whichever runs overlap.
THEOREM PaymentOrdered == Spec => []PaymentOrder
<1>1. PaidBeforeSettled /\ SettledBeforePaid => PaymentOrder
  BY DEF PaymentOrder
<1> QED BY <1>1, PaidFirst, SettledFirst, PTL

-----------------------------------------------------------------------------
(* Settlement implements SettlementBook.  Only five actions of a run change *)
(* what the book sees; everything else stutters.                           *)

Accounts == [r \in Runs |-> Paid(r)]
Closed   == {[run |-> s.run, tasks |-> s.tasks, payees |-> s.payees] : s \in settlements}

LEMMA BookStutters ==
  ASSUME UNCHANGED <<owed, ledger, settlements, drafts>> PROVE UNCHANGED Book!vars
BY PaidUnchanged DEF Book!vars

LEMMA OpenUnlessSettled ==
  ASSUME NEW r \in Runs PROVE Book!Open(r) <=> SettlementsOf(r) = {}
<1>1. Book!Open(r) <=> \A s \in Closed : s.run # r
  BY DEF Book!Open, Closed
<1> DEFINE Kept(s) == [run |-> s.run, tasks |-> s.tasks, payees |-> s.payees]
<1>2. \A s : Kept(s).run = s.run
  OBVIOUS
<1>3. Closed = {Kept(s) : s \in settlements}
  BY DEF Closed
<1> HIDE DEF Kept
<1>4. (\A s \in Closed : s.run # r) <=> \A s \in settlements : s.run # r
  BY <1>2, <1>3
<1> QED BY <1>1, <1>4 DEF SettlementsOf

LEMMA AccountsUnchanged == ASSUME UNCHANGED ledger PROVE Accounts' = Accounts
BY PaidUnchanged DEF Accounts

\* The two actions in which a run comes to owe.
LEMMA OweStep ==
  ASSUME IInv, IInv', NEW r \in Runs, NEW d, phase[r] \in InItem,
         owed' = [owed EXCEPT ![r] = @ \cup d], UNCHANGED <<ledger, settlements, drafts>>
  PROVE  Book!Owe(r)
<1>1. Book!Open(r)
  BY OpenUnlessSettled DEF IInv, LocalInv, BookInv, InItem
<1>2. owed'[r] = owed[r] \cup d /\ owed'[r] \subseteq Payment
  BY DEF IInv, TypeInv, TypeOK
<1>3. Accounts' = Accounts
  BY AccountsUnchanged
<1> QED BY <1>1, <1>2, <1>3 DEF Book!Owe, Accounts

LEMMA PayStep ==
  ASSUME IInv, NEW r \in Runs, NEW p \in due[r], Pay(r, p) PROVE Book!Pay(r)
<1>1. phase[r] = "pay" /\ UNCHANGED <<owed, settlements, drafts>>
  BY DEF Pay, Award
<1>2. Book!Open(r)
  BY <1>1, OpenUnlessSettled DEF IInv, LocalInv, BookInv
<1>3. p \in owed[r]
  BY <1>1 DEF IInv, LocalInv, DueInv
<1>4. Accounts' = [Accounts EXCEPT ![r] = @ \cup {p}]
  BY PaidAfterPay DEF Accounts
<1> QED BY <1>1, <1>2, <1>3, <1>4 DEF Book!Pay, Accounts

\* A listed task is listed for the run's own session or meeting, so all that is
\* owed for the task is owed for the listed item, which is paid.
LEMMA PublishStep ==
  ASSUME IInv, NEW r \in Runs, Publish(r)
  PROVE  Book!Next
<1> DEFINE listing == {i.task : i \in listed[r]}
           row == [run |-> r, origin |-> origin[r], round |-> runRound[r],
                   tasks |-> listing, total |-> total[r], payees |-> payees[r]]
<1>1. /\ phase[r] = "publish" /\ origin[r] # Project
      /\ settlements' = settlements \cup {row}
      /\ UNCHANGED <<owed, ledger, drafts>>
  BY DEF Publish, Record, ListedTasks, itemVars
<1>2. listing \in SUBSET Tasks
  BY DEF IInv, TypeInv, TypeOK, Item
<1>3. Book!Open(r)
  BY <1>1, OpenUnlessSettled DEF IInv, LocalInv, BookInv
<1>4. \A p \in owed[r] : p.task \in listing => p \in Paid(r)
  <2> SUFFICES ASSUME NEW p \in owed[r], NEW i \in listed[r], p.task = i.task
               PROVE  p \in Paid(r)
    OBVIOUS
  <2>1. p \in Of(i, owed[r])
    BY <1>1 DEF Of, IInv, LocalInv, OriginInv
  <2> QED BY <2>1 DEF IInv, LocalInv, PaidInv
<1>5. Closed' = Closed \cup {[run |-> r, tasks |-> listing, payees |-> {p.user : p \in Paid(r)}]}
  <2>1. payees[r] = {p.user : p \in Paid(r)}
    BY DEF IInv, LocalInv, BookInv
  <2>2. row.run = r /\ row.tasks = listing /\ row.payees = payees[r]
    OBVIOUS
  <2> HIDE DEF row, listing
  <2>3. Closed' = Closed \cup {[run |-> row.run, tasks |-> row.tasks, payees |-> row.payees]}
    BY <1>1 DEF Closed
  <2> QED BY <2>1, <2>2, <2>3
<1>6. Accounts' = Accounts /\ Accounts[r] = Paid(r)
  BY <1>1, AccountsUnchanged DEF Accounts
<1> HIDE DEF listing, row
<1>7. PICK names \in SUBSET Tasks : names = listing
  BY <1>2
<1>8. Book!Close(r, names)
  <2>1. {p \in owed[r] : p.task \in listing} \subseteq Accounts[r]
    BY <1>4, <1>6
  <2>2. /\ Closed' = Closed \cup {[run |-> r, tasks |-> listing, payees |-> {p.user : p \in Accounts[r]}]}
        /\ UNCHANGED <<owed, Accounts, drafts>>
    BY <1>1, <1>5, <1>6
  <2> QED BY <1>3, <1>7, <2>1, <2>2 DEF Book!Close, Accounts, Closed
<1> QED BY <1>8 DEF Book!Next

LEMMA DraftStep == ASSUME IInv, NEW r \in Runs, Draft(r) PROVE Book!Draft(r)
<1>1. /\ phase[r] = "draft" /\ drafts' = drafts \cup {r}
      /\ UNCHANGED <<owed, ledger, settlements>>
  BY DEF Draft, itemVars
<1>2. ~Book!Open(r) /\ r \notin drafts
  BY <1>1, OpenUnlessSettled DEF IInv, LocalInv, BookInv
<1>3. Accounts' = Accounts
  BY <1>1, AccountsUnchanged
<1> QED BY <1>1, <1>2, <1>3 DEF Book!Draft, Accounts

LEMMA RunStepKeepsBook ==
  ASSUME IInv, IInv', NEW r \in Runs, RunStep(r) PROVE [Book!Next]_(Book!vars)
<1>1. CASE ReadContributions(r)
  <2>1. /\ phase[r] \in InItem
        /\ \E d : owed' = [owed EXCEPT ![r] = @ \cup d]
        /\ UNCHANGED <<ledger, settlements, drafts>>
    BY <1>1 DEF ReadContributions, OweDue, DueNow, bookVars, InItem
  <2> QED BY <2>1, OweStep DEF Book!Next
<1>2. ASSUME NEW p \in due[r], Pay(r, p) PROVE Book!Next
  BY <1>2, PayStep DEF Book!Next
<1>3. CASE SaveSettle(r)
  <2>1. /\ phase[r] \in InItem
        /\ owed' = [owed EXCEPT ![r] = @ \cup due[r]]
        /\ UNCHANGED <<ledger, settlements, drafts>>
    BY <1>3 DEF SaveSettle, SaveSettled, PaysNext, bookVars, InItem
  <2> QED BY <2>1, OweStep DEF Book!Next
<1>4. CASE Publish(r)
  BY <1>4, PublishStep
<1>5. CASE Draft(r)
  BY <1>5, DraftStep DEF Book!Next
<1>6. ASSUME NEW i \in todo[r], ReadTask(r, i) \/ SkipUnread(r, i) PROVE UNCHANGED Book!vars
  BY <1>6, BookStutters DEF ReadTask, TakeItem, SkipUnread, bookVars
<1>7. CASE ReadRound(r) \/ SaveRound(r) \/ ReadSettle(r) \/ EndLoop(r) \/ DraftFails(r)
  BY <1>7, BookStutters DEF ReadRound, SaveRound, ReadSettle, EndLoop, DraftFails, bookVars, itemVars
<1>8. CASE RefuseSettle(r) \/ ItemFails(r)
  BY <1>8, BookStutters DEF RefuseSettle, ItemFails, NextItem, bookVars
<1>9. CASE PublishRejected(r) \/ AbortRun(r)
  BY <1>9, BookStutters DEF PublishRejected, AbortRun, Stop, bookVars
<1> QED BY <1>1, <1>2, <1>3, <1>4, <1>5, <1>6, <1>7, <1>8, <1>9 DEF RunStep, RunWork, RunFailure

\* Settlement keeps the book: whatever fails and whatever overlaps, every run's
\* account, its settlement and its draft behave as SettlementBook promises.
THEOREM BookKept == Spec => KeepsBook
<1>1. ASSUME Init PROVE Book!Init
  BY <1>1 DEF Init, Book!Init, Paid, EntriesOf
<1>2. ASSUME IInv, IInv', [Next]_vars PROVE [Book!Next]_(Book!vars)
  <2>1. ASSUME NEW r \in Runs, RunStep(r) PROVE [Book!Next]_(Book!vars)
    BY <1>2, <2>1, RunStepKeepsBook
  <2>2. ASSUME NEW r \in Runs, NEW from, NEW items, Start(r, from, items)
        PROVE  UNCHANGED Book!vars
    BY <2>2, BookStutters DEF Start, bookVars
  <2>3. CASE \E r \in Runs, v \in Sessions : StartVote(r, v)
    BY <2>2, <2>3 DEF StartVote
  <2>4. CASE \E r \in Runs, m \in Meetings : StartMeeting(r, m)
    BY <2>2, <2>4 DEF StartMeeting
  <2>5. CASE \E r \in Runs : StartProject(r)
    BY <2>2, <2>5 DEF StartProject
  <2>6. CASE OtherStep /\ UNCHANGED <<bookVars, runVars>>
    BY <2>6, BookStutters DEF bookVars, runVars, itemVars
  <2>7. CASE UNCHANGED vars
    BY <2>7, BookStutters DEF vars, bookVars, runVars, itemVars
  <2> QED BY <1>2, <2>1, <2>3, <2>4, <2>5, <2>6, <2>7, NextCases
<1> QED BY <1>1, <1>2, Inductive, PTL DEF Spec, KeepsBook, Book!Spec

-----------------------------------------------------------------------------
(* Rounds.  While nothing has overlapped, at most one run is active, a run  *)
(* that is about to save the counter is one ahead of it, and every run that *)
(* has taken its number has one of its own, not above the counter.          *)

Early == {"idle", "readRound", "saveRound"}

Numbered(r) == phase[r] \notin Early /\ (phase[r] = "failed" => Traced(r))

EarlyInv == \A r \in Runs : phase[r] \in Early => ~Traced(r)

RoundInv ==
  /\ \A r, q \in Active : r = q
  /\ Active # {} => projectCall = {}
  /\ \A n \in projectCall : n = round
  /\ \A r \in Runs : phase[r] = "saveRound" => runRound[r] = round + 1
  /\ \A r \in Runs : Numbered(r) => runRound[r] <= round
  /\ \A r, q \in Runs : r # q /\ Numbered(r) /\ Numbered(q) => runRound[r] # runRound[q]

NumberInv == EarlyInv /\ (~overlapped => RoundInv)

LEMMA TracedByRows ==
  ASSUME NEW r \in Runs PROVE Traced(r) <=> Paid(r) # {} \/ SettlementsOf(r) # {}
BY DEF Traced, Paid, EntriesOf, SettlementsOf

LEMMA TracedByRowsNext ==
  ASSUME NEW r \in Runs PROVE Traced(r)' <=> Paid(r)' # {} \/ SettlementsOf(r)' # {}
BY DEF Traced, Paid, EntriesOf, SettlementsOf

LEMMA SameNumber ==
  ASSUME NEW q \in Runs, SameRun(q)
  PROVE  Traced(q)' = Traced(q) /\ Numbered(q)' = Numbered(q)
<1>1. Traced(q)' <=> Traced(q)
  BY TracedByRows, TracedByRowsNext DEF SameRun
<1>2. Traced(q) \in BOOLEAN /\ Traced(q)' \in BOOLEAN
  BY DEF Traced
<1>3. Traced(q)' = Traced(q)
  BY <1>1, <1>2
<1>4. phase'[q] = phase[q]
  BY DEF SameRun
<1> HIDE DEF Traced
<1> QED BY <1>3, <1>4 DEF Numbered

\* A run that does not take a number in this step.
LEMMA KeepsNumber ==
  ASSUME TypeInv, NumberInv, NEW r \in Runs, r \in Active, \A q \in Runs \ {r} : SameRun(q),
         UNCHANGED <<projectCall, round, runRound, overlapped>>,
         phase'[r] \notin Early, Numbered(r)' => Numbered(r)
  PROVE  NumberInv'
<1>1. \A q \in Runs \ {r} : phase'[q] = phase[q]
  BY DEF SameRun
<1>2. Active' \subseteq Active
  BY <1>1 DEF Active
<1>3. \A q \in Runs : Numbered(q)' => Numbered(q)
  BY SameNumber
<1>4. EarlyInv'
  BY <1>1, SameNumber DEF EarlyInv, NumberInv
<1>5. ASSUME ~overlapped PROVE RoundInv'
  <2>1. RoundInv
    BY <1>5 DEF NumberInv
  <2>2. \A q \in Runs : phase'[q] = "saveRound" => phase[q] = "saveRound"
    BY <1>1 DEF Early
  <2> QED BY <1>2, <1>3, <2>1, <2>2 DEF RoundInv
<1> QED BY <1>4, <1>5 DEF NumberInv

LEMMA RunStepNumber == ASSUME IInv, NumberInv, NEW r \in Runs, RunStep(r) PROVE NumberInv'
<1>0. \A q \in Runs \ {r} : SameRun(q)
  BY RunStepFrame DEF IInv, TypeInv
<1>1. CASE ReadRound(r)
  <2>1. /\ phase[r] = "readRound" /\ phase'[r] = "saveRound"
        /\ runRound' = [runRound EXCEPT ![r] = round + 1]
        /\ UNCHANGED <<round, projectCall, overlapped, ledger, settlements>>
    BY <1>1 DEF ReadRound, IInv, TypeInv, TypeOK, projectVars, bookVars
  <2>2. EarlyInv'
    <3>1. Traced(r)' <=> Traced(r)
      BY <2>1 DEF Traced
    <3> QED BY <1>0, <2>1, <3>1, SameNumber DEF EarlyInv, NumberInv, Early, SameRun
  <2>3. ASSUME ~overlapped PROVE RoundInv'
    <3>1. RoundInv
      BY <2>3 DEF NumberInv
    <3>2. Active' = Active /\ r \in Active
      BY <1>0, <2>1 DEF Active, SameRun
    <3>3. ~Numbered(r)' /\ \A q \in Runs \ {r} : Numbered(q)' = Numbered(q)
      BY <1>0, <2>1, SameNumber DEF Numbered, Early
    <3>4. \A q \in Runs : phase'[q] = "saveRound" => q = r
      BY <1>0, <3>1, <3>2 DEF RoundInv, Active, SameRun
    <3>5. runRound'[r] = round + 1 /\ \A q \in Runs \ {r} : runRound'[q] = runRound[q]
      BY <2>1 DEF IInv, TypeInv, TypeOK
    <3> QED BY <2>1, <3>1, <3>2, <3>3, <3>4, <3>5 DEF RoundInv
  <2> QED BY <2>1, <2>2, <2>3 DEF NumberInv
<1>2. CASE SaveRound(r)
  <2>1. /\ phase[r] = "saveRound" /\ phase'[r] = "next" /\ round' = runRound[r]
        /\ UNCHANGED <<runRound, projectCall, overlapped>>
    BY <1>2 DEF SaveRound, IInv, TypeInv, TypeOK
  <2>2. EarlyInv'
    BY <1>0, <2>1, SameNumber DEF EarlyInv, NumberInv, Early, SameRun
  <2>3. ASSUME ~overlapped PROVE RoundInv'
    <3>1. RoundInv
      BY <2>3 DEF NumberInv
    <3>2. Active' = Active /\ r \in Active
      BY <1>0, <2>1 DEF Active, SameRun
    <3>3. ~Numbered(r) /\ \A q \in Runs \ {r} : Numbered(q)' = Numbered(q)
      BY <1>0, <2>1, SameNumber DEF Numbered, Early
    <3>4. \A q \in Runs : phase'[q] # "saveRound"
      BY <1>0, <2>1, <3>1, <3>2 DEF RoundInv, Active, SameRun
    <3>5. round' = round + 1 /\ projectCall = {}
      BY <2>1, <3>1, <3>2 DEF RoundInv
    <3>6. round \in Nat /\ \A q \in Runs : runRound[q] \in Nat
      BY DEF IInv, TypeInv, TypeOK
    <3>7. \A q \in Runs \ {r} : Numbered(q)' => runRound'[q] <= round
      BY <2>1, <3>1, <3>3 DEF RoundInv
    <3>8. runRound'[r] = round + 1
      BY <2>1, <3>5
    <3> QED BY <2>1, <3>1, <3>2, <3>3, <3>4, <3>5, <3>6, <3>7, <3>8 DEF RoundInv
  <2> QED BY <2>1, <2>2, <2>3 DEF NumberInv
<1>3. CASE AbortRun(r)
  <2>1. /\ r \in Active /\ phase'[r] = "failed"
        /\ UNCHANGED <<projectCall, round, runRound, overlapped, ledger, settlements>>
    BY <1>3 DEF AbortRun, Stop, IInv, TypeInv, TypeOK, projectVars, bookVars
  <2>2. Traced(r)' <=> Traced(r)
    BY <2>1 DEF Traced
  <2>3. Numbered(r)' => Numbered(r)
    BY <2>1, <2>2 DEF Numbered, NumberInv, EarlyInv
  <2> QED BY <1>0, <2>1, <2>3, KeepsNumber DEF IInv, Early
<1>4. ASSUME phase[r] \in {"next", "split", "pay", "settle", "write", "publish", "draft"},
             phase'[r] \notin Early,
             UNCHANGED <<projectCall, round, runRound, overlapped>>
      PROVE  NumberInv'
  BY <1>0, <1>4, KeepsNumber DEF IInv, Active, Numbered, Early
<1> USE DEF IInv, TypeInv, TypeOK, projectVars, itemVars, Early
<1>5. ASSUME NEW i \in todo[r], ReadTask(r, i) \/ SkipUnread(r, i) PROVE NumberInv'
  BY <1>4, <1>5 DEF ReadTask, TakeItem, SkipUnread
<1>6. CASE ReadContributions(r)
  BY <1>4, <1>6 DEF ReadContributions, OweDue, DueNow
<1>7. ASSUME NEW p \in due[r], Pay(r, p) PROVE NumberInv'
  BY <1>4, <1>7 DEF Pay, Award
<1>8. CASE ReadSettle(r) \/ SaveSettle(r)
  BY <1>4, <1>8 DEF ReadSettle, SaveSettle, SaveSettled, PaysNext
<1>9. CASE RefuseSettle(r) \/ ItemFails(r)
  BY <1>4, <1>9 DEF RefuseSettle, ItemFails, NextItem
<1>10. CASE EndLoop(r) \/ Publish(r)
  BY <1>4, <1>10 DEF EndLoop, Publish, Record, ListedTasks
<1>11. CASE PublishRejected(r)
  BY <1>4, <1>11 DEF PublishRejected, Stop
<1>12. CASE Draft(r) \/ DraftFails(r)
  BY <1>4, <1>12 DEF Draft, DraftFails
<1> QED BY <1>1, <1>2, <1>3, <1>5, <1>6, <1>7, <1>8, <1>9, <1>10, <1>11, <1>12 DEF RunStep, RunWork, RunFailure

LEMMA StartNumber ==
  ASSUME IInv, NumberInv, NEW r \in Runs, NEW from, NEW items, Start(r, from, items)
  PROVE  NumberInv'
<1>1. /\ phase[r] = "idle" /\ phase'[r] = "readRound"
      /\ overlapped' = (overlapped \/ Active # {} \/ projectCall # {})
      /\ UNCHANGED <<round, projectCall, runRound, ledger, settlements>>
  BY DEF Start, IInv, TypeInv, TypeOK, projectVars, bookVars
<1>2. \A q \in Runs \ {r} : SameRun(q)
  BY StartFrame DEF IInv, TypeInv
<1>3. EarlyInv'
  <2>1. Traced(r)' <=> Traced(r)
    BY <1>1 DEF Traced
  <2> QED BY <1>1, <1>2, <2>1, SameNumber DEF EarlyInv, NumberInv, Early, SameRun
<1>4. ASSUME ~overlapped' PROVE RoundInv'
  <2>1. ~overlapped /\ Active = {} /\ projectCall = {}
    BY <1>1, <1>4
  <2>2. RoundInv
    BY <2>1 DEF NumberInv
  <2>3. Active' \subseteq {r}
    BY <1>1, <1>2, <2>1 DEF Active, SameRun
  <2>4. ~Numbered(r)' /\ \A q \in Runs \ {r} : Numbered(q)' = Numbered(q)
    BY <1>1, <1>2, SameNumber DEF Numbered, Early
  <2>5. \A q \in Runs : phase'[q] = "saveRound" => phase[q] = "saveRound"
    BY <1>1, <1>2 DEF SameRun
  <2> QED BY <1>1, <2>1, <2>2, <2>3, <2>4, <2>5 DEF RoundInv
<1> QED BY <1>3, <1>4 DEF NumberInv

LEMMA OtherStepNumber ==
  ASSUME IInv, NumberInv, OtherStep, UNCHANGED <<bookVars, runVars>> PROVE NumberInv'
<1>1. /\ UNCHANGED <<phase, runRound>> /\ Active' = Active
      /\ \A r \in Runs : Traced(r)' = Traced(r) /\ Numbered(r)' = Numbered(r)
  BY DEF bookVars, runVars, Traced, Numbered, Active
<1>2. EarlyInv'
  BY <1>1 DEF NumberInv, EarlyInv
<1>3. ASSUME ~overlapped' PROVE RoundInv'
  <2>1. CASE UNCHANGED <<projectVars, overlapped>>
    BY <1>1, <1>3, <2>1 DEF NumberInv, RoundInv, projectVars
  <2>2. CASE ReadProject
    <3>1. ~overlapped /\ Active = {} /\ projectCall' = projectCall \cup {round} /\ round' = round
      BY <1>3, <2>2 DEF ReadProject
    <3> QED BY <1>1, <3>1 DEF NumberInv, RoundInv
  <2>3. CASE SaveProject
    <3>1. ~overlapped /\ round' \in projectCall /\ projectCall' \subseteq projectCall
      BY <1>3, <2>3 DEF SaveProject
    <3>2. RoundInv
      BY <3>1 DEF NumberInv
    <3>3. round' = round
      BY <3>1, <3>2 DEF RoundInv
    <3> QED BY <1>1, <3>1, <3>2, <3>3 DEF RoundInv
  <2>4. CASE SaveProjectFails
    <3>1. ~overlapped /\ round' = round /\ projectCall' \subseteq projectCall
      BY <1>3, <2>4 DEF SaveProjectFails
    <3> QED BY <1>1, <3>1 DEF NumberInv, RoundInv
  <2> QED BY <2>1, <2>2, <2>3, <2>4 DEF OtherStep
<1> QED BY <1>2, <1>3 DEF NumberInv

\* As long as no run overlaps with another run or with a project update, runs that
\* left a trace have rounds of their own, whichever of them failed and where.
THEOREM RoundsAreDistinct == Spec => []RoundsDistinct
<1>1. ASSUME Init PROVE NumberInv
  <2>1. \A r \in Runs : ~Traced(r)
    BY <1>1 DEF Init, Traced
  <2> QED BY <1>1, <2>1 DEF Init, NumberInv, EarlyInv, RoundInv, Numbered, Active, Early
<1>2. ASSUME IInv, NumberInv, [Next]_vars PROVE NumberInv'
  <2>1. ASSUME NEW r \in Runs, RunStep(r) PROVE NumberInv'
    BY <1>2, <2>1, RunStepNumber
  <2>2. CASE \E r \in Runs, v \in Sessions : StartVote(r, v)
    BY <1>2, <2>2, StartNumber DEF StartVote
  <2>3. CASE \E r \in Runs, m \in Meetings : StartMeeting(r, m)
    BY <1>2, <2>3, StartNumber DEF StartMeeting
  <2>4. CASE \E r \in Runs : StartProject(r)
    BY <1>2, <2>4, StartNumber DEF StartProject
  <2>5. CASE OtherStep /\ UNCHANGED <<bookVars, runVars>>
    BY <1>2, <2>5, OtherStepNumber
  <2>6. CASE UNCHANGED vars
    BY <1>2, <2>6 DEF NumberInv, EarlyInv, RoundInv, Numbered, Traced, Active, vars, projectVars,
       bookVars, runVars
  <2> QED BY <1>2, <2>1, <2>2, <2>3, <2>4, <2>5, <2>6, NextCases
<1>3. ASSUME NumberInv PROVE RoundsDistinct
  <2> SUFFICES ASSUME ~overlapped, NEW r \in Runs, NEW q \in Runs, r # q, Traced(r), Traced(q)
               PROVE  runRound[r] # runRound[q]
    BY DEF RoundsDistinct
  <2>1. Numbered(r) /\ Numbered(q)
    BY <1>3 DEF NumberInv, EarlyInv, Numbered
  <2> QED BY <1>3, <2>1 DEF NumberInv, RoundInv
<1> QED BY <1>1, <1>2, <1>3, Inductive, PTL DEF Spec

-----------------------------------------------------------------------------
(* The total of a run.  A payment adds to the total what its row adds to    *)
(* the sum only if the row is a new one: nothing that is due, or that may   *)
(* come to be due, has been paid by the run.                                *)

PointsOf(entries) == MapThenSumSet(LAMBDA e : e.payment.points, entries)

LEMMA PointsSum ==
  ASSUME NEW S, IsFiniteSet(S), NEW value, \A e \in S : value[e] = e.payment.points
  PROVE  \E sum : IsSum(sum, value, S) /\ PointsOf(S) = sum[S]
<1> DEFINE Built(g) == g = [s \in SUBSET S |-> IF s = {} THEN 0 ELSE (CHOOSE e \in s : TRUE).payment.points
                                                               + g[s \ {CHOOSE e \in s : TRUE}]]
<1>1. PICK iter : iter = CHOOSE g : Built(g)
  OBVIOUS
<1>2. PointsOf(S) = iter[S]
  BY <1>1 DEF PointsOf, MapThenSumSet, MapThenFoldSet
<1>3. PICK sum : IsSum(sum, value, S)
  BY SumExists
<1>4. ASSUME NEW g PROVE Built(g) <=> IsSum(g, value, S)
  <2>1. \A s \in SUBSET S : s # {} => value[Some(s)] = Some(s).payment.points
    BY SomeIs
  <2>2. Built(g) <=> g = [s \in SUBSET S |-> IF s = {} THEN 0 ELSE Some(s).payment.points + g[s \ {Some(s)}]]
    BY DEF Some
  <2>3. IsSum(g, value, S)
          <=> g = [s \in SUBSET S |-> IF s = {} THEN 0 ELSE value[Some(s)] + g[s \ {Some(s)}]]
    BY DEF IsSum
  <2> QED BY <2>1, <2>2, <2>3
<1>5. Built(iter)
  <2>1. Built(sum)
    BY <1>3, <1>4
  <2> HIDE DEF Built
  <2> QED BY <1>1, <2>1
<1>6. IsSum(iter, value, S)
  BY <1>4, <1>5
<1> QED BY <1>2, <1>6

LEMMA NoPoints == PointsOf({}) = 0
<1>1. PICK value : value = [e \in {} |-> e.payment.points]
  OBVIOUS
<1>2. PICK sum : IsSum(sum, value, {}) /\ PointsOf({}) = sum[{}]
  BY <1>1, PointsSum, FS_EmptySet
<1> QED BY <1>2, SumEquation

LEMMA OneEntryMore ==
  ASSUME NEW S \in SUBSET Entry, IsFiniteSet(S), NEW e \in Entry, e \notin S
  PROVE  PointsOf(S \cup {e}) = PointsOf(S) + e.payment.points
<1>1. PICK T : T = S \cup {e}
  OBVIOUS
<1>2. IsFiniteSet(T) /\ S \in SUBSET T /\ T \in SUBSET T /\ e \in T /\ S = T \ {e} /\ T \in SUBSET Entry
  BY <1>1, FS_AddElement
<1>3. PICK value : value = [d \in T |-> d.payment.points]
  OBVIOUS
<1>4. value \in [T -> Nat] /\ value[e] = e.payment.points
  BY <1>2, <1>3 DEF Entry, Payment
<1>5. PICK sum : IsSum(sum, value, T)
  BY <1>2, SumExists
<1>6. ASSUME NEW s \in SUBSET T PROVE PointsOf(s) = sum[s]
  <2>1. IsFiniteSet(s) /\ \A d \in s : value[d] = d.payment.points
    BY <1>2, <1>3, FS_Subset
  <2>2. PICK part : IsSum(part, value, s) /\ PointsOf(s) = part[s]
    BY <2>1, PointsSum
  <2> QED BY <1>2, <1>5, <2>2, SumUnique
<1>7. sum[T] = value[e] + sum[S]
  BY <1>2, <1>4, <1>5, SumStep
<1>8. sum[S] \in Nat /\ value[e] \in Nat
  BY <1>2, <1>4, <1>5, SumType
<1> QED BY <1>1, <1>2, <1>4, <1>6, <1>7, <1>8

NewInv(r) ==
  /\ phase[r] = "idle" => Paid(r) = {}
  /\ \A i \in todo[r] : Of(i, Paid(r)) = {}
  /\ phase[r] = "split" => Of(item[r], Paid(r)) = {}
  /\ r \in VoteRuns /\ phase[r] \in {"settle", "write"} => Of(item[r], Paid(r)) = {}
  /\ phase[r] = "pay" => due[r] \cap Paid(r) = {}

TotalInv(r) ==
  /\ IsFiniteSet(EntriesOf(r)) /\ total[r] = PointsOf(EntriesOf(r))
  /\ \A s \in SettlementsOf(r) : s.total = total[r]

LEMMA NewFrame == ASSUME NEW q \in Runs, NewInv(q), SameRun(q) PROVE NewInv(q)'
BY DEF NewInv, SameRun, Of

LEMMA NewStep == ASSUME IInv, NEW r \in Runs, NewInv(r), RunStep(r) PROVE NewInv(r)'
<1> USE DEF InItem
<1>1. CASE ReadRound(r) \/ SaveRound(r)
  <2>1. /\ phase'[r] \in {"saveRound", "next"} /\ UNCHANGED <<todo, item, due, ledger>>
    BY <1>1 DEF ReadRound, SaveRound, IInv, TypeInv, TypeOK, bookVars, itemVars
  <2> QED BY <2>1, PaidUnchanged DEF NewInv, Of
<1>2. ASSUME NEW i \in todo[r], ReadTask(r, i) PROVE NewInv(r)'
  <2>1. /\ phase'[r] \in {"settle", "split"} /\ todo'[r] = todo[r] \ {i} /\ item'[r] = i
        /\ UNCHANGED ledger
    BY <1>2 DEF ReadTask, TakeItem, IInv, TypeInv, TypeOK, bookVars
  <2> QED BY <2>1, PaidUnchanged DEF NewInv, Of
<1>3. ASSUME NEW i \in todo[r], SkipUnread(r, i) PROVE NewInv(r)'
  <2>1. /\ todo'[r] = todo[r] \ {i} /\ UNCHANGED <<phase, item, due, ledger>>
    BY <1>3 DEF SkipUnread, IInv, TypeInv, TypeOK, bookVars
  <2> QED BY <2>1, PaidUnchanged DEF NewInv, Of
<1>4. CASE ReadContributions(r)
  <2>1. PICK d : d = DueNow(r)
    OBVIOUS
  <2>2. /\ phase[r] = "split" /\ phase'[r] \in {"settle", "pay"} /\ due'[r] = d
        /\ r \in VoteRuns => FALSE
        /\ UNCHANGED <<todo, item, ledger>>
    BY <1>4, <2>1 DEF ReadContributions, OweDue, IInv, TypeInv, TypeOK, bookVars, LocalInv, OrderInv
  <2>3. item[r] \in Item
    BY <2>2 DEF IInv, TypeInv, HasItem
  <2>4. \A p \in d : p.source = item[r].source /\ p.task = item[r].task
    BY <2>1, <2>2, <2>3, DueOfItem DEF DueNow, IInv, LocalInv, DueInv
  <2>5. Paid(r)' = Paid(r) /\ Of(item[r], Paid(r)) = {}
    BY <2>2, PaidUnchanged DEF NewInv
  <2>6. d \cap Paid(r) = {}
    BY <2>4, <2>5 DEF Of
  <2> QED BY <2>2, <2>5, <2>6 DEF NewInv, Of
<1>5. ASSUME NEW p \in due[r], Pay(r, p) PROVE NewInv(r)'
  <2>1. /\ phase[r] = "pay" /\ due'[r] = due[r] \ {p}
        /\ phase'[r] \in {"pay", "next", "settle"}
        /\ r \in VoteRuns => phase'[r] # "settle"
        /\ UNCHANGED <<todo, item>>
    BY <1>5 DEF Pay, Award, IInv, TypeInv, TypeOK
  <2>2. Paid(r)' = Paid(r) \cup {p}
    BY <1>5, PaidAfterPay
  <2>3. item[r] \in Item /\ p.source = item[r].source /\ p.task = item[r].task /\ item[r] \notin todo[r]
    BY <2>1 DEF IInv, TypeInv, HasItem, LocalInv, DueInv, ItemsInv
  <2>4. \A i \in todo[r] : i \in Item
    BY DEF IInv, TypeInv, TypeOK
  <2>5. \A i \in todo[r] : p \notin Of(i, Paid(r)')
    BY <2>3, <2>4 DEF Of, Item
  <2>6. \A i \in todo[r] : Of(i, Paid(r)') = {}
    BY <2>2, <2>5 DEF NewInv, Of
  <2> QED BY <2>1, <2>2, <2>6 DEF NewInv, Of
<1>6. CASE ReadSettle(r)
  <2>1. /\ phase[r] = "settle" /\ phase'[r] = "write" /\ UNCHANGED <<todo, item, due, ledger>>
    BY <1>6 DEF ReadSettle, IInv, TypeInv, TypeOK, bookVars
  <2> QED BY <2>1, PaidUnchanged DEF NewInv, Of
<1>7. CASE SaveSettle(r)
  <2>1. /\ phase[r] = "write" /\ phase'[r] \in {"pay", "next"}
        /\ r \notin VoteRuns => phase'[r] = "next"
        /\ UNCHANGED <<todo, item, due, ledger>>
    BY <1>7 DEF SaveSettle, SaveSettled, PaysNext, IInv, TypeInv, TypeOK, bookVars
  <2>2. DueInv(r)
    BY DEF IInv, LocalInv
  <2>3. \A p \in due[r] : p.source = item[r].source /\ p.task = item[r].task
    BY <2>1, <2>2 DEF DueInv
  <2>4. r \in VoteRuns => Of(item[r], Paid(r)) = {}
    BY <2>1 DEF NewInv
  <2>5. r \in VoteRuns => due[r] \cap Paid(r) = {}
    BY <2>3, <2>4 DEF Of
  <2>6. Paid(r)' = Paid(r)
    BY <2>1, PaidUnchanged
  <2> QED BY <2>1, <2>5, <2>6 DEF NewInv, Of
<1>8. CASE RefuseSettle(r) \/ ItemFails(r)
  <2>1. phase'[r] = "next" /\ UNCHANGED <<todo, ledger>>
    BY <1>8 DEF RefuseSettle, ItemFails, NextItem, IInv, TypeInv, TypeOK, bookVars
  <2> QED BY <2>1, PaidUnchanged DEF NewInv, Of
<1>9. CASE EndLoop(r) \/ Publish(r) \/ Draft(r) \/ DraftFails(r)
  <2>1. phase'[r] \in {"publish", "draft", "done"} /\ UNCHANGED <<todo, ledger>>
    BY <1>9 DEF EndLoop, Publish, Record, Draft, DraftFails, IInv, TypeInv, TypeOK, bookVars, itemVars
  <2> QED BY <2>1, PaidUnchanged DEF NewInv, Of
<1>10. CASE PublishRejected(r) \/ AbortRun(r)
  <2>1. phase'[r] = "failed" /\ todo'[r] = {} /\ UNCHANGED ledger
    BY <1>10 DEF PublishRejected, AbortRun, Stop, IInv, TypeInv, TypeOK, bookVars
  <2> QED BY <2>1, PaidUnchanged DEF NewInv, Of
<1> QED BY <1>1, <1>2, <1>3, <1>4, <1>5, <1>6, <1>7, <1>8, <1>9, <1>10 DEF RunStep, RunWork, RunFailure

\* Of the runs only the one that steps pays or records anything.
LEMMA TotalUnchanged ==
  ASSUME NEW q \in Runs, TotalInv(q), EntriesOf(q)' = EntriesOf(q), total'[q] = total[q],
         SettlementsOf(q)' = SettlementsOf(q)
  PROVE  TotalInv(q)'
<1>1. PICK S : S = EntriesOf(q) /\ S = EntriesOf(q)'
  OBVIOUS
<1>2. IsFiniteSet(S) /\ total[q] = PointsOf(S)
  BY <1>1 DEF TotalInv
<1>3. \A s \in SettlementsOf(q)' : s.total = total'[q]
  BY DEF TotalInv
<1> QED BY <1>1, <1>2, <1>3 DEF TotalInv

LEMMA PayTotal ==
  ASSUME IInv, IInv', NEW r \in Runs, NewInv(r), TotalInv(r), NEW p \in due[r], Pay(r, p)
  PROVE  TotalInv(r)'
<1>1. PICK e : e = [run |-> r, round |-> runRound[r], payment |-> p]
  OBVIOUS
<1>2. /\ phase[r] = "pay" /\ ledger' = ledger \cup {e}
      /\ total'[r] = total[r] + p.points /\ UNCHANGED settlements
  BY <1>1 DEF Pay, Award, IInv, TypeInv, TypeOK
<1>3. p \notin Paid(r)
  BY <1>2 DEF NewInv
<1>4. PICK S : S = EntriesOf(r)
  OBVIOUS
<1>5. e \notin S /\ S \in SUBSET Entry /\ IsFiniteSet(S) /\ total[r] = PointsOf(S)
  <2>1. S \in SUBSET Entry
    BY <1>4 DEF EntriesOf, IInv, TypeInv, TypeOK
  <2>2. e \notin S
    BY <1>1, <1>3, <1>4 DEF Paid
  <2> QED BY <1>4, <2>1, <2>2 DEF TotalInv
<1>6. EntriesOf(r)' = S \cup {e}
  BY <1>1, <1>2, <1>4 DEF EntriesOf
<1>7. e \in Entry /\ e.payment.points = p.points
  BY <1>1, <1>2 DEF IInv, TypeInv, TypeOK
<1>8. PointsOf(S \cup {e}) = PointsOf(S) + p.points /\ IsFiniteSet(S \cup {e})
  BY <1>5, <1>7, OneEntryMore, FS_AddElement
<1>9. SettlementsOf(r)' = {}
  BY <1>2, SettlementsUnchanged DEF IInv, LocalInv, BookInv
<1> QED BY <1>2, <1>5, <1>6, <1>8, <1>9 DEF TotalInv

LEMMA PublishTotal ==
  ASSUME IInv, NEW r \in Runs, TotalInv(r), Publish(r) PROVE TotalInv(r)'
<1>1. PICK s : s.run = r /\ s.total = total[r] /\ settlements' = settlements \cup {s}
  BY DEF Publish, Record, ListedTasks
<1>2. UNCHANGED <<ledger, total>>
  BY DEF Publish, Record, itemVars
<1>3. SettlementsOf(r)' = SettlementsOf(r) \cup {s}
  BY <1>1 DEF SettlementsOf
<1>4. PICK S : S = EntriesOf(r) /\ S = EntriesOf(r)'
  BY <1>2 DEF EntriesOf
<1>5. IsFiniteSet(S) /\ total'[r] = PointsOf(S)
  BY <1>2, <1>4 DEF TotalInv
<1>6. \A x \in SettlementsOf(r)' : x.total = total'[r]
  BY <1>1, <1>2, <1>3 DEF TotalInv
<1> QED BY <1>4, <1>5, <1>6 DEF TotalInv

LEMMA TotalStep ==
  ASSUME IInv, IInv', NEW r \in Runs, RunStep(r), NewInv(r), NEW q \in Runs, TotalInv(q)
  PROVE  TotalInv(q)'
<1>1. ASSUME UNCHANGED <<ledger, settlements, total>> PROVE TotalInv(q)'
  <2>1. EntriesOf(q)' = EntriesOf(q)
    BY <1>1 DEF EntriesOf
  <2> QED BY <1>1, <2>1, SettlementsUnchanged, TotalUnchanged
<1>2. ASSUME NEW p \in due[r], Pay(r, p), q # r PROVE TotalInv(q)'
  <2>1. EntriesOf(q)' = EntriesOf(q) /\ total'[q] = total[q] /\ UNCHANGED settlements
    BY <1>2 DEF Pay, Award, EntriesOf, IInv, TypeInv, TypeOK
  <2> QED BY <2>1, SettlementsUnchanged, TotalUnchanged
<1>3. ASSUME NEW p \in due[r], Pay(r, p) PROVE TotalInv(q)'
  BY <1>2, <1>3, PayTotal
<1>4. CASE Publish(r)
  <2>1. CASE q = r
    BY <1>4, <2>1, PublishTotal
  <2>2. CASE q # r
    <3>1. EntriesOf(q)' = EntriesOf(q) /\ total'[q] = total[q]
      BY <1>4 DEF Publish, Record, itemVars, EntriesOf
    <3>2. SettlementsOf(q)' = SettlementsOf(q)
      BY <2>2, RunStepFrame DEF SameRun, IInv, TypeInv
    <3> QED BY <3>1, <3>2, TotalUnchanged
  <2> QED BY <2>1, <2>2
<1>5. ASSUME NEW i \in todo[r], ReadTask(r, i) \/ SkipUnread(r, i) PROVE UNCHANGED <<ledger, settlements, total>>
  BY <1>5 DEF ReadTask, TakeItem, SkipUnread, bookVars
<1>6. CASE ReadContributions(r) \/ SaveSettle(r)
  BY <1>1, <1>6 DEF ReadContributions, OweDue, SaveSettle, SaveSettled, bookVars
<1>7. CASE ReadRound(r) \/ SaveRound(r) \/ ReadSettle(r) \/ EndLoop(r) \/ Draft(r) \/ DraftFails(r)
  BY <1>1, <1>7 DEF ReadRound, SaveRound, ReadSettle, EndLoop, Draft, DraftFails, bookVars, itemVars
<1>8. CASE RefuseSettle(r) \/ ItemFails(r) \/ PublishRejected(r) \/ AbortRun(r)
  BY <1>1, <1>8 DEF RefuseSettle, ItemFails, NextItem, PublishRejected, AbortRun, Stop, bookVars
<1> QED BY <1>1, <1>3, <1>4, <1>5, <1>6, <1>7, <1>8 DEF RunStep, RunWork, RunFailure

\* The total of a settlement is the sum of the points its run inserted into point_records,
\* with shares that failed, tasks that were skipped and other runs on the same tasks.
THEOREM TotalsCorrect == Spec => []TotalMatchesLedger
<1> DEFINE Inv == \A r \in Runs : NewInv(r) /\ TotalInv(r)
<1>1. ASSUME Init PROVE Inv
  <2> SUFFICES ASSUME NEW r \in Runs PROVE NewInv(r) /\ TotalInv(r)
    OBVIOUS
  <2>1. EntriesOf(r) = {} /\ Paid(r) = {} /\ SettlementsOf(r) = {}
    BY <1>1 DEF Init, Paid, EntriesOf, SettlementsOf
  <2>2. NewInv(r)
    BY <1>1, <2>1 DEF Init, NewInv, Of
  <2>3. TotalInv(r)
    BY <1>1, <2>1, NoPoints, FS_EmptySet DEF Init, TotalInv
  <2> QED BY <2>2, <2>3
<1>2. ASSUME IInv, IInv', Inv, [Next]_vars PROVE Inv'
  <2> SUFFICES ASSUME NEW q \in Runs PROVE NewInv(q)' /\ TotalInv(q)'
    OBVIOUS
  <2>1. NewInv(q) /\ TotalInv(q)
    BY <1>2
  <2>2. ASSUME UNCHANGED <<ledger, settlements, total>> PROVE TotalInv(q)'
    <3>1. EntriesOf(q)' = EntriesOf(q)
      BY <2>2 DEF EntriesOf
    <3> QED BY <2>1, <2>2, <3>1, SettlementsUnchanged, TotalUnchanged
  <2>3. ASSUME NEW r \in Runs, RunStep(r) PROVE NewInv(q)' /\ TotalInv(q)'
    <3>1. TotalInv(q)'
      BY <1>2, <2>1, <2>3, TotalStep
    <3>2. CASE q = r
      BY <1>2, <2>1, <2>3, <3>1, <3>2, NewStep
    <3>3. CASE q # r
      BY <1>2, <2>1, <2>3, <3>1, <3>3, NewFrame, RunStepFrame DEF IInv, TypeInv
    <3> QED BY <3>2, <3>3
  <2>4. ASSUME NEW r \in Runs, NEW from, NEW items, Start(r, from, items) PROVE NewInv(q)' /\ TotalInv(q)'
    <3>1. TotalInv(q)'
      BY <2>2, <2>4 DEF Start, bookVars
    <3>2. CASE q = r
      <4>1. phase[r] = "idle" /\ phase'[r] = "readRound" /\ Paid(r)' = Paid(r)
        BY <1>2, <2>4, PaidUnchanged DEF Start, IInv, TypeInv, TypeOK, bookVars
      <4> QED BY <2>1, <3>1, <3>2, <4>1 DEF NewInv, Of
    <3>3. CASE q # r
      BY <1>2, <2>1, <2>4, <3>1, <3>3, NewFrame, StartFrame DEF IInv, TypeInv
    <3> QED BY <3>2, <3>3
  <2>5. CASE \E r \in Runs, v \in Sessions : StartVote(r, v)
    BY <2>4, <2>5 DEF StartVote
  <2>6. CASE \E r \in Runs, m \in Meetings : StartMeeting(r, m)
    BY <2>4, <2>6 DEF StartMeeting
  <2>7. CASE \E r \in Runs : StartProject(r)
    BY <2>4, <2>7 DEF StartProject
  <2>8. ASSUME UNCHANGED <<bookVars, runVars>> PROVE NewInv(q)' /\ TotalInv(q)'
    <3>1. TotalInv(q)'
      BY <2>2, <2>8 DEF bookVars, runVars, itemVars
    <3>2. Paid(q)' = Paid(q)
      BY <2>8, PaidUnchanged DEF bookVars
    <3> QED BY <2>1, <2>8, <3>1, <3>2 DEF NewInv, Of, runVars, itemVars
  <2>9. CASE UNCHANGED vars
    BY <2>8, <2>9 DEF vars
  <2> QED BY <1>2, <2>3, <2>5, <2>6, <2>7, <2>8, <2>9, NextCases
<1>3. ASSUME IInv, Inv PROVE TotalMatchesLedger
  <2> SUFFICES ASSUME NEW s \in settlements PROVE s.total = PointsOf(EntriesOf(s.run))
    BY DEF TotalMatchesLedger, PointsOf
  <2>1. s.run \in Runs /\ s \in SettlementsOf(s.run)
    BY <1>3 DEF IInv, TypeInv, TypeOK, SettlementRow, SettlementsOf
  <2> QED BY <1>3, <2>1 DEF TotalInv
<1> HIDE DEF Inv
<1> QED BY <1>1, <1>2, <1>3, Inductive, PTL DEF Spec

=============================================================================
