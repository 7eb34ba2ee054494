---------------------------- MODULE ScreensProofs ----------------------------
(***************************************************************************)
(* Proofs about the pages that several people have open at a time: the     *)
(* live meeting (ReviewMeeting), the connection with Feishu                *)
(* (FeishuSetup), the permissions of roles (RoleEditor), the cells of      *)
(* tasks (TaskGrid), the columns of a project (ColumnManager), and the     *)
(* lists of all other pages (Panes).                                       *)
(*   Every invariant of these modules has an exception for what overlapped *)
(* (raced, late, stale, crossed, excused, overruled).  The proofs show     *)
(* that the exceptions are enough: without them the handlers would have    *)
(* to lock.                                                                *)
(***************************************************************************)
EXTENDS MCScreens, FiniteSetTheorems, TLAPS

-----------------------------------------------------------------------------
(* The live meeting.                                                        *)

\* A handler holds the row of a meeting that exists, of an open one where it asked for that,
\* and a page shows a meeting that exists.
RowsRead ==
  /\ \A c \in Calls : call[c] # NoCall =>
       /\ meeting[call[c].meeting].status # "absent"
       /\ call[c].step # "check" => call[c].row.status # "absent"
       /\ call[c].step = "save" /\ call[c].op # "confirm" => call[c].row.status = "open"
       /\ call[c].op = "vote" => call[c].user \in Users
       /\ call[c].op = "confirm" => call[c].task \in Tasks
  /\ \A p \in Pages : page[p].at # "away" => meeting[At(p)].status # "absent"

\* The sets that are counted are finite, the counts are numbers.
LEMMA Countable ==
  ASSUME NEW S \in SUBSET Users
  PROVE  IsFiniteSet(S) /\ Cardinality(S) \in Nat
BY PagesAssumption, FS_Subset, FS_CardinalityType

LEMMA PageMeets == \A p \in Pages : At(p) \in Meetings /\ PageUser[p] \in Users
BY PagesAssumption DEF At

\* The steps that start a handler of a page.
Emits(p, c) == EmitVote(p, c) \/ EmitConfirm(p, c) \/ EmitEnd(p, c)

LEMMA EmitIs ==
  ASSUME TypeOK, NEW p \in Pages, NEW c \in Calls, Emits(p, c)
  PROVE  \E op \in {"vote", "confirm", "end"}, t \in Tasks \cup {NoTask}, u \in Users \cup {Nobody} :
           /\ Emit(p, c, op, t, u)
           /\ op = "vote" => u \in Users
           /\ op = "confirm" => t \in Tasks
<1>1. CASE EmitVote(p, c)
  BY <1>1, PageMeets DEF EmitVote
<1>2. CASE EmitConfirm(p, c)
  BY <1>2 DEF EmitConfirm, TypeOK, Page
<1>3. CASE EmitEnd(p, c)
  BY <1>3 DEF EmitEnd
<1> QED BY <1>1, <1>2, <1>3 DEF Emits

LEMMA MeetingTypeStep ==
  ASSUME TypeOK, RowsRead, [Next]_vars
  PROVE  TypeOK'
<1> USE DEF TypeOK
<1>1. ASSUME NEW m \in Meetings, CreateMeeting(m) PROVE TypeOK'
  <2>1. PICK pending \in SUBSET Tasks : meeting' =
          [meeting EXCEPT ![m] = [NoMeeting EXCEPT !.status = "open", !.tasks = pending]]
    BY <1>1 DEF CreateMeeting
  <2>2. [NoMeeting EXCEPT !.status = "open", !.tasks = pending] \in Row
    BY DEF NoMeeting, Row
  <2>3. meeting' \in [Meetings -> Row]
    BY <2>1, <2>2
  <2> QED BY <1>1, <2>3 DEF CreateMeeting, ghostVars
<1>2. ASSUME NEW p \in Pages, LoadPage(p) PROVE TypeOK'
  BY <1>2, PageMeets DEF LoadPage, Row, Page, serverVars, ghostVars
<1>3. ASSUME NEW p \in Pages, JoinRoom(p) PROVE TypeOK'
  <2> PICK here \in SUBSET Users : here = room[At(p)] \cup {PageUser[p]}
    BY PageMeets
  <2> PICK n \in Nat : n = Cardinality(here)
    BY Countable
  <2>1. page' = [q \in Pages |->
          IF q = p THEN [page[p] EXCEPT !.at = "joined", !.count = n]
          ELSE IF q \in Joined(At(p)) THEN [page[q] EXCEPT !.count = n]
          ELSE page[q]]
    BY <1>3 DEF JoinRoom
  <2> DEFINE Counted(q) == [page[q] EXCEPT !.count = n]
             Here(q)    == [page[q] EXCEPT !.at = "joined", !.count = n]
  <2>4. \A q \in Pages : page[q] \in Page /\ Counted(q) \in Page /\ Here(q) \in Page
    BY ZenonT(40) DEF Page
  <2>5. page' = [q \in Pages |->
          IF q = p THEN Here(q) ELSE IF q \in Joined(At(p)) THEN Counted(q) ELSE page[q]]
    BY <2>1
  <2> HIDE DEF Counted, Here
  <2>2. page' \in [Pages -> Page]
    BY <2>4, <2>5
  <2>3. room' \in [Meetings -> SUBSET Users]
    BY <1>3, PageMeets DEF JoinRoom
  <2> QED BY <1>3, <2>2, <2>3 DEF JoinRoom, serverVars, ghostVars
<1>4. ASSUME NEW p \in Pages, NEW next \in Page, Depart(p, next) PROVE TypeOK'
  <2>1. room' \in [Meetings -> SUBSET Users]
    BY <1>4 DEF Depart
  <2>2. \A m \in Meetings : Cardinality(room'[m]) \in Nat
    BY <2>1, Countable
  <2>3. page' \in [Pages -> Page]
    BY <1>4, <2>2, PageMeets DEF Depart, Page
  <2> QED BY <1>4, <2>1, <2>3 DEF Depart, serverVars, ghostVars
<1>5. ASSUME NEW p \in Pages, LoseConnection(p) \/ LeavePage(p) PROVE TypeOK'
  <2>1. [page[p] EXCEPT !.at = "loaded"] \in Page /\ Unmounted \in Page
    BY DEF Page, Unmounted
  <2> QED BY <1>4, <1>5, <2>1 DEF LoseConnection, LeavePage
<1>6. ASSUME NEW p \in Pages, NEW c \in Calls, Emits(p, c) PROVE TypeOK'
  <2>1. PICK op \in {"vote", "confirm", "end"}, t \in Tasks \cup {NoTask}, u \in Users \cup {Nobody} :
          Emit(p, c, op, t, u)
    BY <1>6, EmitIs
  <2>2. NoMeeting \in Row
    BY DEF NoMeeting, Row
  <2>3. call' \in [Calls -> Call \cup {NoCall}]
    BY <2>1, <2>2, PageMeets DEF Emit, Call
  <2> QED BY <2>1, <2>3, PagesAssumption DEF Emit, serverVars, ghostVars
<1>7. ASSUME NEW c \in Calls, ReadMeeting(c) PROVE TypeOK'
  <2>1. call[c] \in Call
    BY <1>7 DEF ReadMeeting
  <2>2. PICK m \in Meetings : m = call[c].meeting
    BY <2>1 DEF Call
  <2>3. Cardinality(voters[m]) \in Nat
    BY Countable
  <2>4. Seen(c, meeting[m]) \in Row
    BY SMTT(30), <2>2, <2>3 DEF Seen, Row
  <2>5. call' \in [Calls -> Call \cup {NoCall}]
    BY <1>7, <2>1, <2>2, <2>4 DEF ReadMeeting, Goto, Finish, Call
  <2> QED BY <1>7, <2>5 DEF ReadMeeting, serverVars, ghostVars
<1>8. ASSUME NEW c \in Calls, SaveVote(c) PROVE TypeOK'
  <2>1. call[c] \in Call /\ call[c].user \in Users
    BY <1>8 DEF SaveVote, InFlight, RowsRead
  <2>2. PICK m \in Meetings : m = call[c].meeting
    BY <2>1 DEF Call
  <2>3. voters' \in [Meetings -> SUBSET Users]
    BY <1>8, <2>1, <2>2 DEF SaveVote
  <2>4. late' \in [Meetings -> BOOLEAN]
    BY <1>8, <2>2 DEF SaveVote
  <2>5. call' \in [Calls -> Call \cup {NoCall}]
    BY <1>8 DEF SaveVote, Finish
  <2> QED BY <1>8, <2>3, <2>4, <2>5 DEF SaveVote
<1>9. ASSUME NEW c \in Calls, call[c] \in Call, NEW row \in Row, SaveRow(c, row)
      PROVE  /\ meeting' \in [Meetings -> Row] /\ raced' \in [Meetings -> BOOLEAN]
             /\ call' \in [Calls -> Call \cup {NoCall}]
  <2>1. PICK m \in Meetings : m = call[c].meeting
    BY <1>9 DEF Call
  <2> QED BY <1>9, <2>1 DEF SaveRow, Goto, Call
<1>10. ASSUME NEW c \in Calls, SaveResult(c) PROVE TypeOK'
  <2>1. call[c] \in Call /\ call[c].task \in Tasks
    BY <1>10 DEF SaveResult, InFlight, RowsRead
  <2>2. [call[c].row EXCEPT !.results = @ \cup {call[c].task}] \in Row
    BY <2>1 DEF Call, Row
  <2> QED BY <1>9, <1>10, <2>1, <2>2 DEF SaveResult
<1>11. ASSUME NEW c \in Calls, SaveClosed(c) PROVE TypeOK'
  <2>1. call[c] \in Call
    BY <1>11 DEF SaveClosed, InFlight
  <2>2. [call[c].row EXCEPT !.status = "closed"] \in Row
    BY <2>1 DEF Call, Row
  <2>3. PICK m \in Meetings : m = call[c].meeting
    BY <2>1 DEF Call
  <2>4. closings' \in [Meetings -> Nat]
    BY <1>11, <2>3 DEF SaveClosed
  <2> QED BY <1>9, <1>11, <2>1, <2>2, <2>4 DEF SaveClosed
<1>12. ASSUME NEW c \in Calls, Announce(c) PROVE TypeOK'
  <2>1. call[c] \in Call
    BY <1>12 DEF Announce
  <2>2. call[c].op = "confirm" => call[c].task \in Tasks
    BY <1>12 DEF RowsRead, Announce
  <2>3. page' \in [Pages -> Page]
    <3>1. CASE call[c].op = "confirm"
      <4> PICK t \in Tasks : t = call[c].task
        BY <2>2, <3>1
      <4> DEFINE shown == [q \in Pages |-> [page[q] EXCEPT !.confirmed = @ \cup {t}]]
      <4>1. shown \in [Pages -> Page]
        BY DEF Page
      <4>2. page' = Broadcast(call[c].meeting, shown)
        BY <1>12, <3>1 DEF Announce
      <4> QED BY <4>1, <4>2 DEF Broadcast
    <3>2. CASE call[c].op # "confirm"
      <4> DEFINE shown == [q \in Pages |-> [page[q] EXCEPT !.ended = TRUE]]
      <4>1. shown \in [Pages -> Page]
        BY ZenonT(40) DEF Page
      <4>2. page' = Broadcast(call[c].meeting, shown)
        BY <1>12, <3>2 DEF Announce
      <4> QED BY <4>1, <4>2 DEF Broadcast
    <3> QED BY <3>1, <3>2
  <2> QED BY <1>12, <2>3 DEF Announce, Finish, serverVars, ghostVars
<1>13. ASSUME NEW c \in Calls, FailCall(c) PROVE TypeOK'
  BY <1>13 DEF FailCall, Finish, serverVars, ghostVars
<1>14. CASE Restart
  BY SMTT(30), <1>14 DEF Restart, Page, serverVars, ghostVars
<1>15. CASE UNCHANGED vars
  BY <1>15 DEF vars, serverVars, ghostVars
<1> QED
  BY <1>1, <1>2, <1>3, <1>5, <1>6, <1>7, <1>8, <1>10, <1>11, <1>12, <1>13, <1>14, <1>15
  DEF Next, PageStep, Handler, Emits

\* The row of a meeting changes when it is created and when a handler saves it.
LEMMA RowFrame ==
  ASSUME TypeOK, [Next]_vars, NEW m \in Meetings
  PROVE  \/ meeting'[m] = meeting[m] /\ closings'[m] = closings[m] /\ raced'[m] = raced[m]
         \/ CreateMeeting(m)
         \/ \E c \in Calls : (SaveResult(c) \/ SaveClosed(c)) /\ call[c].meeting = m
<1> USE DEF TypeOK
<1>1. ASSUME NEW n \in Meetings, CreateMeeting(n)
      PROVE  \/ meeting'[m] = meeting[m] /\ closings'[m] = closings[m] /\ raced'[m] = raced[m]
             \/ CreateMeeting(m)
  BY <1>1 DEF CreateMeeting, ghostVars
<1>2. ASSUME NEW p \in Pages, PageStep(p)
      PROVE  meeting' = meeting /\ closings' = closings /\ raced' = raced
  BY <1>2 DEF PageStep, LoadPage, JoinRoom, LoseConnection, LeavePage, Depart, EmitVote, EmitConfirm,
     EmitEnd, Emit, serverVars, ghostVars
<1>3. ASSUME NEW c \in Calls, ReadMeeting(c) \/ SaveVote(c) \/ Announce(c) \/ FailCall(c)
      PROVE  meeting' = meeting /\ closings' = closings /\ raced' = raced
  BY <1>3 DEF ReadMeeting, SaveVote, Announce, FailCall, serverVars, ghostVars
<1>4. ASSUME NEW c \in Calls, SaveResult(c) \/ SaveClosed(c), call[c].meeting # m
      PROVE  meeting'[m] = meeting[m] /\ closings'[m] = closings[m] /\ raced'[m] = raced[m]
  BY <1>4 DEF SaveResult, SaveClosed, SaveRow
<1>5. CASE Restart \/ UNCHANGED vars
  BY <1>5 DEF Restart, vars, serverVars, ghostVars
<1> QED
  BY <1>1, <1>2, <1>3, <1>4, <1>5 DEF Next, Handler

\* The votes of a meeting change when one is saved.
LEMMA VoteFrame ==
  ASSUME TypeOK, [Next]_vars, NEW m \in Meetings
  PROVE  \/ voters'[m] = voters[m] /\ late'[m] = late[m]
         \/ \E c \in Calls : SaveVote(c) /\ call[c].meeting = m
<1> USE DEF TypeOK
<1>1. ASSUME NEW p \in Pages, PageStep(p)
      PROVE  voters' = voters /\ late' = late
  BY <1>1 DEF PageStep, LoadPage, JoinRoom, LoseConnection, LeavePage, Depart, EmitVote, EmitConfirm,
     EmitEnd, Emit, serverVars, ghostVars
<1>2. ASSUME NEW c \in Calls,
             ReadMeeting(c) \/ Announce(c) \/ FailCall(c) \/ SaveResult(c) \/ SaveClosed(c)
      PROVE  voters' = voters /\ late' = late
  BY <1>2 DEF ReadMeeting, Announce, FailCall, SaveResult, SaveClosed, serverVars, ghostVars
<1>3. ASSUME NEW c \in Calls, SaveVote(c), call[c].meeting # m
      PROVE  voters'[m] = voters[m] /\ late'[m] = late[m]
  BY <1>3 DEF SaveVote
<1>4. CASE (\E n \in Meetings : CreateMeeting(n)) \/ Restart \/ UNCHANGED vars
  BY <1>4 DEF CreateMeeting, Restart, vars, serverVars, ghostVars
<1> QED
  BY <1>1, <1>2, <1>3, <1>4 DEF Next, Handler

\* What a handler may become in a step: it ends, stays, starts, has read its row, or has saved.
Started(c) ==
  \E p \in Pages, op \in {"vote", "confirm", "end"}, t \in Tasks \cup {NoTask}, u \in Users \cup {Nobody} :
    /\ page[p].at = "joined"
    /\ op = "vote" => u \in Users
    /\ op = "confirm" => t \in Tasks
    /\ call'[c] = [op |-> op, step |-> "check", meeting |-> At(p), task |-> t, user |-> u, row |-> NoMeeting]
HasRead(c) ==
  /\ call[c] # NoCall /\ call[c] \in Call /\ UNCHANGED voters
  /\ Accepts(call[c].op, meeting[call[c].meeting])
  /\ call'[c] = [call[c] EXCEPT !.step = "save", !.row = Seen(c, meeting[call[c].meeting])]
HasSaved(c) ==
  /\ SaveResult(c) \/ SaveClosed(c)
  /\ call[c] \in Call
  /\ \E row \in Row :
       /\ meeting'[call[c].meeting] = row
       /\ call'[c] = [call[c] EXCEPT !.step = "announce", !.row = row]

LEMMA CallFrame ==
  ASSUME TypeOK, RowsRead, [Next]_vars, NEW c \in Calls
  PROVE  call'[c] = NoCall \/ call'[c] = call[c] \/ Started(c) \/ HasRead(c) \/ HasSaved(c)
<1> USE DEF TypeOK
<1>1. ASSUME NEW p \in Pages, NEW d \in Calls, Emits(p, d)
      PROVE  call'[c] = call[c] \/ Started(c)
  <2>1. PICK op \in {"vote", "confirm", "end"}, t \in Tasks \cup {NoTask}, u \in Users \cup {Nobody} :
          Emit(p, d, op, t, u) /\ (op = "vote" => u \in Users) /\ (op = "confirm" => t \in Tasks)
    BY <1>1, EmitIs
  <2>2. CASE c # d
    BY <2>1, <2>2 DEF Emit
  <2>3. CASE c = d
    <3>1. page[p].at = "joined"
      BY <2>1 DEF Emit
    <3>2. call'[c] = [op |-> op, step |-> "check", meeting |-> At(p), task |-> t, user |-> u, row |-> NoMeeting]
      BY <2>1, <2>3 DEF Emit
    <3> QED BY <2>1, <3>1, <3>2 DEF Started
  <2> QED BY <2>2, <2>3
<1>2. ASSUME NEW p \in Pages,
             LoadPage(p) \/ JoinRoom(p) \/ LoseConnection(p) \/ LeavePage(p)
      PROVE  call' = call
  BY <1>2 DEF LoadPage, JoinRoom, LoseConnection, LeavePage, Depart
<1>3. ASSUME NEW d \in Calls, ReadMeeting(d)
      PROVE  call'[c] = NoCall \/ call'[c] = call[c] \/ HasRead(c)
  BY <1>3 DEF ReadMeeting, HasRead, Finish, Goto, serverVars
<1>4. ASSUME NEW d \in Calls, SaveVote(d) \/ Announce(d) \/ FailCall(d)
      PROVE  call'[c] = NoCall \/ call'[c] = call[c]
  BY <1>4 DEF SaveVote, Announce, FailCall, Finish
<1>5. ASSUME NEW d \in Calls, NEW row \in Row, call[d] \in Call, SaveRow(d, row)
      PROVE  /\ c # d => call'[c] = call[c]
             /\ c = d => /\ meeting'[call[c].meeting] = row
                         /\ call'[c] = [call[c] EXCEPT !.step = "announce", !.row = row]
  <2>1. call[d].meeting \in Meetings
    BY <1>5 DEF Call
  <2> QED BY <1>5, <2>1 DEF SaveRow, Goto
<1>6. ASSUME NEW d \in Calls, SaveResult(d) \/ SaveClosed(d)
      PROVE  call'[c] = call[c] \/ HasSaved(c)
  <2>1. call[d] \in Call /\ call[d].row \in Row
    BY <1>6 DEF SaveResult, SaveClosed, InFlight, Call
  <2>2. PICK row \in Row : SaveRow(d, row)
    <3>1. CASE SaveResult(d)
      <4>1. call[d].task \in Tasks
        BY <3>1 DEF SaveResult, InFlight, RowsRead
      <4>2. [call[d].row EXCEPT !.results = @ \cup {call[d].task}] \in Row
        BY <2>1, <4>1 DEF Row
      <4> QED BY <3>1, <4>2 DEF SaveResult
    <3>2. CASE SaveClosed(d)
      <4>1. [call[d].row EXCEPT !.status = "closed"] \in Row
        BY <2>1 DEF Row
      <4> QED BY <3>2, <4>1 DEF SaveClosed
    <3> QED BY <1>6, <3>1, <3>2
  <2> QED BY <1>5, <1>6, <2>1, <2>2 DEF HasSaved
<1>7. CASE (\E n \in Meetings : CreateMeeting(n)) \/ Restart \/ UNCHANGED vars
  BY <1>7 DEF CreateMeeting, Restart, vars
<1> QED
  BY <1>1, <1>2, <1>3, <1>4, <1>6, <1>7 DEF Next, PageStep, Handler, Emits

\* A meeting that exists stays, and a race is not forgotten.
LEMMA MeetingStays ==
  ASSUME TypeOK, RowsRead, [Next]_vars, NEW m \in Meetings
  PROVE  /\ meeting[m].status # "absent" => meeting'[m].status # "absent"
         /\ raced[m] => raced'[m]
         /\ late[m] => late'[m]
<1> USE DEF TypeOK
<1>1. CASE meeting'[m] = meeting[m] /\ raced'[m] = raced[m]
  <2>1. late[m] => late'[m]
    BY VoteFrame DEF SaveVote
  <2> QED BY <1>1, <2>1
<1>2. CASE CreateMeeting(m)
  BY <1>2 DEF CreateMeeting, ghostVars
<1>3. ASSUME NEW c \in Calls, SaveResult(c) \/ SaveClosed(c), call[c].meeting = m
      PROVE  /\ meeting'[m].status # "absent"
             /\ raced[m] => raced'[m]
             /\ late' = late
  <2>1. call[c] \in Call /\ call[c].row \in Row /\ call[c].row.status # "absent"
    BY <1>3 DEF RowsRead, SaveResult, SaveClosed, InFlight, Call
  <2>2. raced[m] => raced'[m]
    BY <1>3 DEF SaveResult, SaveClosed, SaveRow
  <2>3. CASE SaveResult(c)
    <3>1. meeting'[m] = [call[c].row EXCEPT !.results = @ \cup {call[c].task}]
      BY <1>3, <2>3 DEF SaveResult, SaveRow
    <3>2. meeting'[m].status = call[c].row.status
      BY <2>1, <3>1 DEF Row
    <3> QED BY <2>1, <2>2, <2>3, <3>2 DEF SaveResult
  <2>4. CASE SaveClosed(c)
    <3>1. meeting'[m] = [call[c].row EXCEPT !.status = "closed"]
      BY <1>3, <2>4 DEF SaveClosed, SaveRow
    <3>2. meeting'[m].status = "closed"
      BY <2>1, <3>1 DEF Row
    <3> QED BY <2>2, <2>4, <3>2 DEF SaveClosed
  <2> QED BY <1>3, <2>3, <2>4
<1> QED BY <1>1, <1>2, <1>3, RowFrame

\* What a page may show after a step.
LEMMA PageFrame ==
  ASSUME TypeOK, [Next]_vars, NEW p \in Pages
  PROVE  \/ page'[p].at = page[p].at /\ page'[p].confirmed = page[p].confirmed
         \/ LoadPage(p)
         \/ page[p].at # "away" /\ page'[p].at # "away" /\ page'[p].confirmed = page[p].confirmed
         \/ page'[p].at = "away" /\ page'[p].confirmed = {}
         \/ \E c \in Calls :
              /\ Announce(c) /\ call[c].op = "confirm" /\ call[c].meeting = At(p)
              /\ page'[p].at = page[p].at /\ page[p].at # "away"
              /\ page'[p].confirmed = page[p].confirmed \cup {call[c].task}
<1> USE DEF TypeOK
<1> DEFINE Same    == page'[p].at = page[p].at /\ page'[p].confirmed = page[p].confirmed
           Stays   == page[p].at # "away" /\ page'[p].at # "away" /\ page'[p].confirmed = page[p].confirmed
           Left    == page'[p].at = "away" /\ page'[p].confirmed = {}
<1>0. page[p] \in Page
  OBVIOUS
<1>1. ASSUME NEW q \in Pages, LoadPage(q)
      PROVE  Same \/ LoadPage(p)
  BY <1>1 DEF LoadPage
<1>2. ASSUME NEW q \in Pages, JoinRoom(q)
      PROVE  Same \/ Stays
  BY <1>0, <1>2 DEF JoinRoom, Page
<1>3. ASSUME NEW q \in Pages, LoseConnection(q)
      PROVE  Same \/ Stays
  BY <1>0, <1>3 DEF LoseConnection, Depart, Page
<1>4. ASSUME NEW q \in Pages, LeavePage(q)
      PROVE  Same \/ Left
  BY <1>0, <1>4 DEF LeavePage, Depart, Page, Unmounted
<1>5. ASSUME NEW q \in Pages, NEW c \in Calls, Emits(q, c)
      PROVE  page' = page
  BY <1>5 DEF Emits, EmitVote, EmitConfirm, EmitEnd, Emit
<1>6. ASSUME NEW c \in Calls, Announce(c)
      PROVE  \/ Same
             \/ /\ Announce(c) /\ call[c].op = "confirm" /\ call[c].meeting = At(p)
                /\ page'[p].at = page[p].at /\ page[p].at # "away"
                /\ page'[p].confirmed = page[p].confirmed \cup {call[c].task}
  <2>1. CASE p \notin Joined(call[c].meeting)
    BY <1>6, <2>1 DEF Announce, Broadcast
  <2>2. CASE p \in Joined(call[c].meeting) /\ call[c].op = "confirm"
    <3>1. page'[p] = [page[p] EXCEPT !.confirmed = @ \cup {call[c].task}]
      BY <1>6, <2>2 DEF Announce, Broadcast
    <3> QED BY <1>0, <1>6, <2>2, <3>1 DEF Joined, Page
  <2>3. CASE p \in Joined(call[c].meeting) /\ call[c].op # "confirm"
    <3>1. page'[p] = [page[p] EXCEPT !.ended = TRUE]
      BY <1>6, <2>3 DEF Announce, Broadcast
    <3> QED BY <1>0, <3>1 DEF Page
  <2> QED BY <2>1, <2>2, <2>3
<1>7. ASSUME NEW c \in Calls,
             ReadMeeting(c) \/ SaveVote(c) \/ SaveResult(c) \/ SaveClosed(c) \/ FailCall(c)
      PROVE  page' = page
  BY <1>7 DEF ReadMeeting, SaveVote, SaveResult, SaveClosed, FailCall
<1>8. CASE Restart
  BY <1>0, <1>8 DEF Restart, Page
<1>9. CASE (\E n \in Meetings : CreateMeeting(n)) \/ UNCHANGED vars
  BY <1>9 DEF CreateMeeting, vars
<1> QED
  BY <1>1, <1>2, <1>3, <1>4, <1>5, <1>6, <1>7, <1>8, <1>9 DEF Next, PageStep, Handler, Emits

\* The row that a handler goes on with has the status that was read.
LEMMA SeenIs ==
  ASSUME TypeOK, NEW c \in Calls, NEW m \in Meetings, m = call[c].meeting
  PROVE  /\ Seen(c, meeting[m]) \in Row
         /\ Seen(c, meeting[m]).status = meeting[m].status
         /\ Seen(c, meeting[m]).results = meeting[m].results
         /\ call[c].op = "end" => Seen(c, meeting[m]).participants = Cardinality(voters[m])
         /\ call[c].op # "end" => Seen(c, meeting[m]) = meeting[m]
<1> PICK n \in Nat : n = Cardinality(voters[m])
  BY Countable DEF TypeOK
<1>1. PICK row \in Row : row = meeting[m]
  BY DEF TypeOK
<1>2. CASE call[c].op = "end"
  <2>1. Seen(c, row) = [row EXCEPT !.participants = n]
    BY <1>2 DEF Seen
  <2> QED BY <1>1, <1>2, <2>1 DEF Row
<1>3. CASE call[c].op # "end"
  BY <1>1, <1>3 DEF Seen
<1> QED BY <1>2, <1>3

LEMMA RowsReadStep ==
  ASSUME TypeOK, RowsRead, [Next]_vars
  PROVE  RowsRead'
<1>1. ASSUME NEW c \in Calls, call'[c] # NoCall
      PROVE  /\ meeting'[call'[c].meeting].status # "absent"
             /\ call'[c].step # "check" => call'[c].row.status # "absent"
             /\ call'[c].step = "save" /\ call'[c].op # "confirm" => call'[c].row.status = "open"
             /\ call'[c].op = "vote" => call'[c].user \in Users
             /\ call'[c].op = "confirm" => call'[c].task \in Tasks
  <2>1. CASE call'[c] = call[c]
    <3>1. call[c] \in Call
      BY <1>1, <2>1 DEF TypeOK
    <3>2. PICK m \in Meetings : m = call[c].meeting
      BY <3>1 DEF Call
    <3>3. meeting'[m].status # "absent"
      BY <1>1, <2>1, <3>2, MeetingStays DEF RowsRead
    <3> QED BY <1>1, <2>1, <3>2, <3>3 DEF RowsRead
  <2>2. CASE Started(c)
    <3>1. PICK p \in Pages, op \in {"vote", "confirm", "end"}, t \in Tasks \cup {NoTask}, u \in Users \cup {Nobody} :
            /\ page[p].at = "joined"
            /\ op = "vote" => u \in Users
            /\ op = "confirm" => t \in Tasks
            /\ call'[c] = [op |-> op, step |-> "check", meeting |-> At(p), task |-> t, user |-> u, row |-> NoMeeting]
      BY <2>2 DEF Started
    <3>2. PICK m \in Meetings : m = At(p)
      BY PageMeets
    <3>3. meeting[m].status # "absent"
      BY <3>1, <3>2 DEF RowsRead
    <3>4. meeting'[m].status # "absent"
      BY <3>3, MeetingStays
    <3> QED BY <3>1, <3>2, <3>4
  <2>3. CASE HasRead(c)
    <3>1. call[c] \in Call
      BY <2>3 DEF HasRead
    <3>2. PICK m \in Meetings : m = call[c].meeting
      BY <3>1 DEF Call
    <3>3. PICK row \in Row : row = Seen(c, meeting[m]) /\ row.status = meeting[m].status
      BY <3>2, SeenIs
    <3>4. call'[c] = [call[c] EXCEPT !.step = "save", !.row = row]
      BY <2>3, <3>2, <3>3 DEF HasRead
    <3>5. /\ call'[c].meeting = m /\ call'[c].step = "save" /\ call'[c].row = row
          /\ call'[c].op = call[c].op /\ call'[c].user = call[c].user /\ call'[c].task = call[c].task
      BY <3>1, <3>2, <3>4 DEF Call
    <3>6. call[c] # NoCall
      BY <2>3 DEF HasRead
    <3>7. meeting[m].status # "absent" /\ meeting'[m].status # "absent"
      BY <3>2, <3>6, MeetingStays DEF RowsRead
    <3>8. call[c].op # "confirm" => meeting[m].status = "open"
      BY <2>3, <3>2 DEF HasRead, Accepts
    <3> QED BY <3>3, <3>5, <3>6, <3>7, <3>8 DEF RowsRead
  <2>4. CASE HasSaved(c)
    <3>1. call[c] \in Call /\ call[c] # NoCall
      BY <2>4 DEF HasSaved, SaveResult, SaveClosed, InFlight
    <3>2. PICK row \in Row :
            /\ meeting'[call[c].meeting] = row
            /\ call'[c] = [call[c] EXCEPT !.step = "announce", !.row = row]
      BY <2>4 DEF HasSaved
    <3>3. /\ call'[c].meeting = call[c].meeting /\ call'[c].step = "announce" /\ call'[c].row = row
          /\ call'[c].op = call[c].op /\ call'[c].user = call[c].user /\ call'[c].task = call[c].task
      BY <3>1, <3>2 DEF Call
    <3>4. PICK m \in Meetings : m = call[c].meeting
      BY <3>1 DEF Call
    <3>5. meeting'[m].status # "absent"
      BY <3>1, <3>4, MeetingStays DEF RowsRead
    <3> QED BY <3>1, <3>2, <3>3, <3>4, <3>5 DEF RowsRead
  <2> QED BY <1>1, <2>1, <2>2, <2>3, <2>4, CallFrame
<1>2. ASSUME NEW p \in Pages, page'[p].at # "away"
      PROVE  meeting'[At(p)].status # "absent"
  <2> PICK m \in Meetings : m = At(p)
    BY PageMeets
  <2>1. meeting[m].status # "absent"
    BY <1>2, PageFrame DEF RowsRead, LoadPage
  <2> QED BY <2>1, MeetingStays
<1> QED BY <1>1, <1>2, PageMeets DEF RowsRead, At

\* A save that overwrites nothing newer changes what it is meant to change and no more.
LEMMA UnracedSave ==
  ASSUME TypeOK, RowsRead, NEW c \in Calls, SaveResult(c) \/ SaveClosed(c),
         NEW m \in Meetings, m = call[c].meeting, ~raced'[m]
  PROVE  /\ ~raced[m]
         /\ SaveResult(c) =>
              /\ meeting'[m].status = meeting[m].status
              /\ meeting'[m].participants = meeting[m].participants
              /\ meeting'[m].results = meeting[m].results \cup {call[c].task}
         /\ SaveClosed(c) =>
              /\ meeting[m].status = "open" /\ meeting'[m].status = "closed"
              /\ meeting'[m].participants = call[c].row.participants
              /\ meeting'[m].results = meeting[m].results
<1>1. call[c] \in Call /\ call[c] # NoCall
  BY DEF TypeOK, SaveResult, SaveClosed, InFlight
<1>2. PICK row \in Row : row = call[c].row
  BY <1>1 DEF Call
<1>3. meeting[m] \in Row
  BY DEF TypeOK
<1>4. CASE SaveResult(c)
  <2>1. call[c].op = "confirm"
    BY <1>4 DEF SaveResult, InFlight
  <2>2. /\ meeting'[m] = [row EXCEPT !.results = @ \cup {call[c].task}]
        /\ raced'[m] = (raced[m] \/ meeting[m] # row)
    BY <1>2, <1>4, <2>1 DEF SaveResult, SaveRow, TypeOK
  <2>3. ~raced[m] /\ meeting[m] = row
    BY <2>2
  <2>4. ~SaveClosed(c)
    BY <2>1 DEF SaveClosed, InFlight
  <2> QED BY <1>2, <2>2, <2>3, <2>4 DEF Row
<1>5. CASE SaveClosed(c)
  <2>1. call[c].op = "end"
    BY <1>5 DEF SaveClosed, InFlight
  <2>2. row.status = "open"
    BY <1>1, <1>2, <1>5, <2>1 DEF SaveClosed, InFlight, RowsRead
  <2>3. /\ meeting'[m] = [row EXCEPT !.status = "closed"]
        /\ raced'[m] = (raced[m] \/ meeting[m] # [row EXCEPT !.participants = meeting[m].participants])
    BY <1>2, <1>5, <2>1 DEF SaveClosed, SaveRow, TypeOK
  <2>4. ~raced[m] /\ meeting[m] = [row EXCEPT !.participants = meeting[m].participants]
    BY <2>3
  <2>5. meeting[m].status = row.status /\ meeting[m].results = row.results
    BY <1>2, <1>3, <2>4 DEF Row
  <2>6. ~SaveResult(c)
    BY <2>1 DEF SaveResult, InFlight
  <2> QED BY <1>2, <2>2, <2>3, <2>4, <2>5, <2>6 DEF Row
<1> QED BY <1>4, <1>5

\* Without a race, a meeting is closed exactly when one handler has closed it.
ClosedByOne ==
  \A m \in Meetings : ~raced[m] =>
    closings[m] = (IF meeting[m].status = "closed" THEN 1 ELSE 0)

LEMMA ClosedStep ==
  ASSUME TypeOK, RowsRead, ClosedByOne, [Next]_vars
  PROVE  ClosedByOne'
<1> SUFFICES ASSUME NEW m \in Meetings, ~raced'[m]
             PROVE  closings'[m] = (IF meeting'[m].status = "closed" THEN 1 ELSE 0)
  BY DEF ClosedByOne
<1>1. ~raced[m]
  BY MeetingStays
<1>2. CASE CreateMeeting(m)
  <2>1. PICK pending \in SUBSET Tasks :
          meeting'[m] = [NoMeeting EXCEPT !.status = "open", !.tasks = pending]
    BY <1>2 DEF CreateMeeting, TypeOK
  <2>2. meeting'[m].status = "open"
    BY <2>1 DEF NoMeeting
  <2> QED BY <1>1, <1>2, <2>2 DEF CreateMeeting, ClosedByOne, TypeOK
<1>3. ASSUME NEW c \in Calls, SaveResult(c), call[c].meeting = m
      PROVE  closings'[m] = (IF meeting'[m].status = "closed" THEN 1 ELSE 0)
  BY <1>1, <1>3, UnracedSave DEF SaveResult, ClosedByOne
<1>4. ASSUME NEW c \in Calls, SaveClosed(c), call[c].meeting = m
      PROVE  closings'[m] = (IF meeting'[m].status = "closed" THEN 1 ELSE 0)
  <2>1. meeting[m].status = "open" /\ meeting'[m].status = "closed"
    BY <1>4, UnracedSave
  <2>2. closings[m] = 0
    BY <1>1, <2>1 DEF ClosedByOne
  <2> QED BY <1>4, <2>1, <2>2 DEF SaveClosed, TypeOK
<1> QED BY <1>1, <1>2, <1>3, <1>4, RowFrame DEF ClosedByOne

\* What a handler is about to announce as confirmed, and what the pages show so, is stored.
ResultsTold ==
  /\ \A c \in Calls : call[c] # NoCall /\ call[c].op = "confirm" /\ call[c].step = "announce" =>
       call[c].task \in meeting[call[c].meeting].results \/ raced[call[c].meeting]
  /\ \A p \in Pages : page[p].at = "away" => page[p].confirmed = {}
  /\ ConfirmedIsRecorded

\* Without a race, results only grow.
LEMMA ResultsStay ==
  ASSUME TypeOK, RowsRead, [Next]_vars, NEW m \in Meetings, ~raced'[m], meeting[m].status # "absent"
  PROVE  meeting[m].results \subseteq meeting'[m].results
<1>1. CASE CreateMeeting(m)
  BY <1>1 DEF CreateMeeting
<1>2. ASSUME NEW c \in Calls, SaveResult(c) \/ SaveClosed(c), call[c].meeting = m
      PROVE  meeting[m].results \subseteq meeting'[m].results
  BY <1>2, UnracedSave
<1> QED BY <1>1, <1>2, RowFrame

LEMMA ResultsStep ==
  ASSUME TypeOK, RowsRead, ResultsTold, [Next]_vars
  PROVE  ResultsTold'
<1>1. ASSUME NEW c \in Calls, call'[c] # NoCall, call'[c].op = "confirm", call'[c].step = "announce",
             NEW m \in Meetings, m = call'[c].meeting, ~raced'[m]
      PROVE  call'[c].task \in meeting'[m].results
  <2>1. CASE call'[c] = call[c]
    <3>1. meeting[m].status # "absent" /\ ~raced[m]
      BY <1>1, <2>1, MeetingStays DEF RowsRead
    <3>2. call[c].task \in meeting[m].results
      BY <1>1, <2>1, <3>1 DEF ResultsTold
    <3> QED BY <1>1, <2>1, <3>1, <3>2, ResultsStay
  <2>2. CASE Started(c)
    BY <1>1, <2>2 DEF Started
  <2>3. CASE HasRead(c)
    BY <1>1, <2>3 DEF HasRead, Call
  <2>4. CASE HasSaved(c)
    <3>1. call[c] \in Call
      BY <2>4 DEF HasSaved
    <3>2. PICK row \in Row : call'[c] = [call[c] EXCEPT !.step = "announce", !.row = row]
      BY <2>4 DEF HasSaved
    <3>3. call'[c].op = call[c].op /\ call'[c].task = call[c].task /\ call'[c].meeting = call[c].meeting
      BY <3>1, <3>2 DEF Call
    <3>4. SaveResult(c)
      BY <1>1, <2>4, <3>3 DEF HasSaved, SaveClosed, InFlight
    <3> QED BY <1>1, <3>3, <3>4, UnracedSave
  <2> QED BY <1>1, <2>1, <2>2, <2>3, <2>4, CallFrame
<1>2. ASSUME NEW p \in Pages, page'[p].at = "away"
      PROVE  page'[p].confirmed = {}
  <2>1. CASE LoadPage(p)
    BY <1>2, <2>1 DEF LoadPage, TypeOK
  <2> QED BY <1>2, <2>1, PageFrame DEF ResultsTold
<1>3. ASSUME NEW p \in Pages, NEW m \in Meetings, m = At(p), ~raced'[m]
      PROVE  page'[p].confirmed \subseteq meeting'[m].results
  <2>1. ~raced[m]
    BY <1>3, MeetingStays
  <2>2. page[p].confirmed \subseteq meeting'[m].results
    <3>1. CASE page[p].at = "away"
      BY <3>1 DEF ResultsTold
    <3>2. CASE page[p].at # "away"
      <4>1. meeting[m].status # "absent"
        BY <1>3, <3>2 DEF RowsRead
      <4>2. page[p].confirmed \subseteq meeting[m].results
        BY <1>3, <2>1 DEF ResultsTold, ConfirmedIsRecorded
      <4> QED BY <1>3, <4>1, <4>2, ResultsStay
    <3> QED BY <3>1, <3>2
  <2>3. CASE LoadPage(p)
    <3>1. page'[p].confirmed = meeting[m].results /\ meeting' = meeting
      BY <1>3, <2>3 DEF LoadPage, serverVars, TypeOK
    <3> QED BY <3>1
  <2>4. ASSUME NEW c \in Calls, Announce(c), call[c].op = "confirm", call[c].meeting = m
        PROVE  call[c].task \in meeting'[m].results
    BY <2>1, <2>4 DEF Announce, serverVars, ResultsTold
  <2> QED BY <1>3, <2>2, <2>3, <2>4, PageFrame
<1>4. ConfirmedIsRecorded'
  <2> SUFFICES ASSUME NEW p \in Pages
               PROVE  page'[p].confirmed \subseteq meeting'[PageMeeting[p]].results \/ raced'[PageMeeting[p]]
    BY DEF ConfirmedIsRecorded, At
  <2> QED BY <1>3, PageMeets DEF At
<1>5. ASSUME NEW c \in Calls, call'[c] # NoCall, call'[c].op = "confirm", call'[c].step = "announce"
      PROVE  call'[c].task \in meeting'[call'[c].meeting].results \/ raced'[call'[c].meeting]
  <2>1. TypeOK'
    BY MeetingTypeStep
  <2>2. call'[c].meeting \in Meetings
    BY <1>5, <2>1 DEF TypeOK, Call
  <2> QED BY <1>1, <1>5, <2>2
<1> QED BY <1>2, <1>4, <1>5 DEF ResultsTold

\* A handler that is closing a meeting holds the number of its voters.
CountInHand ==
  \A c \in Calls : InFlight(c, "end", "save") =>
    call[c].row.participants = Cardinality(voters[call[c].meeting]) \/ late[call[c].meeting]

LEMMA LateVote ==
  ASSUME TypeOK, RowsRead, NEW c \in Calls, SaveVote(c), NEW m \in Meetings, m = call[c].meeting, Closing(m)
  PROVE  late'[m]
<1>1. call[c].row.status = "open"
  BY DEF SaveVote, InFlight, RowsRead
<1> QED BY <1>1 DEF SaveVote, TypeOK

LEMMA CountInHandStep ==
  ASSUME TypeOK, RowsRead, CountInHand, [Next]_vars
  PROVE  CountInHand'
<1> SUFFICES ASSUME NEW c \in Calls, call'[c] # NoCall, call'[c].op = "end", call'[c].step = "save"
             PROVE  call'[c].row.participants = Cardinality(voters'[call'[c].meeting]) \/ late'[call'[c].meeting]
  BY DEF CountInHand, InFlight
<1>1. CASE call'[c] = call[c]
  <2>1. call[c] \in Call
    BY <1>1 DEF TypeOK
  <2>2. PICK m \in Meetings : m = call[c].meeting
    BY <2>1 DEF Call
  <2>3. call[c].row.participants = Cardinality(voters[m]) \/ late[m]
    BY <1>1, <2>2 DEF CountInHand, InFlight
  <2>4. CASE voters'[m] = voters[m] /\ late'[m] = late[m]
    BY <1>1, <2>2, <2>3, <2>4
  <2>5. ASSUME NEW d \in Calls, SaveVote(d), call[d].meeting = m
        PROVE  late'[m]
    <3>1. Closing(m)
      BY <1>1, <2>2 DEF Closing, InFlight
    <3> QED BY <2>5, <3>1, LateVote
  <2> QED BY <1>1, <2>2, <2>4, <2>5, VoteFrame
<1>2. CASE Started(c)
  BY <1>2 DEF Started
<1>3. CASE HasRead(c)
  <2>1. PICK m \in Meetings : m = call[c].meeting
    BY <1>3 DEF HasRead, Call
  <2>2. PICK row \in Row : row = Seen(c, meeting[m])
    BY <2>1, SeenIs
  <2>3. call'[c] = [call[c] EXCEPT !.step = "save", !.row = row] /\ voters' = voters /\ call[c] \in Call
    BY <1>3, <2>1, <2>2 DEF HasRead
  <2>4. call'[c].row = row /\ call'[c].meeting = m /\ call[c].op = "end"
    BY <2>1, <2>3 DEF Call
  <2> QED BY <2>1, <2>2, <2>3, <2>4, SeenIs
<1>4. CASE HasSaved(c)
  BY <1>4 DEF HasSaved, Call
<1> QED BY <1>1, <1>2, <1>3, <1>4, CallFrame

LEMMA VotersStep ==
  ASSUME TypeOK, RowsRead, CountInHand, [Next]_vars, NEW m \in Meetings, VotersCounted(m)
  PROVE  VotersCounted(m)'
<1> SUFFICES ASSUME meeting'[m].status = "closed", ~raced'[m], ~late'[m]
             PROVE  meeting'[m].participants = Cardinality(voters'[m])
  BY DEF VotersCounted
<1>1. ~raced[m] /\ ~late[m]
  BY MeetingStays
<1>2. CASE meeting'[m] = meeting[m]
  <2>1. voters'[m] = voters[m]
    <3>1. ASSUME NEW c \in Calls, SaveVote(c), call[c].meeting = m
          PROVE  FALSE
      BY <1>2, <3>1, LateVote DEF Closing
    <3> QED BY <3>1, VoteFrame
  <2> QED BY <1>1, <1>2, <2>1 DEF VotersCounted
<1>3. CASE CreateMeeting(m)
  <2>1. PICK pending \in SUBSET Tasks :
          meeting'[m] = [NoMeeting EXCEPT !.status = "open", !.tasks = pending]
    BY <1>3 DEF CreateMeeting, TypeOK
  <2> QED BY <2>1 DEF NoMeeting
<1>4. ASSUME NEW c \in Calls, SaveResult(c), call[c].meeting = m
      PROVE  meeting'[m].participants = Cardinality(voters'[m])
  BY <1>1, <1>4, UnracedSave DEF SaveResult, VotersCounted
<1>5. ASSUME NEW c \in Calls, SaveClosed(c), call[c].meeting = m
      PROVE  meeting'[m].participants = Cardinality(voters'[m])
  BY <1>1, <1>5, UnracedSave DEF SaveClosed, CountInHand
<1> QED BY <1>2, <1>3, <1>4, <1>5, RowFrame

\* Everybody in a room has a page in it, and all these pages show the size of the room.
RoomShown ==
  /\ \A m \in Meetings : \A u \in room[m] :
       \E q \in Pages : page[q].at = "joined" /\ PageMeeting[q] = m /\ PageUser[q] = u
  /\ \A p \in Pages : page[p].at = "joined" => page[p].count = Cardinality(room[PageMeeting[p]])

LEMMA RoomFrame ==
  ASSUME TypeOK, [Next]_vars
  PROVE  \/ /\ room' = room
            /\ \A q \in Pages : /\ page'[q].at = "joined" <=> page[q].at = "joined"
                                /\ page'[q].at = "joined" => page'[q].count = page[q].count
         \/ \E p \in Pages : JoinRoom(p) \/ LoseConnection(p) \/ LeavePage(p)
         \/ Restart
<1> USE DEF TypeOK
<1> DEFINE Same == /\ room' = room
                   /\ \A q \in Pages : /\ page'[q].at = "joined" <=> page[q].at = "joined"
                                       /\ page'[q].at = "joined" => page'[q].count = page[q].count
<1>1. ASSUME NEW p \in Pages, LoadPage(p) PROVE Same
  BY <1>1 DEF LoadPage
<1>2. ASSUME NEW p \in Pages, NEW c \in Calls, Emits(p, c) PROVE Same
  BY <1>2 DEF Emits, EmitVote, EmitConfirm, EmitEnd, Emit
<1>3. ASSUME NEW c \in Calls, Announce(c) PROVE Same
  <2>1. room' = room
    BY <1>3 DEF Announce
  <2>2. ASSUME NEW q \in Pages
        PROVE  page'[q].at = page[q].at /\ page'[q].count = page[q].count
    <3>1. page[q] \in Page
      OBVIOUS
    <3>2. \/ page'[q] = page[q]
          \/ page'[q] = [page[q] EXCEPT !.confirmed = @ \cup {call[c].task}]
          \/ page'[q] = [page[q] EXCEPT !.ended = TRUE]
      BY <1>3 DEF Announce, Broadcast
    <3> QED BY <3>1, <3>2 DEF Page
  <2> QED BY <2>1, <2>2
<1>4. ASSUME NEW c \in Calls,
             ReadMeeting(c) \/ SaveVote(c) \/ SaveResult(c) \/ SaveClosed(c) \/ FailCall(c)
      PROVE  Same
  BY <1>4 DEF ReadMeeting, SaveVote, SaveResult, SaveClosed, FailCall
<1>5. ASSUME (\E n \in Meetings : CreateMeeting(n)) \/ UNCHANGED vars
      PROVE  Same
  BY <1>5 DEF CreateMeeting, vars
<1> HIDE DEF Same
<1>6. Same \/ (\E p \in Pages : JoinRoom(p) \/ LoseConnection(p) \/ LeavePage(p)) \/ Restart
  <2>1. ASSUME NEW p \in Pages, PageStep(p)
        PROVE  Same \/ JoinRoom(p) \/ LoseConnection(p) \/ LeavePage(p)
    BY <1>1, <1>2, <2>1 DEF PageStep, Emits
  <2>2. ASSUME NEW c \in Calls, Handler(c) \/ FailCall(c)
        PROVE  Same
    BY <1>3, <1>4, <2>2 DEF Handler
  <2> QED BY <1>5, <2>1, <2>2 DEF Next
<1> QED BY <1>6 DEF Same

LEMMA RoomStep ==
  ASSUME TypeOK, RoomShown, [Next]_vars
  PROVE  RoomShown'
<1> USE DEF TypeOK
<1>0. \A q \in Pages : page[q] \in Page /\ PageMeeting[q] \in Meetings /\ PageUser[q] \in Users
  BY PagesAssumption
<1>1. ASSUME NEW p \in Pages, JoinRoom(p) PROVE RoomShown'
  <2> DEFINE here == room[PageMeeting[p]] \cup {PageUser[p]}
  <2> PICK n : n = Cardinality(here)
    OBVIOUS
  <2>1. room' = [room EXCEPT ![PageMeeting[p]] = here]
    BY <1>1 DEF JoinRoom, At
  <2>2. page' = [q \in Pages |->
          IF q = p THEN [page[p] EXCEPT !.at = "joined", !.count = n]
          ELSE IF page[q].at = "joined" /\ PageMeeting[q] = PageMeeting[p] THEN [page[q] EXCEPT !.count = n]
          ELSE page[q]]
    BY <1>1 DEF JoinRoom, At, Joined
  <2>3. \A q \in Pages :
          /\ q = p => page'[q].at = "joined" /\ page'[q].count = n
          /\ q # p => page'[q].at = page[q].at
          /\ q # p /\ page[q].at = "joined" /\ PageMeeting[q] = PageMeeting[p] => page'[q].count = n
          /\ q # p /\ PageMeeting[q] # PageMeeting[p] => page'[q].count = page[q].count
    BY <1>0, <2>2 DEF Page
  <2>4. \A q \in Pages : page'[q].at = "joined" => page'[q].count = Cardinality(room'[PageMeeting[q]])
    BY <1>0, <2>1, <2>3 DEF RoomShown
  <2>5. \A m \in Meetings : \A u \in room'[m] :
          \E q \in Pages : page'[q].at = "joined" /\ PageMeeting[q] = m /\ PageUser[q] = u
    BY <1>0, <2>1, <2>3 DEF RoomShown
  <2> QED BY <2>4, <2>5 DEF RoomShown
<1>2. ASSUME NEW p \in Pages, NEW next \in Page, next.at # "joined", Depart(p, next) PROVE RoomShown'
  <2> DEFINE left == [m \in Meetings |-> room[m] \ {PageUser[p]}]
  <2>1. room' = left /\ page[p].at = "joined"
    BY <1>2 DEF Depart
  <2>2. page' = [q \in Pages |->
          IF q = p THEN next
          ELSE IF page[q].at = "joined" /\ PageUser[p] \in room[PageMeeting[q]]
               THEN [page[q] EXCEPT !.count = Cardinality(left[PageMeeting[q]])]
               ELSE page[q]]
    BY <1>2 DEF Depart, At
  <2>3. \A q \in Pages :
          /\ q = p => page'[q].at # "joined"
          /\ q # p => page'[q].at = page[q].at
          /\ q # p /\ page[q].at = "joined" /\ PageUser[p] \in room[PageMeeting[q]] =>
               page'[q].count = Cardinality(left[PageMeeting[q]])
          /\ q # p /\ PageUser[p] \notin room[PageMeeting[q]] => page'[q].count = page[q].count
    BY <1>0, <1>2, <2>2 DEF Page
  <2>4. ASSUME NEW q \in Pages, page'[q].at = "joined"
        PROVE  page'[q].count = Cardinality(room'[PageMeeting[q]])
    <3>1. CASE PageUser[p] \in room[PageMeeting[q]]
      BY <2>1, <2>3, <2>4, <3>1
    <3>2. CASE PageUser[p] \notin room[PageMeeting[q]]
      <4>1. left[PageMeeting[q]] = room[PageMeeting[q]]
        BY <1>0, <3>2
      <4> QED BY ZenonT(40), <2>1, <2>3, <2>4, <3>2, <4>1 DEF RoomShown
    <3> QED BY <3>1, <3>2
  <2>5. \A m \in Meetings : \A u \in room'[m] :
          \E q \in Pages : page'[q].at = "joined" /\ PageMeeting[q] = m /\ PageUser[q] = u
    <3> SUFFICES ASSUME NEW m \in Meetings, NEW u \in room'[m]
                 PROVE  \E q \in Pages : page'[q].at = "joined" /\ PageMeeting[q] = m /\ PageUser[q] = u
      OBVIOUS
    <3>1. u \in room[m] /\ u # PageUser[p]
      BY <2>1
    <3>2. PICK q \in Pages : page[q].at = "joined" /\ PageMeeting[q] = m /\ PageUser[q] = u
      BY <3>1 DEF RoomShown
    <3> QED BY <2>3, <3>1, <3>2
  <2>6. \A q \in Pages : page'[q].at = "joined" => page'[q].count = Cardinality(room'[PageMeeting[q]])
    BY <2>4
  <2> HIDE DEF left
  <2> QED BY <2>5, <2>6 DEF RoomShown
<1>3. ASSUME NEW p \in Pages, LoseConnection(p) \/ LeavePage(p) PROVE RoomShown'
  <2>1. /\ [page[p] EXCEPT !.at = "loaded"] \in Page /\ [page[p] EXCEPT !.at = "loaded"].at = "loaded"
        /\ Unmounted \in Page /\ Unmounted.at = "away"
    BY <1>0 DEF Page, Unmounted
  <2> QED BY <1>2, <1>3, <2>1 DEF LoseConnection, LeavePage
<1>4. CASE Restart
  <2>1. \A q \in Pages : page'[q].at # "joined"
    BY <1>0, <1>4 DEF Restart, Page
  <2> QED BY <1>4, <2>1 DEF Restart, RoomShown
<1>5. CASE /\ room' = room
           /\ \A q \in Pages : /\ page'[q].at = "joined" <=> page[q].at = "joined"
                               /\ page'[q].at = "joined" => page'[q].count = page[q].count
  BY <1>5 DEF RoomShown
<1> QED BY <1>1, <1>3, <1>4, <1>5, RoomFrame

LEMMA CountsShown ==
  ASSUME TypeOK, RoomShown, NEW p \in Pages
  PROVE  ShownAtMost(p)
<1> SUFFICES ASSUME page[p].at = "joined"
             PROVE  page[p].count <= Cardinality({PageUser[q] : q \in Joined(At(p))})
  BY DEF ShownAtMost
<1>1. PICK m \in Meetings : m = PageMeeting[p]
  BY PagesAssumption
<1>2. PICK here : here = {PageUser[q] : q \in Joined(At(p))}
  OBVIOUS
<1>3. here \subseteq Users /\ room[m] \subseteq here
  BY <1>1, <1>2, PagesAssumption DEF RoomShown, Joined, At
<1>4. IsFiniteSet(here) /\ Cardinality(room[m]) <= Cardinality(here)
  BY <1>3, Countable, FS_Subset
<1> QED BY <1>1, <1>2, <1>4 DEF RoomShown

\* The invariant of a meeting: what is in the handlers' hands and on the pages.
MeetingInv ==
  TypeOK /\ RowsRead /\ ClosedByOne /\ ResultsTold /\ CountInHand /\ RoomShown
  /\ \A m \in Meetings : VotersCounted(m)

LEMMA MeetingInit ==
  ASSUME Init
  PROVE  MeetingInv
<1> USE DEF Init, NoMeeting, Unmounted
<1>1. TypeOK
  <2>1. NoMeeting \in Row /\ Unmounted \in Page
    BY DEF Row, Page
  <2> HIDE DEF NoMeeting, Unmounted
  <2> QED BY <2>1, PagesAssumption DEF TypeOK
<1>2. RowsRead /\ ClosedByOne /\ CountInHand /\ RoomShown
  BY PagesAssumption DEF RowsRead, ClosedByOne, CountInHand, RoomShown, InFlight
<1>3. ResultsTold
  BY DEF ResultsTold, ConfirmedIsRecorded
<1>4. \A m \in Meetings : VotersCounted(m)
  BY DEF VotersCounted
<1> QED BY <1>1, <1>2, <1>3, <1>4 DEF MeetingInv

LEMMA MeetingInductive == Spec => []MeetingInv
<1>1. Init => MeetingInv
  BY MeetingInit
<1>2. MeetingInv /\ [Next]_vars => MeetingInv'
  <2> SUFFICES ASSUME MeetingInv, [Next]_vars
               PROVE  MeetingInv'
    OBVIOUS
  <2>1. TypeOK /\ RowsRead /\ ClosedByOne /\ ResultsTold /\ CountInHand /\ RoomShown
    BY DEF MeetingInv
  <2>2. TypeOK' /\ RowsRead' /\ ClosedByOne'
    BY <2>1, MeetingTypeStep, RowsReadStep, ClosedStep
  <2>3. ResultsTold' /\ CountInHand' /\ RoomShown'
    BY <2>1, ResultsStep, CountInHandStep, RoomStep
  <2>4. ASSUME NEW m \in Meetings
        PROVE  VotersCounted(m)'
    BY <2>1, VotersStep DEF MeetingInv
  <2>5. (\A m \in Meetings : VotersCounted(m))'
    BY <2>4
  <2> QED BY <2>2, <2>3, <2>5 DEF MeetingInv
<1> QED BY <1>1, <1>2, PTL DEF Spec

\* The rows, the pages and the handlers of a meeting stay within their types.
THEOREM MeetingTypeCorrect == Spec => []TypeOK
<1>1. MeetingInv => TypeOK
  BY DEF MeetingInv
<1> QED BY <1>1, MeetingInductive, PTL

\* However many leads end a meeting in however many tabs, meeting.closed, which pays the
\* points out, is emitted once, unless a handler saved a row that was out of date.
THEOREM ClosedOnce == Spec => []TriggeredOnce
<1>1. MeetingInv => TriggeredOnce
  BY DEF MeetingInv, ClosedByOne, TriggeredOnce
<1> QED BY <1>1, MeetingInductive, PTL

\* What any page shows as confirmed is in the row that the settlement reads, unless a
\* handler saved a row that was out of date.
THEOREM ConfirmedStays == Spec => []ConfirmedIsRecorded
<1>1. MeetingInv => ConfirmedIsRecorded
  BY DEF MeetingInv, ResultsTold
<1> QED BY <1>1, MeetingInductive, PTL

\* The count that closeMeeting saves has every voter but late ones, and no page shows more
\* people than have a page in the room.
THEOREM EveryVoterCounts == Spec => []ParticipantsCounted
<1>1. MeetingInv => ParticipantsCounted
  BY CountsShown DEF MeetingInv, ParticipantsCounted
<1> QED BY <1>1, MeetingInductive, PTL

-----------------------------------------------------------------------------
(* The connection with Feishu.                                              *)

AllSteps == {"webhook", "events", "contacts_range"}

LEMMA StepsAre ==
  /\ \A i \in 1 .. 3 : Steps[i] \in AllSteps
  /\ AllSteps = {Steps[i] : i \in 1 .. 3}
  /\ Cardinality(AllSteps) = 3
<1>1. \A i \in 1 .. 3 : Steps[i] \in AllSteps
  BY DEF Steps, AllSteps
<1>2. AllSteps = {Steps[i] : i \in 1 .. 3}
  <2>1. Steps[1] = "webhook" /\ Steps[2] = "events" /\ Steps[3] = "contacts_range"
    BY DEF Steps
  <2> QED BY <1>1, <2>1 DEF AllSteps
<1>3. Cardinality(AllSteps) = 3
  <2>1. IsFiniteSet({}) /\ Cardinality({}) = 0
    BY FS_EmptySet
  <2>2. IsFiniteSet({"webhook"}) /\ Cardinality({"webhook"}) = 1
    BY FS_Singleton
  <2>3. IsFiniteSet({"webhook"} \cup {"events"}) /\ Cardinality({"webhook"} \cup {"events"}) = 2
    BY <2>2, FS_AddElement
  <2>4. Cardinality(({"webhook"} \cup {"events"}) \cup {"contacts_range"}) = 3
    BY <2>3, FS_AddElement
  <2>5. ({"webhook"} \cup {"events"}) \cup {"contacts_range"} = AllSteps
    BY DEF AllSteps
  <2> QED BY <2>4, <2>5
<1> QED BY <1>1, <1>2, <1>3

LEMMA FailsType ==
  ASSUME SetupTypeOK, SetupFails
  PROVE  setupErrors' \in 0 .. MaxSetupErrors
BY SetupAssumption DEF SetupTypeOK, SetupFails

\* What a step of the automatic configuration leaves behind.
LEMMA StepDoneIs ==
  ASSUME SetupTypeOK, NEW p \in Consoles, auto[p] \in AutoRun, NEW ok \in BOOLEAN, AutoStepDone(p, ok),
         ~(auto[p].failed \/ ~ok \/ auto[p].changed) /\ auto[p].step = 3 => setup \in Setup
  PROVE  auto' \in [Consoles -> AutoRun \cup {NoAuto}] /\ console' \in [Consoles -> Console]
<1> PICK failed \in BOOLEAN : failed = (auto[p].failed \/ ~ok)
  BY DEF AutoRun
<1>1. CASE auto[p].step < 3
  <2>1. auto' = [auto EXCEPT ![p] = [auto[p] EXCEPT !.step = @ + 1, !.app = NoSetup, !.failed = failed]]
    BY <1>1 DEF AutoStepDone, SetupTypeOK
  <2>2. auto[p].step + 1 \in 1 .. 3
    BY <1>1 DEF AutoRun
  <2>3. [auto[p] EXCEPT !.step = @ + 1, !.app = NoSetup, !.failed = failed] \in AutoRun
    BY <2>2 DEF AutoRun
  <2> QED BY <1>1, <2>1, <2>3 DEF AutoStepDone, SetupTypeOK
<1>2. CASE ~(auto[p].step < 3)
  <2>1. auto[p].step = 3
    BY <1>2 DEF AutoRun
  <2>2. PICK app \in Apps \cup {NoSetup} : app = IF failed \/ auto[p].changed THEN NoSetup ELSE setup.app
    BY <2>1 DEF Setup
  <2>3. /\ auto' = [auto EXCEPT ![p] = NoAuto]
        /\ console' = [console EXCEPT ![p].succeeded = app]
    BY <1>2, <2>2 DEF AutoStepDone
  <2> QED BY <2>3 DEF SetupTypeOK, Console
<1> QED BY <1>1, <1>2

\* The configuration that a call has read is the row, until a save marks it.
CallerInv ==
  \A c \in Callers : caller[c] # NoCaller /\ ~caller[c].stale =>
    setup # NoSetup /\ setup.enabled /\ caller[c].of = setup

\* An automatic configuration without an error works on the application of the row, until
\* a save comes in between: the steps before the current one are carried out there.
AutoInv ==
  \A p \in Consoles : auto[p] # NoAuto /\ ~auto[p].failed /\ ~auto[p].changed =>
    /\ auto[p].app # NoSetup => setup # NoSetup /\ auto[p].app = setup.app
    /\ \A i \in 1 .. auto[p].step - 1 : setup # NoSetup /\ Steps[i] \in configured[setup.app]

LEMMA SetupTypeStep ==
  ASSUME SetupTypeOK, AutoInv, [SetupNext]_setupVars
  PROVE  SetupTypeOK'
<1> USE DEF SetupTypeOK
<1>1. ASSUME NEW c \in Callers, ReadSetup(c) \/ CacheClient(c) PROVE SetupTypeOK'
  <2>1. CASE ReadSetup(c)
    <3>1. [of |-> setup, stale |-> FALSE] \in SetupRead
      BY <2>1 DEF ReadSetup, SetupRead
    <3>2. caller' \in [Callers -> SetupRead \cup {NoCaller}]
      BY <2>1, <3>1 DEF ReadSetup
    <3> QED BY <2>1, <3>2 DEF ReadSetup
  <2>2. CASE CacheClient(c)
    BY <2>2 DEF CacheClient
  <2> QED BY <1>1, <2>1, <2>2
<1>2. CASE ClientExpires
  BY <1>2 DEF ClientExpires
<1>3. ASSUME NEW p \in Consoles,
             LoadConfig(p) \/ LoadConfigFails(p) \/ SwitchToWizard(p) \/ FinishWizard(p) \/ LeaveConsole(p)
      PROVE  SetupTypeOK'
  <2>1. console' \in [Consoles -> Console]
    <3>1. PICK shown \in Console : console' = [console EXCEPT ![p] = shown]
      <4>1. console[p] \in Console
        OBVIOUS
      <4>2. CASE LoadConfig(p)
        <5>1. /\ [console[p] EXCEPT !.mode = "wizard"] \in Console
              /\ [console[p] EXCEPT !.mode = "dashboard", !.hasSecret = TRUE] \in Console
          BY <4>1 DEF Console
        <5> QED BY <4>2, <5>1 DEF LoadConfig
      <4>3. CASE LoadConfigFails(p) \/ SwitchToWizard(p) \/ FinishWizard(p)
        <5>1. /\ [console[p] EXCEPT !.mode = "wizard"] \in Console
              /\ [console[p] EXCEPT !.mode = "dashboard"] \in Console
          BY <4>1 DEF Console
        <5> QED BY <4>3, <5>1 DEF LoadConfigFails, SwitchToWizard, FinishWizard
      <4>4. CASE LeaveConsole(p)
        <5>1. [mode |-> "loading", hasSecret |-> FALSE, succeeded |-> NoSetup] \in Console
          BY DEF Console
        <5> QED BY <4>4, <5>1 DEF LeaveConsole
      <4> QED BY <1>3, <4>2, <4>3, <4>4
    <3> QED BY <3>1
  <2>2. setupErrors' \in 0 .. MaxSetupErrors
    BY <1>3, FailsType DEF LoadConfig, LoadConfigFails, SwitchToWizard, FinishWizard, LeaveConsole
  <2> QED BY <1>3, <2>1, <2>2 DEF LoadConfig, LoadConfigFails, SwitchToWizard, FinishWizard, LeaveConsole
<1>4. ASSUME NEW p \in Consoles, NEW a \in Apps, NEW s \in Apps \cup {Unchanged}, NEW e \in BOOLEAN,
             SaveManualConfig(p, a, s, e)
      PROVE  SetupTypeOK'
  <2>1. save' \in [Consoles -> Save \cup {NoSave}]
    BY <1>4 DEF SaveManualConfig, Save, Setup
  <2> QED BY <1>4, <2>1, SetupAssumption DEF SaveManualConfig
<1>5. ASSUME NEW p \in Consoles, FindSetup(p) PROVE SetupTypeOK'
  <2>1. save' \in [Consoles -> Save \cup {NoSave}]
    <3>1. PICK found \in BOOLEAN : found = (setup # NoSetup)
      OBVIOUS
    <3>2. save[p] \in Save
      BY <1>5 DEF FindSetup, SaveAt
    <3>3. [save[p] EXCEPT !.at = "write", !.found = found] \in Save
      BY <3>2 DEF Save
    <3>4. save' = [save EXCEPT ![p] = [save[p] EXCEPT !.at = "write", !.found = found]]
      BY <1>5, <3>1 DEF FindSetup
    <3> QED BY <3>3, <3>4
  <2> QED BY <1>5, <2>1 DEF FindSetup
<1>6. ASSUME NEW p \in Consoles, WriteSetup(p) PROVE SetupTypeOK'
  <2>1. save[p] \in Save
    BY <1>6 DEF WriteSetup, SaveAt
  <2>2. save' \in [Consoles -> Save \cup {NoSave}] /\ setup' \in Setup
    BY <1>6, <2>1 DEF WriteSetup, Save
  <2>3. caller' \in [Callers -> SetupRead \cup {NoCaller}]
    <3>1. \A c \in Callers : caller[c] \in SetupRead => Outdated(caller[c]) \in SetupRead
      BY DEF SetupRead, Outdated
    <3> QED BY <1>6, <3>1 DEF WriteSetup
  <2>4. auto' \in [Consoles -> AutoRun \cup {NoAuto}]
    <3>1. \A q \in Consoles : auto[q] \in AutoRun => [auto[q] EXCEPT !.changed = TRUE] \in AutoRun
      BY DEF AutoRun
    <3> QED BY <1>6, <3>1 DEF WriteSetup
  <2> QED BY <1>6, <2>2, <2>3, <2>4 DEF WriteSetup
<1>7. ASSUME NEW p \in Consoles, SetupTaken(p) PROVE SetupTypeOK'
  BY <1>7 DEF SetupTaken
<1>8. ASSUME NEW p \in Consoles, SaveAnswered(p) PROVE SetupTypeOK'
  <2>1. console' \in [Consoles -> Console]
    <3>1. console[p] \in Console
      OBVIOUS
    <3>2. [console[p] EXCEPT !.hasSecret = FALSE] \in Console
      BY <3>1 DEF Console
    <3> QED BY <1>8, <3>2 DEF SaveAnswered
  <2> QED BY <1>8, <2>1 DEF SaveAnswered, ClearCache
<1>9. ASSUME NEW p \in Consoles, SaveSetupFails(p) PROVE SetupTypeOK'
  BY <1>9, FailsType DEF SaveSetupFails
<1>10. ASSUME NEW p \in Consoles, RunAutoConfig(p) PROVE SetupTypeOK'
  <2>1. console' \in [Consoles -> Console]
    BY <1>10 DEF RunAutoConfig, Console
  <2>2. auto' \in [Consoles -> AutoRun \cup {NoAuto}]
    BY <1>10 DEF RunAutoConfig, AutoRun
  <2> QED BY <1>10, <2>1, <2>2 DEF RunAutoConfig
<1>11. ASSUME NEW p \in Consoles, GetToken(p) PROVE SetupTypeOK'
  <2>1. setup \in Setup
    BY <1>11 DEF GetToken, HasToken
  <2>2. auto' \in [Consoles -> AutoRun \cup {NoAuto}]
    BY <1>11, <2>1 DEF GetToken, AutoRun, Setup
  <2> QED BY <1>11, <2>2 DEF GetToken
<1>12. ASSUME NEW p \in Consoles, NEW ok \in BOOLEAN, auto[p] # NoAuto, AutoStepDone(p, ok)
       PROVE  auto' \in [Consoles -> AutoRun \cup {NoAuto}] /\ console' \in [Consoles -> Console]
  <2>1. auto[p] \in AutoRun
    BY <1>12
  <2>2. ~auto[p].failed /\ ~auto[p].changed /\ auto[p].step = 3 => setup \in Setup
    <3>1. 1 \in 1 .. 3 - 1
      OBVIOUS
    <3> QED BY <1>12, <3>1 DEF AutoInv
  <2> QED BY <1>12, <2>1, <2>2, StepDoneIs
<1>13. ASSUME NEW p \in Consoles, NoToken(p) PROVE SetupTypeOK'
  BY <1>12, <1>13 DEF NoToken
<1>14. ASSUME NEW p \in Consoles, Configure(p) PROVE SetupTypeOK'
  <2>1. auto[p] \in AutoRun /\ auto[p].app \in Apps /\ auto[p].step \in 1 .. 3
    BY <1>14 DEF Configure, AutoRun
  <2>2. Steps[auto[p].step] \in AllSteps
    BY <2>1, StepsAre
  <2>3. configured' \in [Apps -> SUBSET AllSteps]
    BY <1>14, <2>1, <2>2 DEF Configure, AllSteps
  <2> QED BY <1>12, <1>14, <2>3 DEF Configure, AllSteps
<1>15. ASSUME NEW p \in Consoles, ConfigureFails(p) PROVE SetupTypeOK'
  BY <1>12, <1>15, FailsType DEF ConfigureFails, RefusalCounted
<1>16. CASE UNCHANGED setupVars
  BY <1>16 DEF setupVars
<1>17. ASSUME NEW p \in Consoles, ConsoleSteps(p) PROVE SetupTypeOK'
  BY <1>3, <1>4, <1>5, <1>6, <1>7, <1>8, <1>9, <1>10, <1>11, <1>13, <1>14, <1>15, <1>17 DEF ConsoleSteps
<1> QED BY <1>1, <1>2, <1>16, <1>17 DEF SetupNext

\* A step that leaves the row alone, and what it may do to a call of getClient.
LEMMA SetupFrame ==
  ASSUME SetupTypeOK, [SetupNext]_setupVars
  PROVE  \/ \E p \in Consoles : WriteSetup(p)
         \/ /\ setup' = setup
            /\ \A c \in Callers : \/ caller'[c] = caller[c] \/ caller'[c] = NoCaller
                                  \/ /\ setup # NoSetup /\ setup.enabled
                                     /\ caller'[c] = [of |-> setup, stale |-> FALSE]
<1> USE DEF SetupTypeOK
<1> DEFINE Kept == /\ setup' = setup
                   /\ \A c \in Callers : \/ caller'[c] = caller[c] \/ caller'[c] = NoCaller
                                         \/ /\ setup # NoSetup /\ setup.enabled
                                            /\ caller'[c] = [of |-> setup, stale |-> FALSE]
<1>1. ASSUME NEW c \in Callers, ReadSetup(c) \/ CacheClient(c)
      PROVE  Kept
  BY <1>1 DEF ReadSetup, CacheClient
<1>2. ASSUME ClientExpires \/ UNCHANGED setupVars
      PROVE  Kept
  BY <1>2 DEF ClientExpires, setupVars
<1>3. ASSUME NEW p \in Consoles, ConsoleSteps(p), ~WriteSetup(p)
      PROVE  setup' = setup /\ caller' = caller
  BY <1>3 DEF ConsoleSteps, LoadConfig, LoadConfigFails, SwitchToWizard, FinishWizard, LeaveConsole,
     SaveManualConfig, FindSetup, SetupTaken, SaveAnswered, SaveSetupFails, RunAutoConfig, GetToken,
     NoToken, Configure, ConfigureFails
<1>4. ASSUME NEW p \in Consoles, ConsoleSteps(p)
      PROVE  WriteSetup(p) \/ Kept
  BY <1>3, <1>4
<1> HIDE DEF Kept
<1>5. (\E p \in Consoles : WriteSetup(p)) \/ Kept
  BY <1>1, <1>2, <1>4 DEF SetupNext
<1> QED BY <1>5 DEF Kept

LEMMA CallerStep ==
  ASSUME SetupTypeOK, CallerInv, [SetupNext]_setupVars
  PROVE  CallerInv'
<1>1. ASSUME NEW p \in Consoles, WriteSetup(p)
      PROVE  CallerInv'
  <2> SUFFICES ASSUME NEW c \in Callers, caller'[c] # NoCaller
               PROVE  caller'[c].stale
    BY DEF CallerInv
  <2>1. caller'[c] = Outdated(caller[c])
    BY <1>1 DEF WriteSetup
  <2> QED BY <2>1 DEF Outdated
<1>2. CASE /\ setup' = setup
           /\ \A c \in Callers : \/ caller'[c] = caller[c] \/ caller'[c] = NoCaller
                                 \/ /\ setup # NoSetup /\ setup.enabled
                                    /\ caller'[c] = [of |-> setup, stale |-> FALSE]
  BY <1>2 DEF CallerInv
<1> QED BY <1>1, <1>2, SetupFrame

\* What may happen to the shared client and to the saves that are about to clear it.
LEMMA ClientStep ==
  ASSUME SetupTypeOK, CallerInv, ClientIsCurrent, [SetupNext]_setupVars
  PROVE  ClientIsCurrent'
<1> USE DEF SetupTypeOK
<1> SUFFICES ASSUME client' # NoClient, ~client'.stale, \A p \in Consoles : ~SaveAt(p, "clear")'
             PROVE  setup' # NoSetup /\ setup'.enabled /\ client'.of = setup'
  BY DEF ClientIsCurrent
<1>1. ASSUME NEW c \in Callers, CacheClient(c)
      PROVE  setup' # NoSetup /\ setup'.enabled /\ client'.of = setup'
  BY <1>1 DEF CacheClient, CallerInv
<1>2. ASSUME NEW p \in Consoles, WriteSetup(p)
      PROVE  FALSE
  <2>1. save[p] \in Save /\ save[p] # NoSave
    BY <1>2 DEF WriteSetup, SaveAt
  <2>2. save'[p] = [save[p] EXCEPT !.at = "clear"]
    BY <1>2 DEF WriteSetup
  <2>3. save'[p].at = "clear" /\ save'[p] \in Save
    BY <2>1, <2>2 DEF Save
  <2>4. save'[p] # NoSave
    BY <2>3, SetupAssumption
  <2> QED BY <2>3, <2>4 DEF SaveAt
<1>3. ASSUME NEW p \in Consoles, SaveAnswered(p)
      PROVE  FALSE
  BY <1>3 DEF SaveAnswered, ClearCache
<1>4. ASSUME client' = client, setup' = setup,
             \A p \in Consoles : SaveAt(p, "clear") => SaveAt(p, "clear")'
      PROVE  setup' # NoSetup /\ setup'.enabled /\ client'.of = setup'
  BY <1>4 DEF ClientIsCurrent
<1>5. ASSUME NEW p \in Consoles,
             \/ LoadConfig(p) \/ LoadConfigFails(p) \/ SwitchToWizard(p) \/ FinishWizard(p) \/ LeaveConsole(p)
             \/ RunAutoConfig(p) \/ GetToken(p) \/ NoToken(p) \/ Configure(p) \/ ConfigureFails(p)
      PROVE  client' = client /\ setup' = setup /\ save' = save
  BY <1>5 DEF LoadConfig, LoadConfigFails, SwitchToWizard, FinishWizard, LeaveConsole,
     RunAutoConfig, GetToken, NoToken, Configure, ConfigureFails
<1>6. ASSUME NEW p \in Consoles,
             \/ \E a \in Apps, s \in Apps \cup {Unchanged}, e \in BOOLEAN : SaveManualConfig(p, a, s, e)
             \/ FindSetup(p) \/ SetupTaken(p) \/ SaveSetupFails(p)
      PROVE  /\ client' = client /\ setup' = setup
             /\ \A q \in Consoles : SaveAt(q, "clear") => SaveAt(q, "clear")'
  <2>1. client' = client /\ setup' = setup
    BY <1>6 DEF SaveManualConfig, FindSetup, SetupTaken, SaveSetupFails
  <2>2. ~SaveAt(p, "clear")
    BY <1>6 DEF SaveManualConfig, FindSetup, SetupTaken, SaveSetupFails, SaveAt
  <2>3. \A q \in Consoles \ {p} : save'[q] = save[q]
    BY <1>6 DEF SaveManualConfig, FindSetup, SetupTaken, SaveSetupFails
  <2> QED BY <2>1, <2>2, <2>3 DEF SaveAt
<1>7. ASSUME NEW c \in Callers, ReadSetup(c)
      PROVE  client' = client /\ setup' = setup /\ save' = save
  BY <1>7 DEF ReadSetup
<1>8. ASSUME NEW p \in Consoles, ConsoleSteps(p)
      PROVE  setup' # NoSetup /\ setup'.enabled /\ client'.of = setup'
  BY <1>2, <1>3, <1>4, <1>5, <1>6, <1>8 DEF ConsoleSteps, SaveAt
<1>9. CASE ClientExpires \/ UNCHANGED setupVars
  BY <1>4, <1>9 DEF ClientExpires, setupVars, SaveAt
<1> QED BY <1>1, <1>4, <1>7, <1>8, <1>9 DEF SetupNext, SaveAt

\* What a step other than a save may do to an automatic configuration.
RunFrame(p) ==
  \/ auto'[p] = auto[p] \/ auto'[p] = NoAuto
  \/ auto'[p] = [step |-> 1, app |-> NoSetup, failed |-> FALSE, changed |-> FALSE]
  \/ GetToken(p)
  \/ /\ NoToken(p) \/ Configure(p) \/ ConfigureFails(p)
     /\ \E failed \in BOOLEAN :
          /\ Configure(p) \/ failed
          /\ auto[p].step < 3
          /\ auto'[p] = [auto[p] EXCEPT !.step = @ + 1, !.app = NoSetup, !.failed = failed]
          /\ auto[p].failed => failed

LEMMA RunStep ==
  ASSUME SetupTypeOK, [SetupNext]_setupVars, NEW p \in Consoles, \A q \in Consoles : ~WriteSetup(q)
  PROVE  RunFrame(p)
<1> USE DEF SetupTypeOK
<1>1. ASSUME NEW q \in Consoles, NEW ok \in BOOLEAN, auto[q] \in AutoRun, AutoStepDone(q, ok)
      PROVE  \/ auto'[p] = auto[p] \/ auto'[p] = NoAuto
             \/ q = p /\ \E failed \in BOOLEAN :
                  /\ ok \/ failed
                  /\ auto[p].step < 3
                  /\ auto'[p] = [auto[p] EXCEPT !.step = @ + 1, !.app = NoSetup, !.failed = failed]
                  /\ auto[p].failed => failed
  <2> PICK failed \in BOOLEAN : failed = (auto[q].failed \/ ~ok)
    BY <1>1 DEF AutoRun
  <2> QED BY <1>1 DEF AutoStepDone
<1>2. ASSUME NEW q \in Consoles, NoToken(q) \/ Configure(q) \/ ConfigureFails(q)
      PROVE  RunFrame(p)
  <2>1. auto[q] \in AutoRun
    BY <1>2 DEF NoToken, Configure, ConfigureFails
  <2>2. NoToken(q) => AutoStepDone(q, FALSE)
    BY DEF NoToken
  <2>3. Configure(q) => AutoStepDone(q, TRUE)
    BY DEF Configure
  <2>4. ConfigureFails(q) => AutoStepDone(q, FALSE)
    BY DEF ConfigureFails, RefusalCounted
  <2> QED BY <1>1, <1>2, <2>1, <2>2, <2>3, <2>4 DEF RunFrame
<1>3. ASSUME NEW q \in Consoles, RunAutoConfig(q) \/ GetToken(q)
      PROVE  RunFrame(p)
  BY <1>3 DEF RunAutoConfig, GetToken, RunFrame
<1>4. ASSUME NEW q \in Consoles,
             \/ LoadConfig(q) \/ LoadConfigFails(q) \/ SwitchToWizard(q) \/ FinishWizard(q) \/ LeaveConsole(q)
             \/ \E a \in Apps, s \in Apps \cup {Unchanged}, e \in BOOLEAN : SaveManualConfig(q, a, s, e)
             \/ FindSetup(q) \/ SetupTaken(q) \/ SaveAnswered(q) \/ SaveSetupFails(q)
      PROVE  auto' = auto
  BY <1>4 DEF LoadConfig, LoadConfigFails, SwitchToWizard, FinishWizard, LeaveConsole,
     SaveManualConfig, FindSetup, SetupTaken, SaveAnswered, SaveSetupFails
<1>5. ASSUME NEW q \in Consoles, ConsoleSteps(q)
      PROVE  RunFrame(p)
  BY <1>2, <1>3, <1>4, <1>5 DEF ConsoleSteps, RunFrame
<1>6. ASSUME (\E c \in Callers : ReadSetup(c) \/ CacheClient(c)) \/ ClientExpires \/ UNCHANGED setupVars
      PROVE  auto' = auto
  BY <1>6 DEF ReadSetup, CacheClient, ClientExpires, setupVars
<1> QED BY <1>5, <1>6 DEF SetupNext, RunFrame

LEMMA ConfiguredGrows ==
  ASSUME SetupTypeOK, [SetupNext]_setupVars, NEW a \in Apps
  PROVE  configured[a] \subseteq configured'[a]
<1> USE DEF SetupTypeOK
<1>1. ASSUME NEW p \in Consoles, Configure(p)
      PROVE  configured[a] \subseteq configured'[a]
  BY <1>1 DEF Configure
<1>2. ASSUME NEW p \in Consoles, ConsoleSteps(p), ~Configure(p)
      PROVE  configured' = configured
  BY <1>2 DEF ConsoleSteps, LoadConfig, LoadConfigFails, SwitchToWizard, FinishWizard, LeaveConsole,
     SaveManualConfig, FindSetup, WriteSetup, SetupTaken, SaveAnswered, SaveSetupFails, RunAutoConfig,
     GetToken, NoToken, ConfigureFails
<1>3. ASSUME (\E c \in Callers : ReadSetup(c) \/ CacheClient(c)) \/ ClientExpires \/ UNCHANGED setupVars
      PROVE  configured' = configured
  BY <1>3 DEF ReadSetup, CacheClient, ClientExpires, setupVars
<1> QED BY <1>1, <1>2, <1>3 DEF SetupNext

LEMMA AutoStep ==
  ASSUME SetupTypeOK, AutoInv, [SetupNext]_setupVars
  PROVE  AutoInv'
<1> USE DEF SetupTypeOK
<1>1. ASSUME NEW q \in Consoles, WriteSetup(q)
      PROVE  AutoInv'
  <2> SUFFICES ASSUME NEW p \in Consoles, auto'[p] # NoAuto
               PROVE  auto'[p].changed
    BY DEF AutoInv
  <2>1. auto[p] \in AutoRun /\ auto'[p] = [auto[p] EXCEPT !.changed = TRUE]
    BY <1>1 DEF WriteSetup
  <2> QED BY <2>1 DEF AutoRun
<1>2. CASE \A q \in Consoles : ~WriteSetup(q)
  <2>0. setup' = setup
    BY <1>2, SetupFrame
  <2> SUFFICES ASSUME NEW p \in Consoles, auto'[p] # NoAuto, ~auto'[p].failed, ~auto'[p].changed
               PROVE  /\ auto'[p].app # NoSetup => setup # NoSetup /\ auto'[p].app = setup.app
                      /\ \A i \in 1 .. auto'[p].step - 1 : setup # NoSetup /\ Steps[i] \in configured'[setup.app]
    BY <2>0 DEF AutoInv
  <2>1. \A s \in Setup : configured[s.app] \subseteq configured'[s.app]
    BY ConfiguredGrows DEF Setup
  <2>2. CASE auto'[p] = auto[p]
    BY <2>1, <2>2 DEF AutoInv
  <2>3. CASE auto'[p] = [step |-> 1, app |-> NoSetup, failed |-> FALSE, changed |-> FALSE]
    BY <2>3
  <2>4. CASE GetToken(p)
    <3>1. auto[p] \in AutoRun /\ auto[p] # NoAuto /\ setup \in Setup /\ setup # NoSetup
      BY <2>4 DEF GetToken, HasToken
    <3>2. auto'[p] = [auto[p] EXCEPT !.app = setup.app]
      BY <2>4 DEF GetToken
    <3>3. /\ auto'[p].app = setup.app /\ auto'[p].step = auto[p].step
          /\ auto'[p].failed = auto[p].failed /\ auto'[p].changed = auto[p].changed
      BY <3>1, <3>2 DEF AutoRun
    <3> QED BY <2>1, <3>1, <3>3 DEF AutoInv
  <2>5. ASSUME NEW failed \in BOOLEAN,
               NoToken(p) \/ Configure(p) \/ ConfigureFails(p),
               Configure(p) \/ failed,
               auto[p].step < 3,
               auto'[p] = [auto[p] EXCEPT !.step = @ + 1, !.app = NoSetup, !.failed = failed],
               auto[p].failed => failed
        PROVE  /\ auto'[p].app # NoSetup => setup # NoSetup /\ auto'[p].app = setup.app
               /\ \A i \in 1 .. auto'[p].step - 1 : setup # NoSetup /\ Steps[i] \in configured'[setup.app]
    <3>1. auto[p] \in AutoRun /\ auto[p] # NoAuto
      BY <2>5 DEF NoToken, Configure, ConfigureFails
    <3>2. /\ auto'[p].app = NoSetup /\ auto'[p].step = auto[p].step + 1 /\ auto[p].step \in 1 .. 3
          /\ auto'[p].failed = failed /\ auto'[p].changed = auto[p].changed
      BY <2>5, <3>1 DEF AutoRun
    <3>3. Configure(p) /\ ~auto[p].failed /\ ~auto[p].changed
      BY <2>5, <3>2
    <3>4. setup \in Setup /\ setup # NoSetup /\ auto[p].app = setup.app
      BY <3>1, <3>3 DEF Configure, AutoInv
    <3>5. PICK a \in Apps : a = setup.app
      BY <3>4 DEF Setup
    <3>6. Steps[auto[p].step] \in configured'[a]
      BY <3>3, <3>4, <3>5 DEF Configure
    <3>7. \A i \in 1 .. auto[p].step - 1 : Steps[i] \in configured'[a]
      BY <3>1, <3>3, <3>4, <3>5, <2>1 DEF AutoInv
    <3>8. \A i \in 1 .. auto'[p].step - 1 : i = auto[p].step \/ i \in 1 .. auto[p].step - 1
      BY <3>2
    <3> QED BY <3>2, <3>4, <3>5, <3>6, <3>7, <3>8
  <2>6. RunFrame(p)
    BY <1>2, RunStep
  <2> QED BY <2>2, <2>3, <2>4, <2>5, <2>6 DEF RunFrame
<1> QED BY <1>1, <1>2

\* What is shown as green is carried out, whichever tab it is shown in.
LEMMA GreenStep ==
  ASSUME SetupTypeOK, AutoInv, GreenIsConfigured, SetupTypeOK', [SetupNext]_setupVars
  PROVE  GreenIsConfigured'
<1> USE DEF SetupTypeOK
<1> SUFFICES ASSUME NEW p \in Consoles, console'[p].succeeded # NoSetup
             PROVE  Cardinality(configured'[console'[p].succeeded]) = 3
  BY DEF GreenIsConfigured
<1>1. PICK a \in Apps : a = console'[p].succeeded
  BY DEF Console
<1>2. CASE console[p].succeeded = a
  <2>1. Cardinality(configured[a]) = 3
    BY <1>1, <1>2 DEF GreenIsConfigured
  <2>2. configured[a] \subseteq configured'[a] /\ configured'[a] \subseteq AllSteps
    BY ConfiguredGrows DEF AllSteps
  <2>3. IsFiniteSet(AllSteps) /\ Cardinality(AllSteps) = 3
    <3>1. IsFiniteSet({"webhook"}) /\ IsFiniteSet({"events"}) /\ IsFiniteSet({"contacts_range"})
      BY FS_Singleton
    <3>2. IsFiniteSet(({"webhook"} \cup {"events"}) \cup {"contacts_range"})
      BY <3>1, FS_Union
    <3>3. ({"webhook"} \cup {"events"}) \cup {"contacts_range"} = AllSteps
      BY DEF AllSteps
    <3> QED BY <3>2, <3>3, StepsAre
  <2>4. IsFiniteSet(configured[a])
    BY <2>2, <2>3, FS_Subset
  <2>5. configured[a] = AllSteps
    BY <2>1, <2>2, <2>3, FS_Subset
  <2>6. configured'[a] = AllSteps
    BY <2>2, <2>5
  <2> QED BY <1>1, <2>3, <2>6
<1>3. ASSUME NEW q \in Consoles, NEW ok \in BOOLEAN, auto[q] \in AutoRun, AutoStepDone(q, ok)
      PROVE  \/ console'[p].succeeded = console[p].succeeded
             \/ console'[p].succeeded = NoSetup
             \/ /\ q = p /\ ok /\ ~auto[p].failed /\ ~auto[p].changed /\ auto[p].step = 3
                /\ console'[p].succeeded = setup.app
  <2>1. CASE auto[q].step < 3
    BY <1>3, <2>1 DEF AutoStepDone
  <2>2. CASE ~(auto[q].step < 3)
    <3>1. auto[q].step = 3
      BY <1>3, <2>2 DEF AutoRun
    <3>2. PICK x : x = IF (auto[q].failed \/ ~ok) \/ auto[q].changed THEN NoSetup ELSE setup.app
      OBVIOUS
    <3>3. console' = [console EXCEPT ![q].succeeded = x]
      BY <1>3, <2>2, <3>2 DEF AutoStepDone
    <3>4. /\ p = q => console'[p].succeeded = x
          /\ p # q => console'[p] = console[p]
      BY <3>3 DEF Console
    <3> QED BY <3>1, <3>2, <3>4
  <2> QED BY <2>1, <2>2
<1>4. ASSUME NEW q \in Consoles, NoToken(q) \/ Configure(q) \/ ConfigureFails(q)
      PROVE  \/ console'[p].succeeded = console[p].succeeded
             \/ console'[p].succeeded = NoSetup
             \/ /\ Configure(p) /\ ~auto[p].failed /\ ~auto[p].changed /\ auto[p].step = 3
                /\ console'[p].succeeded = setup.app
  <2>1. auto[q] \in AutoRun
    BY <1>4 DEF NoToken, Configure, ConfigureFails
  <2>2. NoToken(q) => AutoStepDone(q, FALSE)
    BY DEF NoToken
  <2>3. Configure(q) => AutoStepDone(q, TRUE)
    BY DEF Configure
  <2>4. ConfigureFails(q) => AutoStepDone(q, FALSE)
    BY DEF ConfigureFails, RefusalCounted
  <2> QED BY <1>3, <1>4, <2>1, <2>2, <2>3, <2>4
<1>5. ASSUME NEW q \in Consoles,
             \/ LoadConfig(q) \/ LoadConfigFails(q) \/ SwitchToWizard(q) \/ FinishWizard(q) \/ LeaveConsole(q)
             \/ SaveAnswered(q) \/ RunAutoConfig(q)
      PROVE  console'[p].succeeded = console[p].succeeded \/ console'[p].succeeded = NoSetup
  <2> USE DEF Console
  <2>1. CASE LoadConfig(q)
    <3>1. PICK shown :
            /\ shown = IF setup = NoSetup THEN [console[q] EXCEPT !.mode = "wizard"]
                       ELSE [console[q] EXCEPT !.mode = "dashboard", !.hasSecret = TRUE]
            /\ console' = [console EXCEPT ![q] = shown]
      BY <2>1 DEF LoadConfig
    <3>2. console[q] \in Console
      OBVIOUS
    <3>3. shown.succeeded = console[q].succeeded
      BY <3>1, <3>2
    <3> QED BY <3>1, <3>3
  <2>2. CASE LoadConfigFails(q) \/ SwitchToWizard(q) \/ FinishWizard(q)
    BY <2>2 DEF LoadConfigFails, SwitchToWizard, FinishWizard
  <2>3. CASE LeaveConsole(q)
    BY <2>3 DEF LeaveConsole
  <2>4. CASE SaveAnswered(q) \/ RunAutoConfig(q)
    BY <2>4 DEF SaveAnswered, RunAutoConfig
  <2> QED BY <1>5, <2>1, <2>2, <2>3, <2>4
<1>6. ASSUME NEW q \in Consoles,
             \/ \E x \in Apps, s \in Apps \cup {Unchanged}, e \in BOOLEAN : SaveManualConfig(q, x, s, e)
             \/ FindSetup(q) \/ WriteSetup(q) \/ SetupTaken(q) \/ SaveSetupFails(q) \/ GetToken(q)
      PROVE  console' = console
  BY <1>6 DEF SaveManualConfig, FindSetup, WriteSetup, SetupTaken, SaveSetupFails, GetToken
<1>7. ASSUME (\E c \in Callers : ReadSetup(c) \/ CacheClient(c)) \/ ClientExpires \/ UNCHANGED setupVars
      PROVE  console' = console
  BY <1>7 DEF ReadSetup, CacheClient, ClientExpires, setupVars
<1>8. CASE /\ Configure(p) /\ ~auto[p].failed /\ ~auto[p].changed /\ auto[p].step = 3
           /\ console'[p].succeeded = setup.app
  <2>1. auto[p] \in AutoRun /\ auto[p] # NoAuto /\ auto[p].app # NoSetup
    BY <1>8 DEF Configure
  <2>2. auto[p].app = a
    BY <1>1, <1>8, <2>1 DEF AutoInv
  <2>3. Steps[3] \in configured'[a]
    BY <1>8, <2>2 DEF Configure
  <2>4. \A i \in 1 .. 2 : Steps[i] \in configured[a]
    BY <1>1, <1>8, <2>1 DEF AutoInv
  <2>5. \A i \in 1 .. 3 : Steps[i] \in configured'[a]
    BY <2>3, <2>4, ConfiguredGrows
  <2>6. configured'[a] = AllSteps
    <3>1. configured'[a] \subseteq AllSteps
      BY DEF AllSteps
    <3> QED BY <2>5, <3>1, StepsAre
  <2> QED BY <1>1, <2>6, StepsAre
<1>9. ASSUME NEW q \in Consoles, ConsoleSteps(q)
      PROVE  \/ console'[p].succeeded = console[p].succeeded
             \/ console'[p].succeeded = NoSetup
             \/ /\ Configure(p) /\ ~auto[p].failed /\ ~auto[p].changed /\ auto[p].step = 3
                /\ console'[p].succeeded = setup.app
  BY <1>4, <1>5, <1>6, <1>9 DEF ConsoleSteps
<1> QED BY <1>1, <1>2, <1>7, <1>8, <1>9 DEF SetupNext

\* The invariant of the set-up.
SetupInv == SetupTypeOK /\ CallerInv /\ AutoInv /\ SetupTakesEffect

LEMMA SetupInductive == SetupSpec => []SetupInv
<1>1. SetupInit => SetupInv
  <2> SUFFICES ASSUME SetupInit
               PROVE  SetupInv
    OBVIOUS
  <2>1. [mode |-> "loading", hasSecret |-> FALSE, succeeded |-> NoSetup] \in Console
    BY DEF Console
  <2>2. SetupTypeOK
    BY <2>1, SetupAssumption DEF SetupInit, SetupTypeOK
  <2>3. CallerInv /\ AutoInv /\ SetupTakesEffect
    BY DEF SetupInit, CallerInv, AutoInv, SetupTakesEffect, ClientIsCurrent, GreenIsConfigured
  <2> QED BY <2>2, <2>3 DEF SetupInv
<1>2. SetupInv /\ [SetupNext]_setupVars => SetupInv'
  BY SetupTypeStep, CallerStep, ClientStep, AutoStep, GreenStep DEF SetupInv, SetupTakesEffect
<1> QED BY <1>1, <1>2, PTL DEF SetupSpec

\* The row, the client and the wizards stay within their types: the application that a
\* finished wizard shows is one.
THEOREM SetupTypeCorrect == SetupSpec => []SetupTypeOK
<1>1. SetupInv => SetupTypeOK
  BY DEF SetupInv
<1> QED BY <1>1, SetupInductive, PTL

\* What an administrator sets up is what the backend works with, for any number of tabs,
\* services and applications: the shared client belongs to the row, and three green steps
\* have been carried out by one application.
THEOREM SetUpWorks == SetupSpec => []SetupTakesEffect
<1>1. SetupInv => SetupTakesEffect
  BY DEF SetupInv
<1> QED BY <1>1, SetupInductive, PTL

-----------------------------------------------------------------------------
(* The permissions of a role.                                               *)

LEMMA RoleFailsType ==
  ASSUME RolesTypeOK, RoleFails
  PROVE  roleErrors' \in 0 .. MaxRoleErrors
BY RolesAssumption DEF RolesTypeOK, RoleFails

LEMMA SelectType ==
  ASSUME RolesTypeOK, NEW p \in Editors, NEW r \in RoleIds, NEW shown \in Editor, Select(p, r, shown)
  PROVE  /\ selects' \in 0 .. MaxSelects
         /\ editor' \in [Editors -> Editor]
         /\ asks' \in [Editors -> SUBSET PermissionsAsked]
<1> USE DEF RolesTypeOK
<1>1. selects' \in 0 .. MaxSelects
  BY RolesAssumption DEF Select
<1>2. PICK orderly \in BOOLEAN : orderly = (asks[p] = {})
  OBVIOUS
<1>3. [shown EXCEPT !.selected = r, !.loading = TRUE, !.orderly = orderly] \in Editor
  BY DEF Editor
<1>4. editor' = [editor EXCEPT ![p] = [shown EXCEPT !.selected = r, !.loading = TRUE, !.orderly = orderly]]
  BY <1>2 DEF Select
<1>5. [of |-> r, answer |-> Waiting] \in PermissionsAsked
  BY DEF PermissionsAsked
<1>6. asks' \in [Editors -> SUBSET PermissionsAsked]
  BY <1>5 DEF Select
<1> QED BY <1>1, <1>3, <1>4, <1>6

LEMMA RolesTypeStep ==
  ASSUME RolesTypeOK, [RolesNext]_roleVars
  PROVE  RolesTypeOK'
<1> USE DEF RolesTypeOK
<1>1. ASSUME NEW p \in Editors, NEW r \in RoleIds, SelectRole(p, r) PROVE RolesTypeOK'
  <2>1. editor[p] \in Editor
    OBVIOUS
  <2> QED BY <1>1, <2>1, SelectType DEF SelectRole
<1>2. ASSUME NEW p \in Editors, NEW r \in RoleIds, CreateRole(p, r) PROVE RolesTypeOK'
  <2>1. [editor[p] EXCEPT !.listed = @ \cup {r}] \in Editor
    <3>1. editor[p] \in Editor
      OBVIOUS
    <3> QED BY <3>1 DEF Editor
  <2>2. /\ selects' \in 0 .. MaxSelects
        /\ editor' \in [Editors -> Editor]
        /\ asks' \in [Editors -> SUBSET PermissionsAsked]
    BY <1>2, <2>1, SelectType DEF CreateRole
  <2> QED BY <1>2, <2>2 DEF CreateRole
<1>3. ASSUME NEW p \in Editors, NEW a \in asks[p], AnswerPermissions(p, a) PROVE RolesTypeOK'
  <2>1. a \in PermissionsAsked
    OBVIOUS
  <2>2. [a EXCEPT !.answer = Failed] \in PermissionsAsked
    BY <2>1 DEF PermissionsAsked
  <2>3. [a EXCEPT !.answer = grants[a.of]] \in PermissionsAsked
    BY <2>1 DEF PermissionsAsked
  <2>4. PICK b \in PermissionsAsked : asks' = [asks EXCEPT ![p] = (@ \ {a}) \cup {b}]
    BY <1>3, <2>2, <2>3 DEF AnswerPermissions
  <2>5. asks' \in [Editors -> SUBSET PermissionsAsked]
    BY <2>4
  <2>6. roleErrors' \in 0 .. MaxRoleErrors
    BY <1>3, RoleFailsType DEF AnswerPermissions
  <2> QED BY <1>3, <2>5, <2>6 DEF AnswerPermissions
<1>4. ASSUME NEW p \in Editors, NEW a \in asks[p], ShowPermissions(p, a) PROVE RolesTypeOK'
  <2>1. a \in PermissionsAsked /\ editor[p] \in Editor
    OBVIOUS
  <2>2. PICK grid \in SUBSET Shown : grid = IF a.answer = Failed THEN {} ELSE a.answer \cap Shown
    OBVIOUS
  <2>3. PICK of \in RoleIds \cup {NoId} : of = IF a.answer = Failed THEN NoId ELSE a.of
    BY <2>1 DEF PermissionsAsked
  <2>4. [editor[p] EXCEPT !.grid = grid, !.of = of, !.loading = FALSE] \in Editor
    BY <2>1 DEF Editor
  <2>5. editor' = [editor EXCEPT ![p] = [editor[p] EXCEPT !.grid = grid, !.of = of, !.loading = FALSE]]
    BY <1>4, <2>2, <2>3 DEF ShowPermissions
  <2>6. editor' \in [Editors -> Editor]
    BY <2>4, <2>5
  <2> QED BY <1>4, <2>6 DEF ShowPermissions
<1>5. ASSUME NEW p \in Editors, NEW cell \in Shown, TogglePerm(p, cell) PROVE RolesTypeOK'
  <2>1. PICK grid \in SUBSET Shown : grid =
          IF cell \in editor[p].grid THEN editor[p].grid \ {cell} ELSE editor[p].grid \cup {cell}
    BY DEF Editor
  <2>2. editor' = [editor EXCEPT ![p].grid = grid]
    BY <1>5, <2>1 DEF TogglePerm
  <2>4. [editor[p] EXCEPT !.grid = grid] \in Editor
    <3>1. editor[p] \in Editor
      OBVIOUS
    <3> QED BY <3>1 DEF Editor
  <2>3. editor' \in [Editors -> Editor]
    BY <2>2, <2>4
  <2> QED BY <1>5, <2>3 DEF TogglePerm
<1>6. ASSUME NEW r \in RoleIds, DeleteRole(r) PROVE RolesTypeOK'
  BY <1>6 DEF DeleteRole
<1>7. ASSUME NEW p \in Editors, SavePermissions(p) PROVE RolesTypeOK'
  <2>1. [of |-> editor[p].selected, grid |-> editor[p].grid, at |-> "find"] \in GridSave
    BY <1>7 DEF SavePermissions, GridSave, Editor
  <2>2. gridSave' \in [Editors -> GridSave \cup {NoGridSave}]
    BY <1>7, <2>1 DEF SavePermissions
  <2>3. crossed' \subseteq RoleIds
    BY <1>7 DEF SavePermissions, Editor
  <2>4. gridSaves' \in 0 .. MaxGridSaves
    BY <1>7, RolesAssumption DEF SavePermissions
  <2> QED BY <1>7, <2>2, <2>3, <2>4 DEF SavePermissions
<1>8. ASSUME NEW p \in Editors, FindRole(p) PROVE RolesTypeOK'
  <2>1. gridSave[p] \in GridSave
    BY <1>8 DEF FindRole, GridSaveAt
  <2>2. [gridSave[p] EXCEPT !.at = "delete"] \in GridSave
    BY <2>1 DEF GridSave
  <2>3. gridSave' \in [Editors -> GridSave \cup {NoGridSave}]
    BY <1>8, <2>2 DEF FindRole
  <2> QED BY <1>8, <2>3 DEF FindRole
<1>9. ASSUME NEW p \in Editors, DeleteGrants(p) PROVE RolesTypeOK'
  <2>1. gridSave[p] \in GridSave
    BY <1>9 DEF DeleteGrants, GridSaveAt
  <2>2. [gridSave[p] EXCEPT !.at = "insert"] \in GridSave
    BY <2>1 DEF GridSave
  <2>3. gridSave' \in [Editors -> GridSave \cup {NoGridSave}]
    BY <1>9, <2>2 DEF DeleteGrants
  <2>4. PICK r \in RoleIds : r = gridSave[p].of
    BY <2>1 DEF GridSave
  <2>5. grants' = [grants EXCEPT ![r] = {}] /\ stored' \in {stored, [stored EXCEPT ![r] = {}]}
    BY <1>9, <2>4 DEF DeleteGrants, LeftAfterDelete
  <2>6. broken' \subseteq RoleIds
    BY <1>9 DEF DeleteGrants
  <2> QED BY <1>9, <2>3, <2>5, <2>6 DEF DeleteGrants
<1>10. ASSUME NEW p \in Editors, InsertGrants(p) PROVE RolesTypeOK'
  <2>1. gridSave[p] \in GridSave
    BY <1>10 DEF InsertGrants, GridSaveAt
  <2>2. PICK r \in RoleIds : r = gridSave[p].of
    BY <2>1 DEF GridSave
  <2>3. PICK grid \in SUBSET Cells : grid = gridSave[p].grid
    BY <2>1 DEF GridSave, Cells
  <2>4. grants' = [grants EXCEPT ![r] = @ \cup grid] /\ stored' = [stored EXCEPT ![r] = grid] /\ r \in roles
    BY <1>10, <2>2, <2>3 DEF InsertGrants
  <2> QED BY <1>10, <2>4 DEF InsertGrants
<1>11. ASSUME NEW p \in Editors, GrantsTaken(p) \/ GridSaveFails(p) PROVE RolesTypeOK'
  <2>1. gridSave[p] \in GridSave /\ EndsBroken(p)
    BY <1>11 DEF GrantsTaken, GridSaveFails, GridSaveAt
  <2>2. broken' \subseteq RoleIds
    BY <2>1 DEF EndsBroken, GridSave
  <2>3. roleErrors' \in 0 .. MaxRoleErrors
    BY <1>11, RoleFailsType DEF GrantsTaken, GridSaveFails
  <2> QED BY <2>1, <2>2, <2>3 DEF EndsBroken
<1>12. CASE UNCHANGED roleVars
  BY <1>12 DEF roleVars
<1> QED BY <1>1, <1>2, <1>3, <1>4, <1>5, <1>6, <1>7, <1>8, <1>9, <1>10, <1>11, <1>12 DEF RolesNext

\* A save of the role r is in flight in p, between its two steps.
SavesRole(p, r)    == gridSave[p] # NoGridSave /\ gridSave[p].of = r
BetweenSteps(p, r) == SavesRole(p, r) /\ gridSave[p].at = "insert"

\* Where saves do not cross, a role has one save at a time and no permissions between its
\* two steps.
SavedApart(r) ==
  /\ \A p, q \in Editors : SavesRole(p, r) /\ SavesRole(q, r) => p = q
  /\ \A p \in Editors : BetweenSteps(p, r) => grants[r] = {}
  /\ r \in roles =>
       \/ grants[r] = stored[r]
       \/ grants[r] = {} /\ (r \in broken \/ \E p \in Editors : BetweenSteps(p, r))

LEMMA SavesFrame ==
  ASSUME RolesTypeOK, [RolesNext]_roleVars
  PROVE  \/ /\ UNCHANGED <<grants, gridSave, broken, crossed>>
            /\ \A r \in RoleIds : (r \in roles' => r \in roles /\ stored'[r] = stored[r])
                                  \/ (grants[r] = {} /\ stored'[r] = {})
         \/ \E r \in RoleIds : DeleteRole(r)
         \/ \E p \in Editors :
              \/ SavePermissions(p) \/ FindRole(p) \/ DeleteGrants(p) \/ InsertGrants(p)
              \/ (GrantsTaken(p) \/ GridSaveFails(p))
<1> USE DEF RolesTypeOK
<1> DEFINE Kept == /\ UNCHANGED <<grants, gridSave, broken, crossed>>
                   /\ \A r \in RoleIds : (r \in roles' => r \in roles /\ stored'[r] = stored[r])
                                         \/ (grants[r] = {} /\ stored'[r] = {})
<1>1. ASSUME NEW p \in Editors, NEW r \in RoleIds, CreateRole(p, r)
      PROVE  Kept
  BY <1>1 DEF CreateRole
<1>2. ASSUME NEW p \in Editors,
             \/ \E r \in RoleIds : SelectRole(p, r)
             \/ \E a \in asks[p] : AnswerPermissions(p, a) \/ ShowPermissions(p, a)
             \/ \E cell \in Shown : TogglePerm(p, cell)
      PROVE  Kept
  BY <1>2 DEF SelectRole, AnswerPermissions, ShowPermissions, TogglePerm
<1>3. ASSUME UNCHANGED roleVars
      PROVE  Kept
  BY <1>3 DEF roleVars
<1> HIDE DEF Kept
<1>4. \/ Kept
      \/ \E r \in RoleIds : DeleteRole(r)
      \/ \E p \in Editors :
           \/ SavePermissions(p) \/ FindRole(p) \/ DeleteGrants(p) \/ InsertGrants(p)
           \/ (GrantsTaken(p) \/ GridSaveFails(p))
  BY <1>1, <1>2, <1>3 DEF RolesNext
<1> QED BY <1>4 DEF Kept

\* Saves of other roles do not matter.
LEMMA SavedApartFrame ==
  ASSUME NEW r \in RoleIds, SavedApart(r),
         \A q \in Editors : SavesRole(q, r)' => SavesRole(q, r),
         \A q \in Editors : BetweenSteps(q, r)' <=> BetweenSteps(q, r),
         grants'[r] = grants[r], stored'[r] = stored[r],
         r \in roles' => r \in roles, r \in broken => r \in broken'
  PROVE  SavedApart(r)'
<1>1. \A p, q \in Editors : SavesRole(p, r)' /\ SavesRole(q, r)' => p = q
  BY DEF SavedApart
<1>2. \A p \in Editors : BetweenSteps(p, r)' => grants'[r] = {}
  BY DEF SavedApart
<1>3. r \in roles' =>
        \/ grants'[r] = stored'[r]
        \/ grants'[r] = {} /\ (r \in broken' \/ \E p \in Editors : BetweenSteps(p, r)')
  BY DEF SavedApart
<1> QED BY <1>1, <1>2, <1>3 DEF SavedApart

LEMMA SavedApartStep ==
  ASSUME RolesTypeOK, [RolesNext]_roleVars, NEW r \in RoleIds, r \notin crossed', r \notin crossed => SavedApart(r)
  PROVE  SavedApart(r)'
<1> USE DEF RolesTypeOK
<1>1. CASE /\ UNCHANGED <<grants, gridSave, broken, crossed>>
           /\ \A x \in RoleIds : (x \in roles' => x \in roles /\ stored'[x] = stored[x])
                                 \/ (grants[x] = {} /\ stored'[x] = {})
  <2>1. SavedApart(r)
    BY <1>1
  <2>2. /\ \A q \in Editors : SavesRole(q, r)' <=> SavesRole(q, r)
        /\ \A q \in Editors : BetweenSteps(q, r)' <=> BetweenSteps(q, r)
        /\ grants'[r] = grants[r] /\ broken' = broken
    BY <1>1 DEF SavesRole, BetweenSteps
  <2>5. \A p, q \in Editors : SavesRole(p, r)' /\ SavesRole(q, r)' => p = q
    BY <2>1, <2>2 DEF SavedApart
  <2>3. CASE r \in roles' => r \in roles /\ stored'[r] = stored[r]
    <3>1. \A p \in Editors : BetweenSteps(p, r)' => grants'[r] = {}
      BY <2>1, <2>2 DEF SavedApart
    <3>2. r \in roles' =>
            \/ grants'[r] = stored'[r]
            \/ grants'[r] = {} /\ (r \in broken' \/ \E p \in Editors : BetweenSteps(p, r)')
      BY <2>1, <2>2, <2>3 DEF SavedApart
    <3> QED BY <2>5, <3>1, <3>2 DEF SavedApart
  <2>4. CASE grants[r] = {} /\ stored'[r] = {}
    BY <2>2, <2>4, <2>5 DEF SavedApart
  <2> QED BY <1>1, <2>3, <2>4
<1>2. ASSUME NEW x \in RoleIds, DeleteRole(x)
      PROVE  SavedApart(r)'
  <2>1. /\ roles' = roles \ {x} /\ grants' = [grants EXCEPT ![x] = {}]
        /\ UNCHANGED <<gridSave, stored, broken, crossed>>
    BY <1>2 DEF DeleteRole
  <2>2. CASE x # r
    BY <2>1, <2>2, SavedApartFrame DEF SavesRole, BetweenSteps
  <2>3. CASE x = r
    BY <2>1, <2>3 DEF SavedApart, SavesRole, BetweenSteps
  <2> QED BY <2>2, <2>3
<1>3. ASSUME NEW p \in Editors, SavePermissions(p)
      PROVE  SavedApart(r)'
  <2>1. PICK s : /\ s.of = editor[p].selected /\ s.at = "find"
                 /\ gridSave' = [gridSave EXCEPT ![p] = s]
    BY <1>3 DEF SavePermissions
  <2>2. r \notin crossed
    BY <1>3 DEF SavePermissions
  <2>3. s.of = r => \A q \in Editors : ~SavesRole(q, r)
    BY <1>3, <2>1 DEF SavePermissions, SavesOf, SavesRole
  <2>4. gridSave[p] = NoGridSave /\ UNCHANGED <<roles, grants, stored, broken>>
    BY <1>3 DEF SavePermissions
  <2>5. \A q \in Editors : /\ q # p => gridSave'[q] = gridSave[q]
                           /\ q = p => gridSave'[q] = s
    BY <2>1
  <2> QED BY <2>1, <2>2, <2>3, <2>4, <2>5 DEF SavedApart, SavesRole, BetweenSteps
<1>4. ASSUME NEW p \in Editors, FindRole(p)
      PROVE  SavedApart(r)'
  <2>1. gridSave[p] \in GridSave /\ gridSave[p].at = "find" /\ gridSave[p] # NoGridSave
    BY <1>4 DEF FindRole, GridSaveAt
  <2>2. PICK s : /\ s = NoGridSave \/ (s.of = gridSave[p].of /\ s.at = "delete")
                 /\ gridSave' = [gridSave EXCEPT ![p] = s]
    <3>1. [gridSave[p] EXCEPT !.at = "delete"].of = gridSave[p].of /\ [gridSave[p] EXCEPT !.at = "delete"].at = "delete"
      BY <2>1 DEF GridSave
    <3> QED BY <1>4, <3>1 DEF FindRole
  <2>3. \A q \in Editors : /\ q # p => gridSave'[q] = gridSave[q]
                           /\ q = p => gridSave'[q] = s
    BY <2>2
  <2>4. UNCHANGED <<roles, grants, stored, broken, crossed>>
    BY <1>4 DEF FindRole
  <2>5. /\ \A q \in Editors : SavesRole(q, r)' => SavesRole(q, r)
        /\ \A q \in Editors : BetweenSteps(q, r)' <=> BetweenSteps(q, r)
    BY <2>1, <2>2, <2>3 DEF SavesRole, BetweenSteps
  <2> QED BY <2>4, <2>5, SavedApartFrame
<1>5. ASSUME NEW p \in Editors, DeleteGrants(p)
      PROVE  SavedApart(r)'
  <2>1. gridSave[p] \in GridSave /\ gridSave[p].at = "delete" /\ gridSave[p] # NoGridSave
    BY <1>5 DEF DeleteGrants, GridSaveAt
  <2>2. PICK x \in RoleIds : x = gridSave[p].of
    BY <2>1 DEF GridSave
  <2>3. PICK t : t = [gridSave[p] EXCEPT !.at = "insert"]
    OBVIOUS
  <2>4. t \in GridSave /\ t.of = x /\ t.at = "insert" /\ t # NoGridSave
    BY <2>1, <2>2, <2>3, RolesAssumption DEF GridSave
  <2>5. PICK s : /\ gridSave' = [gridSave EXCEPT ![p] = s]
                 /\ \/ s = NoGridSave /\ stored' = [stored EXCEPT ![x] = {}] /\ broken' = broken \ {x}
                    \/ s = t /\ UNCHANGED <<stored, broken>>
    BY <1>5, <2>2, <2>3 DEF DeleteGrants
  <2>6. grants' = [grants EXCEPT ![x] = {}] /\ UNCHANGED <<roles, crossed>>
    BY <1>5, <2>2 DEF DeleteGrants, LeftAfterDelete
  <2>7. \A q \in Editors : /\ q # p => gridSave'[q] = gridSave[q]
                           /\ q = p => gridSave'[q] = s
    BY <2>5
  <2>8. CASE x # r
    <3>1. /\ \A q \in Editors : SavesRole(q, r)' => SavesRole(q, r)
          /\ \A q \in Editors : BetweenSteps(q, r)' <=> BetweenSteps(q, r)
      BY <2>1, <2>2, <2>4, <2>5, <2>7, <2>8 DEF SavesRole, BetweenSteps
    <3>2. /\ grants'[r] = grants[r] /\ stored'[r] = stored[r]
          /\ r \in broken => r \in broken'
      BY <2>5, <2>6, <2>8
    <3> QED BY <2>6, <3>1, <3>2, SavedApartFrame
  <2>9. CASE x = r
    <3>1. \A q \in Editors : SavesRole(q, r) => q = p
      BY <2>1, <2>2, <2>6, <2>9 DEF SavedApart, SavesRole
    <3>2. \A q \in Editors : SavesRole(q, r)' => q = p
      BY <2>7, <3>1 DEF SavesRole
    <3>3. grants'[r] = {}
      BY <2>6, <2>9
    <3>4. stored'[r] = {} \/ BetweenSteps(p, r)'
      BY <2>4, <2>5, <2>7, <2>9 DEF BetweenSteps, SavesRole
    <3>5. \A q, z \in Editors : SavesRole(q, r)' /\ SavesRole(z, r)' => q = z
      BY <3>2
    <3> QED BY <3>3, <3>4, <3>5 DEF SavedApart
  <2> QED BY <2>8, <2>9
<1>6. ASSUME NEW p \in Editors, InsertGrants(p)
      PROVE  SavedApart(r)'
  <2>1. gridSave[p] \in GridSave /\ gridSave[p].at = "insert" /\ gridSave[p] # NoGridSave
    BY <1>6 DEF InsertGrants, GridSaveAt
  <2>2. PICK x \in RoleIds : x = gridSave[p].of
    BY <2>1 DEF GridSave
  <2>3. PICK grid : grid = gridSave[p].grid
    OBVIOUS
  <2>4. /\ grants' = [grants EXCEPT ![x] = @ \cup grid] /\ stored' = [stored EXCEPT ![x] = grid]
        /\ broken' = broken \ {x} /\ gridSave' = [gridSave EXCEPT ![p] = NoGridSave]
        /\ UNCHANGED <<roles, crossed>>
    BY <1>6, <2>2, <2>3 DEF InsertGrants
  <2>5. \A q \in Editors : /\ q # p => gridSave'[q] = gridSave[q]
                           /\ q = p => gridSave'[q] = NoGridSave
    BY <2>4
  <2>6. CASE x # r
    <3>1. /\ \A q \in Editors : SavesRole(q, r)' => SavesRole(q, r)
          /\ \A q \in Editors : BetweenSteps(q, r)' <=> BetweenSteps(q, r)
      BY <2>1, <2>2, <2>5, <2>6 DEF SavesRole, BetweenSteps
    <3>2. /\ grants'[r] = grants[r] /\ stored'[r] = stored[r]
          /\ r \in broken => r \in broken'
      BY <2>4, <2>6
    <3> QED BY <2>4, <3>1, <3>2, SavedApartFrame
  <2>7. CASE x = r
    <3>1. grants[r] = {} /\ \A q \in Editors : SavesRole(q, r) => q = p
      BY <2>1, <2>2, <2>4, <2>7 DEF SavedApart, SavesRole, BetweenSteps
    <3>2. \A q \in Editors : ~SavesRole(q, r)'
      BY <2>5, <3>1 DEF SavesRole
    <3>3. grants'[r] = stored'[r]
      BY <2>4, <2>7, <3>1
    <3>4. \A q, z \in Editors : SavesRole(q, r)' /\ SavesRole(z, r)' => q = z
      BY <3>2
    <3>5. \A q \in Editors : ~BetweenSteps(q, r)'
      BY <3>2 DEF BetweenSteps
    <3> QED BY <3>3, <3>4, <3>5 DEF SavedApart
  <2> QED BY <2>6, <2>7
<1>7. ASSUME NEW p \in Editors, GrantsTaken(p) \/ GridSaveFails(p)
      PROVE  SavedApart(r)'
  <2>1. gridSave[p] \in GridSave /\ gridSave[p] # NoGridSave
    BY <1>7 DEF GrantsTaken, GridSaveFails, GridSaveAt
  <2>2. PICK x \in RoleIds : x = gridSave[p].of
    BY <2>1 DEF GridSave
  <2>3. /\ broken' = IF gridSave[p].at = "insert" THEN broken \cup {x} ELSE broken
        /\ gridSave' = [gridSave EXCEPT ![p] = NoGridSave]
        /\ UNCHANGED <<roles, grants, stored, crossed>>
    BY <1>7, <2>2 DEF GrantsTaken, GridSaveFails, EndsBroken
  <2>4. \A q \in Editors : /\ q # p => gridSave'[q] = gridSave[q]
                           /\ q = p => gridSave'[q] = NoGridSave
    BY <2>3
  <2> QED BY <2>1, <2>2, <2>3, <2>4 DEF SavedApart, SavesRole, BetweenSteps
<1> QED BY <1>1, <1>2, <1>3, <1>4, <1>5, <1>6, <1>7, SavesFrame

\* A role that was selected while nothing was on its way is the one that was asked for.
AskedInOrder(p) ==
  /\ editor[p].orderly => \A a \in asks[p] : a.of = editor[p].selected
  /\ GridOfRole(p)

LEMMA AskedStep ==
  ASSUME RolesTypeOK, [RolesNext]_roleVars, NEW p \in Editors, AskedInOrder(p)
  PROVE  AskedInOrder(p)'
<1> USE DEF RolesTypeOK
<1>0. editor[p] \in Editor
  OBVIOUS
<1>1. ASSUME NEW q \in Editors, NEW r \in RoleIds, NEW shown \in Editor, Select(q, r, shown)
      PROVE  AskedInOrder(p)'
  <2>1. CASE q # p
    <3>1. editor'[p] = editor[p] /\ asks'[p] = asks[p]
      BY <1>1, <2>1 DEF Select
    <3> QED BY <3>1 DEF AskedInOrder, GridOfRole
  <2>2. CASE q = p
    <3>1. PICK orderly \in BOOLEAN : orderly = (asks[p] = {})
      OBVIOUS
    <3>2. editor'[p] = [shown EXCEPT !.selected = r, !.loading = TRUE, !.orderly = orderly]
      BY <1>1, <2>2, <3>1 DEF Select
    <3>3. editor'[p].selected = r /\ editor'[p].orderly = orderly
      BY <3>2 DEF Editor
    <3>4. PICK a : a = [of |-> r, answer |-> Waiting]
      OBVIOUS
    <3>5. asks'[p] = asks[p] \cup {a} /\ a.of = r
      BY <1>1, <2>2, <3>4 DEF Select
    <3> QED BY <3>1, <3>3, <3>5 DEF AskedInOrder, GridOfRole
  <2> QED BY <2>1, <2>2
<1>2. ASSUME NEW q \in Editors, NEW r \in RoleIds, SelectRole(q, r) \/ CreateRole(q, r)
      PROVE  AskedInOrder(p)'
  <2>1. editor[q] \in Editor
    OBVIOUS
  <2>2. [editor[q] EXCEPT !.listed = @ \cup {r}] \in Editor
    BY <2>1 DEF Editor
  <2> QED BY <1>1, <1>2, <2>1, <2>2 DEF SelectRole, CreateRole
<1>3. ASSUME NEW q \in Editors, NEW a \in asks[q], AnswerPermissions(q, a)
      PROVE  AskedInOrder(p)'
  <2>1. CASE q # p
    <3>1. editor'[p] = editor[p] /\ asks'[p] = asks[p]
      BY <1>3, <2>1 DEF AnswerPermissions
    <3> QED BY <3>1 DEF AskedInOrder, GridOfRole
  <2>2. CASE q = p
    <3>1. a \in PermissionsAsked
      OBVIOUS
    <3>2. /\ [a EXCEPT !.answer = Failed].of = a.of
          /\ [a EXCEPT !.answer = grants[a.of]].of = a.of
      BY <3>1 DEF PermissionsAsked
    <3>3. PICK b : b.of = a.of /\ asks' = [asks EXCEPT ![p] = (@ \ {a}) \cup {b}]
      BY <1>3, <2>2, <3>2 DEF AnswerPermissions
    <3>4. asks'[p] = (asks[p] \ {a}) \cup {b} /\ editor' = editor
      BY <1>3, <3>3 DEF AnswerPermissions
    <3> QED BY <2>2, <3>3, <3>4 DEF AskedInOrder, GridOfRole
  <2> QED BY <2>1, <2>2
<1>4. ASSUME NEW q \in Editors, NEW a \in asks[q], ShowPermissions(q, a)
      PROVE  AskedInOrder(p)'
  <2>1. CASE q # p
    <3>1. editor'[p] = editor[p] /\ asks'[p] = asks[p]
      BY <1>4, <2>1 DEF ShowPermissions
    <3> QED BY <3>1 DEF AskedInOrder, GridOfRole
  <2>2. CASE q = p
    <3>1. PICK grid, of : /\ of = IF a.answer = Failed THEN NoId ELSE a.of
                          /\ editor'[p] = [editor[p] EXCEPT !.grid = grid, !.of = of, !.loading = FALSE]
      BY <1>4, <2>2 DEF ShowPermissions
    <3>2. /\ editor'[p].of = of /\ editor'[p].selected = editor[p].selected
          /\ editor'[p].orderly = editor[p].orderly
      BY <1>0, <3>1 DEF Editor
    <3>3. asks'[p] = asks[p] \ {a}
      BY <1>4, <2>2 DEF ShowPermissions
    <3> QED BY <2>2, <3>1, <3>2, <3>3 DEF AskedInOrder, GridOfRole
  <2> QED BY <2>1, <2>2
<1>5. ASSUME NEW q \in Editors, NEW cell \in Shown, TogglePerm(q, cell)
      PROVE  AskedInOrder(p)'
  <2>1. /\ editor'[p].of = editor[p].of /\ editor'[p].selected = editor[p].selected
        /\ editor'[p].orderly = editor[p].orderly /\ asks' = asks
    BY <1>0, <1>5 DEF TogglePerm, Editor
  <2> QED BY <2>1 DEF AskedInOrder, GridOfRole
<1>6. ASSUME NEW q \in Editors,
             \/ SavePermissions(q) \/ FindRole(q) \/ DeleteGrants(q) \/ InsertGrants(q)
             \/ GrantsTaken(q) \/ GridSaveFails(q)
      PROVE  UNCHANGED <<editor, asks>>
  BY <1>6 DEF SavePermissions, FindRole, DeleteGrants, InsertGrants, GrantsTaken, GridSaveFails, EndsBroken
<1>7. CASE (\E r \in RoleIds : DeleteRole(r)) \/ UNCHANGED roleVars
  BY <1>7 DEF DeleteRole, roleVars, AskedInOrder, GridOfRole
<1>8. CASE UNCHANGED <<editor, asks>>
  BY <1>8 DEF AskedInOrder, GridOfRole
<1> QED BY <1>2, <1>3, <1>4, <1>5, <1>6, <1>7, <1>8 DEF RolesNext

\* The invariant of the grids.
RolesInv ==
  /\ RolesTypeOK
  /\ \A r \in RoleIds \ crossed : SavedApart(r)
  /\ \A p \in Editors : AskedInOrder(p)

LEMMA RolesInductive == RolesSpec => []RolesInv
<1>1. RolesInit => RolesInv
  <2> SUFFICES ASSUME RolesInit
               PROVE  RolesInv
    OBVIOUS
  <2>1. \A shown \in SUBSET RoleIds : [listed |-> shown, selected |-> NoId, grid |-> {},
          loading |-> FALSE, of |-> NoId, orderly |-> TRUE] \in Editor
    BY DEF Editor
  <2>2. editor \in [Editors -> Editor]
    BY <2>1, RolesAssumption DEF RolesInit
  <2>6. /\ grants = [r \in RoleIds |-> IF r \in SystemRoles THEN Cells ELSE {}]
        /\ roles = SystemRoles /\ stored = grants
    BY DEF RolesInit
  <2>7. /\ grants \in [RoleIds -> SUBSET Cells] /\ stored \in [RoleIds -> SUBSET Cells]
        /\ \A r \in RoleIds \ roles : grants[r] = {}
    BY <2>6
  <2>8. /\ asks \in [Editors -> SUBSET PermissionsAsked]
        /\ gridSave \in [Editors -> GridSave \cup {NoGridSave}]
    BY DEF RolesInit
  <2>9. selects \in 0 .. MaxSelects /\ gridSaves \in 0 .. MaxGridSaves /\ roleErrors \in 0 .. MaxRoleErrors
    BY RolesAssumption DEF RolesInit
  <2>10. crossed \subseteq RoleIds /\ broken \subseteq RoleIds
    BY DEF RolesInit
  <2>3. RolesTypeOK
    BY <2>2, <2>6, <2>7, <2>8, <2>9, <2>10, RolesAssumption DEF RolesTypeOK
  <2>4. ASSUME NEW r \in RoleIds
        PROVE  SavedApart(r)
    <3>1. \A p \in Editors : ~SavesRole(p, r)
      BY DEF RolesInit, SavesRole
    <3>2. grants = stored
      BY DEF RolesInit
    <3>3. \A p \in Editors : ~BetweenSteps(p, r)
      BY <3>1 DEF BetweenSteps
    <3> QED BY <3>1, <3>2, <3>3 DEF SavedApart
  <2>5. \A p \in Editors : AskedInOrder(p)
    BY DEF RolesInit, AskedInOrder, GridOfRole
  <2> QED BY <2>3, <2>4, <2>5 DEF RolesInv
<1>2. RolesInv /\ [RolesNext]_roleVars => RolesInv'
  <2> SUFFICES ASSUME RolesInv, [RolesNext]_roleVars
               PROVE  RolesInv'
    OBVIOUS
  <2>1. RolesTypeOK'
    BY RolesTypeStep DEF RolesInv
  <2>2. ASSUME NEW r \in RoleIds, r \notin crossed'
        PROVE  SavedApart(r)'
    BY <2>2, SavedApartStep DEF RolesInv
  <2>3. ASSUME NEW p \in Editors
        PROVE  AskedInOrder(p)'
    BY AskedStep DEF RolesInv
  <2>4. (\A r \in RoleIds \ crossed : SavedApart(r))'
    BY <2>2
  <2>5. (\A p \in Editors : AskedInOrder(p))'
    BY <2>3
  <2> QED BY <2>1, <2>4, <2>5 DEF RolesInv
<1> QED BY <1>1, <1>2, PTL DEF RolesSpec

\* The pages, the requests and the rows of roles stay within their types: roles that do not
\* exist have no permissions.
THEOREM RolesTypeCorrect == RolesSpec => []RolesTypeOK
<1>1. RolesInv => RolesTypeOK
  BY DEF RolesInv
<1> QED BY <1>1, RolesInductive, PTL

\* A role has the grid that was stored last, whole, or nothing while a save of it is under
\* way or after it broke off, unless saves of it crossed; and a page shows the grid of the
\* role that is selected when that was asked for alone.
THEOREM GridsAreKept == RolesSpec => []GridKept
<1>1. RolesInv => GridKept
  <2> SUFFICES ASSUME RolesInv
               PROVE  GridKept
    OBVIOUS
  <2>1. ASSUME NEW r \in roles \ crossed
        PROVE  StoredWhole(r)
    <3>1. r \in RoleIds /\ SavedApart(r)
      BY DEF RolesInv, RolesTypeOK
    <3> QED BY <3>1 DEF SavedApart, StoredWhole, BetweenSteps, SavesRole, SavesOf, GridSaveAt
  <2>2. \A p \in Editors : GridOfRole(p)
    BY DEF RolesInv, AskedInOrder
  <2> QED BY <2>1, <2>2 DEF GridKept
<1> QED BY <1>1, RolesInductive, PTL

-----------------------------------------------------------------------------
(* The cells of a task.                                                     *)

\* What a page holds is in the row, or is known to be behind.
PagesFollow == \A b \in Boards, k \in Keys : <<b, k>> \notin behind => sheet[b][k] \in {0, metadata[k]}

\* What an edit takes along is in the row, or was known to be behind: the values it sends, the
\* row it has merged them into, the row it answers with.
Follows(t) ==
  \A k \in Keys \ t.risk :
    /\ t.at = "sent" /\ k # t.field /\ t.sent[k] # 0 => t.sent[k] = metadata[k]
    /\ t.at = "read" /\ k # t.field => t.row[k] = metadata[k]
    /\ t.at = "saved" => t.row[k] = metadata[k]

\* An edit writes what was typed, and its page still shows that where it waits for nothing else.
AsTyped(e, t) ==
  /\ t.sent[t.field] # 0
  /\ t.at = "read" => t.row[t.field] = t.sent[t.field]
  /\ t.heard /\ t.alone => sheet[t.of][t.field] = t.sent[t.field] /\ \A x \in Awaited(t.of) : x = e

EditsFollow == \A e \in 1 .. MaxTyped : typing[e] \in Typing => Follows(typing[e])
CellAsTyped == \A e \in 1 .. MaxTyped : typing[e] \in Typing => AsTyped(e, typing[e])

\* The row of a review is the one that is stored, beside the scores.
ReviewFollows ==
  reviewed \in Reviewed =>
    \A k \in Keys \ (reviewed.risk \cup {Score}) : reviewed.row[k] = metadata[k]

\* The invariant of the cells.
GridInv ==
  /\ TaskGridTypeOK /\ PagesFollow /\ EditsFollow /\ CellAsTyped /\ ReviewFollows
  /\ CellsKept

LEMMA EditIs ==
  ASSUME TaskGridTypeOK, NEW e \in 1 .. MaxTyped
  PROVE  typing[e] \in Typing <=> typing[e] # NoTyping
BY NoEditAssumption DEF TaskGridTypeOK

\* The edit that Missed leaves: only its risk has grown.
LEMMA MissedIs ==
  ASSUME TaskGridTypeOK, NEW W \in SUBSET Keys, NEW e, NEW x \in 1 .. MaxTyped
  PROVE  /\ Missed(W, e)[x] \in Typing \cup {NoTyping}
         /\ Missed(W, e)[x] \in Typing <=> typing[x] \in Typing
         /\ typing[x] \in Typing =>
              /\ Missed(W, e)[x].of = typing[x].of /\ Missed(W, e)[x].field = typing[x].field
              /\ Missed(W, e)[x].sent = typing[x].sent /\ Missed(W, e)[x].row = typing[x].row
              /\ Missed(W, e)[x].at = typing[x].at
              /\ Missed(W, e)[x].heard = typing[x].heard /\ Missed(W, e)[x].alone = typing[x].alone
              /\ x # e => Missed(W, e)[x].risk =
                   typing[x].risk \cup {k \in W : typing[x].at # "sent" \/ typing[x].sent[k] # 0}
<1>1. CASE typing[x] \notin Typing \/ x = e
  <2>1. Missed(W, e)[x] = typing[x]
    BY <1>1, EditIs DEF Missed
  <2> QED BY <1>1, <2>1 DEF TaskGridTypeOK
<1>2. CASE typing[x] \in Typing /\ x # e
  <2>1. PICK more : more = {k \in W : typing[x].at # "sent" \/ typing[x].sent[k] # 0}
    OBVIOUS
  <2>2. Missed(W, e)[x] = [typing[x] EXCEPT !.risk = typing[x].risk \cup more]
    BY <1>2, <2>1, EditIs DEF Missed
  <2>3. PICK t \in Typing : t = typing[x]
    BY <1>2
  <2>4. [t EXCEPT !.risk = t.risk \cup more] \in Typing
    BY <2>1, <2>3 DEF Typing
  <2> QED BY <1>2, <2>1, <2>2, <2>3, <2>4 DEF Typing
<1> QED BY <1>1, <1>2

LEMMA WrittenKeys ==
  ASSUME NEW row, NEW k \in Keys
  PROVE  Written(row, k) \in SUBSET Keys
BY DEF Written

LEMMA GridTypeStep ==
  ASSUME TaskGridTypeOK, [TaskGridNext]_gridVars
  PROVE  TaskGridTypeOK'
<1> USE DEF TaskGridTypeOK
<1>1. ASSUME NEW b \in Boards, ReloadPage(b) PROVE TaskGridTypeOK'
  <2>1. \A t \in Typing : [t EXCEPT !.heard = FALSE] \in Typing
    BY DEF Typing
  <2>2. typing' \in [1 .. MaxTyped -> Typing \cup {NoTyping}]
    BY <1>1, <2>1 DEF ReloadPage
  <2>3. sheet' \in [Boards -> Metadata] /\ reloads' \in 0 .. MaxReloads /\ behind' \subseteq Boards \X Keys
    BY <1>1, TaskGridAssumption DEF ReloadPage
  <2> QED BY <1>1, <2>2, <2>3 DEF ReloadPage
<1>2. ASSUME NEW b \in Boards, NEW f \in Fields, NEW v \in 1 .. MaxText, EditCell(b, f, v)
      PROVE  TaskGridTypeOK'
  <2>1. f \in Keys /\ v \in 0 .. MaxText + MaxScores
    BY TaskGridAssumption DEF Keys
  <2>2. [sheet[b] EXCEPT ![f] = v] \in Metadata
    BY <2>1 DEF Metadata
  <2>3. sheet' \in [Boards -> Metadata]
    BY <1>2, <2>2 DEF EditCell
  <2>4. PICK alone \in BOOLEAN : alone = (Awaited(b) = {})
    OBVIOUS
  <2>5. Blank \in Metadata
    BY TaskGridAssumption DEF Blank, Metadata
  <2>6. [of |-> b, field |-> f, sent |-> sheet'[b], row |-> Blank, risk |-> Stale(b, f),
         at |-> "sent", heard |-> TRUE, alone |-> Awaited(b) = {}] \in Typing
    BY <2>3, <2>4, <2>5 DEF Typing, Stale
  <2>7. \A t \in Typing : [t EXCEPT !.alone = FALSE] \in Typing
    BY DEF Typing
  <2>8. \A x \in Awaited(b) : typing[x] \in Typing
    BY DEF Awaited
  <2>9. typing' \in [1 .. MaxTyped -> Typing \cup {NoTyping}]
    BY <1>2, <2>6, <2>7, <2>8 DEF EditCell
  <2>10. typed' \in 0 .. MaxTyped
    BY <1>2, TaskGridAssumption DEF EditCell
  <2>11. behind' \subseteq Boards \X Keys
    BY <1>2, <2>1 DEF EditCell
  <2> QED BY <1>2, <2>3, <2>9, <2>10, <2>11 DEF EditCell
<1>3. ASSUME NEW e \in 1 .. MaxTyped, ReadRow(e) PROVE TaskGridTypeOK'
  <2>1. PICK t \in Typing : t = typing[e]
    BY <1>3 DEF ReadRow
  <2>2. PICK row \in Metadata : row = Merged(metadata, t.sent)
    BY <2>1 DEF Merged, Metadata, Typing
  <2>3. [t EXCEPT !.at = "read", !.row = row] \in Typing
    BY <2>1, <2>2 DEF Typing
  <2>4. typing' = [typing EXCEPT ![e] = [t EXCEPT !.at = "read", !.row = row]]
    BY <1>3, <2>1, <2>2 DEF ReadRow
  <2> QED BY <1>3, <2>3, <2>4 DEF ReadRow
<1>4. ASSUME NEW e \in 1 .. MaxTyped, SaveCell(e) PROVE TaskGridTypeOK'
  <2>1. PICK t \in Typing : t = typing[e]
    BY <1>4 DEF SaveCell
  <2>2. t.row \in Metadata /\ t.field \in Keys /\ t.of \in Boards /\ t.risk \subseteq Keys
    BY <2>1 DEF Typing, Keys
  <2>3. PICK W \in SUBSET Keys : W = Written(t.row, t.field)
    BY <2>2, WrittenKeys
  <2>4. PICK m \in [1 .. MaxTyped -> Typing \cup {NoTyping}] : m = Missed(W, e)
    <3>1. \A x \in 1 .. MaxTyped : Missed(W, e)[x] \in Typing \cup {NoTyping}
      BY <2>3, MissedIs
    <3>2. Missed(W, e) = [x \in 1 .. MaxTyped |-> Missed(W, e)[x]]
      BY DEF Missed
    <3> QED BY <3>1, <3>2
  <2>5. m[e] = t
    BY <2>1, <2>4 DEF Missed
  <2>6. [t EXCEPT !.at = "saved", !.risk = {}] \in Typing
    BY <2>1 DEF Typing
  <2>7. typing' = [m EXCEPT ![e] = [t EXCEPT !.at = "saved", !.risk = {}]]
    BY <1>4, <2>1, <2>3, <2>4, <2>5 DEF SaveCell
  <2>8. typing' \in [1 .. MaxTyped -> Typing \cup {NoTyping}]
    BY <2>4, <2>6, <2>7
  <2>9. reviewed' \in Reviewed \cup {NoReview}
    <3>1. reviewed' = MissedByReview(W)
      BY <1>4, <2>1, <2>3 DEF SaveCell
    <3>2. \A r \in Reviewed : [r EXCEPT !.risk = @ \cup W] \in Reviewed
      BY <2>3 DEF Reviewed
    <3> QED BY <3>1, <3>2 DEF MissedByReview
  <2>10. due' \in Metadata
    <3>1. due' = [due EXCEPT ![t.field] = t.row[t.field]] /\ t.row[t.field] \in 0 .. MaxText + MaxScores
      BY <1>4, <2>1, <2>2 DEF SaveCell, Metadata
    <3> QED BY <2>2, <3>1 DEF Metadata
  <2>11. behind' \subseteq Boards \X Keys /\ excused' \subseteq Keys
    BY <1>4, <2>1, <2>2, <2>3 DEF SaveCell
  <2> QED BY <1>4, <2>1, <2>2, <2>8, <2>9, <2>10, <2>11 DEF SaveCell
<1>5. ASSUME NEW e \in 1 .. MaxTyped, RefuseCell(e) PROVE TaskGridTypeOK'
  <2>1. PICK t \in Typing : t = typing[e]
    BY <1>5 DEF RefuseCell
  <2>2. [t EXCEPT !.at = "refused"] \in Typing
    BY <2>1 DEF Typing
  <2>3. typing' = [typing EXCEPT ![e] = [t EXCEPT !.at = "refused"]]
    BY <1>5, <2>1 DEF RefuseCell
  <2> QED BY <1>5, <2>2, <2>3 DEF RefuseCell
<1>6. ASSUME NEW e \in 1 .. MaxTyped, ShowSaved(e) PROVE TaskGridTypeOK'
  <2>1. PICK t \in Typing : t = typing[e]
    BY <1>6 DEF ShowSaved
  <2>2. t.row \in Metadata /\ t.of \in Boards /\ t.risk \subseteq Keys
    BY <2>1 DEF Typing
  <2>3. sheet' \in [Boards -> Metadata] /\ behind' \subseteq Boards \X Keys
    BY <1>6, <2>1, <2>2 DEF ShowSaved
  <2> QED BY <1>6, <2>3 DEF ShowSaved
<1>7. ASSUME NEW e \in 1 .. MaxTyped, ShowRefused(e) PROVE TaskGridTypeOK'
  <2>1. PICK t \in Typing : t = typing[e]
    BY <1>7 DEF ShowRefused
  <2>2. t.field \in Keys /\ t.of \in Boards
    BY <2>1 DEF Typing, Keys
  <2>3. \A r \in Metadata : [r EXCEPT ![t.field] = 0] \in Metadata
    BY <2>2, TaskGridAssumption DEF Metadata
  <2>4. sheet' \in [Boards -> Metadata]
    BY <1>7, <2>1, <2>2, <2>3 DEF ShowRefused
  <2> QED BY <1>7, <2>4 DEF ShowRefused
<1>8. ASSUME ReadReview PROVE TaskGridTypeOK'
  <2>1. PICK s \in 0 .. MaxScores : s = scores'
    BY <1>8, TaskGridAssumption DEF ReadReview
  <2>2. MaxText + s \in 0 .. MaxText + MaxScores
    BY TaskGridAssumption
  <2>3. PICK row \in Metadata : row = [metadata EXCEPT ![Score] = MaxText + s]
    BY <2>2 DEF Metadata
  <2>4. [row |-> row, risk |-> {}] \in Reviewed
    BY DEF Reviewed
  <2> QED BY <1>8, <2>1, <2>3, <2>4 DEF ReadReview
<1>9. ASSUME SaveReview PROVE TaskGridTypeOK'
  <2>1. PICK r \in Reviewed : r = reviewed
    BY <1>9 DEF SaveReview
  <2>2. r.row \in Metadata /\ r.risk \subseteq Keys /\ Score \in Keys
    BY <2>1 DEF Reviewed, Keys
  <2>3. PICK W \in SUBSET Keys : W = Written(r.row, Score)
    BY <2>2, WrittenKeys
  <2>4. typing' \in [1 .. MaxTyped -> Typing \cup {NoTyping}]
    <3>1. \A x \in 1 .. MaxTyped : Missed(W, 0)[x] \in Typing \cup {NoTyping}
      BY <2>3, MissedIs
    <3>2. Missed(W, 0) = [x \in 1 .. MaxTyped |-> Missed(W, 0)[x]]
      BY DEF Missed
    <3> QED BY <1>9, <2>1, <2>3, <3>1, <3>2 DEF SaveReview
  <2>5. due' \in Metadata
    <3>1. due' = [due EXCEPT ![Score] = r.row[Score]] /\ r.row[Score] \in 0 .. MaxText + MaxScores
      BY <1>9, <2>1, <2>2 DEF SaveReview, Metadata
    <3> QED BY <2>2, <3>1 DEF Metadata
  <2> QED BY <1>9, <2>1, <2>2, <2>3, <2>4, <2>5 DEF SaveReview
<1>10. CASE UNCHANGED gridVars
  BY <1>10 DEF gridVars
<1> QED BY <1>1, <1>2, <1>3, <1>4, <1>5, <1>6, <1>7, <1>8, <1>9, <1>10 DEF TaskGridNext

\* An edit that is left as it was, or only waits for less, keeps what it says of the page where
\* that shows the same and no edit was added to those it waits for.
LEMMA AsTypedKept ==
  ASSUME NEW e \in 1 .. MaxTyped, typing[e] \in Typing, typing'[e] \in Typing, AsTyped(e, typing[e]),
         typing'[e].of = typing[e].of, typing'[e].field = typing[e].field,
         typing'[e].sent = typing[e].sent,
         typing'[e].at = "read" => typing'[e].row = typing[e].row /\ typing[e].at = "read",
         typing'[e].heard /\ typing'[e].alone =>
           /\ typing[e].heard /\ typing[e].alone
           /\ sheet'[typing[e].of][typing[e].field] = sheet[typing[e].of][typing[e].field]
           /\ Awaited(typing[e].of)' \subseteq Awaited(typing[e].of)
  PROVE  AsTyped(e, typing[e])'
BY DEF AsTyped

LEMMA ReloadKeeps ==
  ASSUME GridInv, NEW b \in Boards, ReloadPage(b)
  PROVE  GridInv'
<1> USE DEF GridInv
<1>0. TaskGridTypeOK'
  BY GridTypeStep DEF TaskGridNext
<1>1. PagesFollow'
  BY DEF ReloadPage, PagesFollow, TaskGridTypeOK, Metadata
<1>2. ASSUME NEW e \in 1 .. MaxTyped, typing'[e] \in Typing
      PROVE  /\ typing[e] \in Typing
             /\ typing'[e].of = typing[e].of /\ typing'[e].field = typing[e].field
             /\ typing'[e].sent = typing[e].sent /\ typing'[e].row = typing[e].row
             /\ typing'[e].at = typing[e].at /\ typing'[e].risk = typing[e].risk
             /\ typing'[e].alone = typing[e].alone
             /\ typing'[e].heard => typing[e].heard /\ typing[e].of # b
  BY <1>2, EditIs DEF ReloadPage, Typing
<1>3. EditsFollow'
  BY <1>2 DEF EditsFollow, Follows, ReloadPage
<1>4. \A q \in Boards : Awaited(q)' \subseteq Awaited(q)
  BY <1>0, <1>2, EditIs DEF Awaited, TaskGridTypeOK
<1>5. CellAsTyped'
  <2> SUFFICES ASSUME NEW e \in 1 .. MaxTyped, typing'[e] \in Typing
               PROVE  AsTyped(e, typing[e])'
    BY DEF CellAsTyped
  <2>1. AsTyped(e, typing[e]) /\ typing[e].of \in Boards
    BY <1>2 DEF CellAsTyped, Typing
  <2>2. \A q \in Boards : q # b => sheet'[q] = sheet[q]
    BY DEF ReloadPage, TaskGridTypeOK
  <2> QED BY <1>2, <1>4, <2>1, <2>2, AsTypedKept
<1>6. ReviewFollows' /\ CellsKept'
  BY DEF ReloadPage, ReviewFollows, CellsKept
<1> QED BY <1>0, <1>1, <1>3, <1>5, <1>6

LEMMA EditKeeps ==
  ASSUME GridInv, NEW b \in Boards, NEW f \in Fields, NEW v \in 1 .. MaxText, EditCell(b, f, v)
  PROVE  GridInv'
<1> USE DEF GridInv
<1>0. TaskGridTypeOK' /\ f \in Keys
  BY GridTypeStep DEF TaskGridNext, Keys
<1>1. /\ \A q \in Boards : q # b => sheet'[q] = sheet[q]
      /\ \A k \in Keys : k # f => sheet'[b][k] = sheet[b][k]
      /\ sheet'[b][f] = v /\ v # 0
      /\ behind' = behind \cup {<<b, f>>} /\ metadata' = metadata
  BY <1>0 DEF EditCell, TaskGridTypeOK, Metadata
<1>2. PagesFollow'
  BY <1>0, <1>1 DEF PagesFollow
<1>3. PICK n \in 1 .. MaxTyped : n = typed'
  BY TaskGridAssumption DEF EditCell, TaskGridTypeOK
<1>4. PICK t : t = typing'[n]
  OBVIOUS
<1>5. /\ t.of = b /\ t.field = f /\ t.sent = sheet'[b] /\ t.risk = Stale(b, f) /\ t.at = "sent"
      /\ t.heard /\ t.alone = (Awaited(b) = {})
  <2>1. t = [of |-> b, field |-> f, sent |-> sheet'[b], row |-> Blank, risk |-> Stale(b, f),
             at |-> "sent", heard |-> TRUE, alone |-> Awaited(b) = {}]
    BY <1>3, <1>4 DEF EditCell
  <2> QED BY <2>1
<1>6. ASSUME NEW e \in 1 .. MaxTyped, typing'[e] \in Typing, e # n
      PROVE  /\ typing[e] \in Typing
             /\ typing'[e].of = typing[e].of /\ typing'[e].field = typing[e].field
             /\ typing'[e].sent = typing[e].sent /\ typing'[e].row = typing[e].row
             /\ typing'[e].at = typing[e].at /\ typing'[e].risk = typing[e].risk
             /\ typing'[e].heard = typing[e].heard
             /\ typing'[e].alone => typing[e].alone
             /\ typing'[e].heard /\ typing'[e].alone => typing[e].of # b
  <2>1. CASE e \in Awaited(b)
    <3>1. typing[e] \in Typing /\ typing'[e] = [typing[e] EXCEPT !.alone = FALSE]
      BY <1>3, <1>6, <2>1, EditIs DEF EditCell, Awaited
    <3> QED BY <3>1 DEF Typing
  <2>2. CASE e \notin Awaited(b)
    <3>1. typing'[e] = typing[e]
      BY <1>3, <1>6, <2>2 DEF EditCell
    <3> QED BY <1>6, <2>2, <3>1, EditIs DEF Awaited
  <2> QED BY <2>1, <2>2
<1>7. EditsFollow'
  <2> SUFFICES ASSUME NEW e \in 1 .. MaxTyped, typing'[e] \in Typing
               PROVE  Follows(typing[e])'
    BY DEF EditsFollow
  <2>1. CASE e # n
    BY <1>1, <1>6, <2>1 DEF EditsFollow, Follows
  <2>2. CASE e = n
    <3>1. \A k \in Keys \ t.risk : k # f /\ sheet'[b][k] # 0 => sheet'[b][k] = metadata[k]
      BY <1>1, <1>5 DEF Stale, PagesFollow
    <3> QED BY <1>1, <1>4, <1>5, <2>2, <3>1 DEF Follows
  <2> QED BY <2>1, <2>2
<1>8. ASSUME NEW q \in Boards, NEW x \in Awaited(q)', x # n
      PROVE  x \in Awaited(q)
  <2>1. x \in 1 .. MaxTyped /\ typing'[x] \in Typing /\ typing'[x].of = q /\ typing'[x].heard
    BY <1>0, <1>8 DEF Awaited, TaskGridTypeOK
  <2> QED BY <1>6, <1>8, <2>1, EditIs DEF Awaited
<1>9. CellAsTyped'
  <2> SUFFICES ASSUME NEW e \in 1 .. MaxTyped, typing'[e] \in Typing
               PROVE  AsTyped(e, typing[e])'
    BY DEF CellAsTyped
  <2>1. CASE e # n
    <3>1. AsTyped(e, typing[e]) /\ typing[e].of \in Boards
      BY <1>6, <2>1 DEF CellAsTyped, Typing
    <3>2. PICK q \in Boards : q = typing[e].of /\ q = typing'[e].of
      BY <1>6, <2>1, <3>1
    <3>3. q # b => Awaited(q)' \subseteq Awaited(q)
      <4>1. q # b => n \notin Awaited(q)'
        BY <1>4, <1>5 DEF Awaited
      <4> QED BY <1>8, <4>1
    <3> QED BY <1>1, <1>6, <2>1, <3>1, <3>2, <3>3, AsTypedKept
  <2>2. CASE e = n
    <3>1. t.alone => \A x \in Awaited(b)' : x = n
      BY <1>5, <1>8
    <3> QED BY <1>1, <1>4, <1>5, <2>2, <3>1 DEF AsTyped
  <2> QED BY <2>1, <2>2
<1>10. ReviewFollows' /\ CellsKept'
  BY DEF EditCell, ReviewFollows, CellsKept
<1> QED BY <1>0, <1>2, <1>7, <1>9, <1>10

LEMMA ReadRowKeeps ==
  ASSUME GridInv, NEW e \in 1 .. MaxTyped, ReadRow(e)
  PROVE  GridInv'
<1> USE DEF GridInv
<1>0. TaskGridTypeOK'
  BY GridTypeStep DEF TaskGridNext
<1>1. PICK t \in Typing : t = typing[e]
  BY EditIs DEF ReadRow
<1>2. PICK row : row = Merged(metadata, t.sent)
  OBVIOUS
<1>3. PICK r : r = [t EXCEPT !.at = "read", !.row = row]
  OBVIOUS
<1>4. /\ r.of = t.of /\ r.field = t.field /\ r.sent = t.sent /\ r.risk = t.risk
      /\ r.heard = t.heard /\ r.alone = t.alone /\ r.at = "read" /\ r.row = row
  BY <1>3 DEF Typing
<1>5. typing' = [typing EXCEPT ![e] = r] /\ t.at = "sent" /\ r \in Typing
  <2>1. row \in Metadata
    BY <1>1, <1>2 DEF Merged, Metadata, Typing, TaskGridTypeOK
  <2> QED BY <1>1, <1>2, <1>3, <2>1 DEF ReadRow, Typing
<1>6. typing'[e] = r /\ \A x \in 1 .. MaxTyped : x # e => typing'[x] = typing[x]
  BY <1>5 DEF TaskGridTypeOK
<1>7. Follows(t) /\ AsTyped(e, t)
  BY <1>1 DEF EditsFollow, CellAsTyped
<1>8. t.field \in Keys
  BY <1>1 DEF Typing, Keys
<1>9. Follows(r)'
  <2>1. \A k \in Keys \ t.risk : k # t.field => row[k] = metadata[k]
    BY <1>2, <1>5, <1>7 DEF Follows, Merged
  <2>2. metadata' = metadata
    BY DEF ReadRow
  <2> QED BY <1>4, <2>1, <2>2 DEF Follows
<1>10. EditsFollow'
  <2> SUFFICES ASSUME NEW x \in 1 .. MaxTyped, typing'[x] \in Typing
               PROVE  Follows(typing[x])'
    BY DEF EditsFollow
  <2>1. CASE x = e
    <3>1. Follows(typing[e])'
      BY <1>6, <1>9 DEF Follows
    <3> QED BY <2>1, <3>1
  <2>2. CASE x # e
    <3>1. typing'[x] = typing[x] /\ metadata' = metadata
      BY <1>6, <2>2 DEF ReadRow
    <3>2. Follows(typing[x])
      BY <3>1 DEF EditsFollow
    <3> QED BY <3>1, <3>2 DEF Follows
  <2> QED BY <2>1, <2>2
<1>11. \A q \in Boards : Awaited(q)' = Awaited(q)
  <2>1. r # NoTyping /\ t # NoTyping
    BY <1>1, <1>5, NoEditAssumption
  <2> QED BY <1>1, <1>4, <1>6, <2>1 DEF Awaited
<1>12. AsTyped(e, r)'
  <2>1. row[t.field] = t.sent[t.field]
    BY <1>2, <1>7, <1>8 DEF AsTyped, Merged
  <2>2. t.of \in Boards
    BY <1>1 DEF Typing
  <2> QED BY <1>4, <1>7, <1>11, <2>1, <2>2 DEF AsTyped, ReadRow
<1>13. CellAsTyped'
  <2> SUFFICES ASSUME NEW x \in 1 .. MaxTyped, typing'[x] \in Typing
               PROVE  AsTyped(x, typing[x])'
    BY DEF CellAsTyped
  <2>1. CASE x = e
    BY <1>6, <1>12, <2>1
  <2>2. CASE x # e
    <3>1. typing'[x] = typing[x] /\ AsTyped(x, typing[x]) /\ typing[x].of \in Boards /\ sheet' = sheet
      BY <1>6, <2>2 DEF CellAsTyped, ReadRow, Typing
    <3> QED BY <1>11, <3>1, AsTypedKept
  <2> QED BY <2>1, <2>2
<1>14. PagesFollow' /\ ReviewFollows' /\ CellsKept'
  BY DEF ReadRow, PagesFollow, ReviewFollows, CellsKept
<1> QED BY <1>0, <1>10, <1>13, <1>14

LEMMA RefuseKeeps ==
  ASSUME GridInv, NEW e \in 1 .. MaxTyped, RefuseCell(e)
  PROVE  GridInv'
<1> USE DEF GridInv
<1>0. TaskGridTypeOK'
  BY GridTypeStep DEF TaskGridNext
<1>1. PICK t \in Typing : t = typing[e]
  BY EditIs DEF RefuseCell
<1>3. PICK r : r = [t EXCEPT !.at = "refused"]
  OBVIOUS
<1>4. /\ r.of = t.of /\ r.field = t.field /\ r.sent = t.sent /\ r.risk = t.risk
      /\ r.heard = t.heard /\ r.alone = t.alone /\ r.at = "refused"
  BY <1>3 DEF Typing
<1>5. r \in Typing
  BY <1>3 DEF Typing
<1>6. typing'[e] = r /\ \A x \in 1 .. MaxTyped : x # e => typing'[x] = typing[x]
  BY <1>1, <1>3 DEF RefuseCell, TaskGridTypeOK
<1>10. EditsFollow'
  BY <1>4, <1>6 DEF EditsFollow, Follows, RefuseCell
<1>11. \A q \in Boards : Awaited(q)' = Awaited(q)
  <2>1. r # NoTyping /\ t # NoTyping
    BY <1>1, <1>5, NoEditAssumption
  <2> QED BY <1>1, <1>4, <1>6, <2>1 DEF Awaited
<1>13. CellAsTyped'
  <2> SUFFICES ASSUME NEW x \in 1 .. MaxTyped, typing'[x] \in Typing
               PROVE  AsTyped(x, typing[x])'
    BY DEF CellAsTyped
  <2>1. typing[x] \in Typing
    BY <1>1, <1>6
  <2>2. AsTyped(x, typing[x]) /\ typing[x].of \in Boards /\ sheet' = sheet
    BY <2>1 DEF CellAsTyped, RefuseCell, Typing
  <2> QED BY <1>1, <1>4, <1>6, <1>11, <2>1, <2>2, AsTypedKept
<1>14. PagesFollow' /\ ReviewFollows' /\ CellsKept'
  BY DEF RefuseCell, PagesFollow, ReviewFollows, CellsKept
<1> QED BY <1>0, <1>10, <1>13, <1>14

\* An answer that the page shows leaves no other edit of it alone.
LEMMA ShownIsNotAlone ==
  ASSUME GridInv, NEW e \in 1 .. MaxTyped, typing[e] \in Typing, typing[e].heard,
         NEW x \in 1 .. MaxTyped, typing[x] \in Typing, x # e, typing[x].heard, typing[x].alone
  PROVE  typing[x].of # typing[e].of
<1>1. e \in Awaited(typing[e].of)
  BY EditIs DEF GridInv, Awaited
<1>2. \A y \in Awaited(typing[x].of) : y = x
  BY DEF GridInv, CellAsTyped, AsTyped
<1> QED BY <1>1, <1>2

\* An edit whose answer has arrived is gone.
LEMMA GoneKeeps ==
  ASSUME GridInv, TaskGridTypeOK', NEW e \in 1 .. MaxTyped, typing[e] \in Typing,
         typing' = [typing EXCEPT ![e] = NoTyping], UNCHANGED <<metadata, reviewed, due, excused>>,
         \/ sheet' = sheet
         \/ typing[e].heard /\ \A q \in Boards : q # typing[e].of => sheet'[q] = sheet[q]
  PROVE  EditsFollow' /\ CellAsTyped' /\ ReviewFollows' /\ CellsKept'
<1> USE DEF GridInv
<1>1. typing'[e] = NoTyping /\ \A x \in 1 .. MaxTyped : x # e => typing'[x] = typing[x]
  BY DEF TaskGridTypeOK
<1>2. \A x \in 1 .. MaxTyped : typing'[x] \in Typing => x # e
  BY <1>1, NoEditAssumption
<1>3. EditsFollow'
  BY <1>1, <1>2 DEF EditsFollow, Follows
<1>4. \A q \in Boards : Awaited(q)' \subseteq Awaited(q)
  BY <1>1 DEF Awaited
<1>5. CellAsTyped'
  <2> SUFFICES ASSUME NEW x \in 1 .. MaxTyped, typing'[x] \in Typing
               PROVE  AsTyped(x, typing[x])'
    BY DEF CellAsTyped
  <2>1. x # e /\ typing'[x] = typing[x]
    BY <1>1, <1>2
  <2>2. AsTyped(x, typing[x]) /\ typing[x].of \in Boards
    BY <2>1 DEF CellAsTyped, Typing
  <2>3. typing[x].heard /\ typing[x].alone => sheet'[typing[x].of] = sheet[typing[x].of]
    BY <2>1, <2>2, ShownIsNotAlone
  <2> QED BY <1>4, <2>1, <2>2, <2>3, AsTypedKept
<1>6. ReviewFollows' /\ CellsKept'
  BY DEF ReviewFollows, CellsKept
<1> QED BY <1>3, <1>5, <1>6

LEMMA ShowKeeps ==
  ASSUME GridInv, NEW e \in 1 .. MaxTyped, ShowSaved(e) \/ ShowRefused(e)
  PROVE  GridInv'
<1> USE DEF GridInv
<1>0. TaskGridTypeOK'
  BY GridTypeStep DEF TaskGridNext
<1>1. PICK t \in Typing : t = typing[e]
  BY EditIs DEF ShowSaved, ShowRefused
<1>2. t.of \in Boards /\ t.field \in Keys
  BY <1>1 DEF Typing, Keys
<1>3. CASE ShowSaved(e)
  <2>1. CASE UNCHANGED <<sheet, behind>>
    <3>1. EditsFollow' /\ CellAsTyped' /\ ReviewFollows' /\ CellsKept'
      BY <1>0, <1>1, <1>3, <2>1, GoneKeeps DEF ShowSaved
    <3>2. PagesFollow'
      BY <1>3, <2>1 DEF PagesFollow, ShowSaved
    <3> QED BY <1>0, <3>1, <3>2
  <2>2. CASE /\ t.heard /\ sheet' = [sheet EXCEPT ![t.of] = t.row]
             /\ behind' = {x \in behind : x[1] # t.of} \cup ({t.of} \X t.risk)
    <3>0. \A q \in Boards : sheet'[q] = IF q = t.of THEN t.row ELSE sheet[q]
      BY <1>2, <2>2 DEF TaskGridTypeOK
    <3>1. EditsFollow' /\ CellAsTyped' /\ ReviewFollows' /\ CellsKept'
      BY ZenonT(40), <1>0, <1>1, <1>3, <2>2, <3>0, GoneKeeps DEF ShowSaved
    <3>2. \A k \in Keys \ t.risk : t.row[k] = metadata[k]
      BY <1>1, <1>3 DEF EditsFollow, Follows, ShowSaved
    <3>3. PagesFollow'
      BY <1>3, <2>2, <3>0, <3>2 DEF PagesFollow, ShowSaved
    <3> QED BY <1>0, <3>1, <3>3
  <2> QED BY <1>1, <1>3, <2>1, <2>2 DEF ShowSaved
<1>4. CASE ShowRefused(e)
  <2>1. /\ \/ sheet' = sheet
           \/ t.heard /\ sheet' = [sheet EXCEPT ![t.of][t.field] = 0]
        /\ behind' = behind /\ metadata' = metadata
    BY <1>1, <1>4 DEF ShowRefused
  <2>2. \/ sheet' = sheet
        \/ t.heard /\ \A q \in Boards : q # t.of => sheet'[q] = sheet[q]
    BY <1>2, <2>1 DEF TaskGridTypeOK
  <2>3. EditsFollow' /\ CellAsTyped' /\ ReviewFollows' /\ CellsKept'
    BY <1>0, <1>1, <1>4, <2>2, GoneKeeps DEF ShowRefused
  <2>4. \A q \in Boards, k \in Keys : sheet'[q][k] \in {0, sheet[q][k]}
    <3>1. CASE sheet' = [sheet EXCEPT ![t.of][t.field] = 0]
      <4>1. PICK r : r = [sheet[t.of] EXCEPT ![t.field] = 0]
        OBVIOUS
      <4>2. \A k \in Keys : r[k] \in {0, sheet[t.of][k]}
        BY <1>2, <4>1 DEF TaskGridTypeOK, Metadata
      <4>3. \A q \in Boards : sheet'[q] = IF q = t.of THEN r ELSE sheet[q]
        BY <1>2, <3>1, <4>1 DEF TaskGridTypeOK
      <4> QED BY <4>2, <4>3
    <3> QED BY <2>1, <3>1
  <2>5. PagesFollow'
    BY <2>1, <2>4 DEF PagesFollow
  <2> QED BY <1>0, <2>3, <2>5
<1> QED BY <1>3, <1>4

\* A save of row changes the keys that Written names, and no other edit is told less.
LEMMA WriteIs ==
  ASSUME GridInv, NEW row, metadata' = row, NEW k \in Keys
  PROVE  /\ \A j \in Keys \ Written(row, k) : metadata'[j] = metadata[j]
         /\ k \in Written(row, k) /\ Written(row, k) \in SUBSET Keys
BY DEF Written

LEMMA MissedFollows ==
  ASSUME GridInv, NEW W \in SUBSET Keys, \A j \in Keys \ W : metadata'[j] = metadata[j],
         NEW e, NEW x \in 1 .. MaxTyped, x # e, typing[x] \in Typing,
         typing'[x] = Missed(W, e)[x]
  PROVE  Follows(typing[x])'
<1>1. Follows(typing[x])
  BY DEF GridInv, EditsFollow
<1>2. TaskGridTypeOK
  BY DEF GridInv
<1>3. PICK t : t = typing'[x]
  OBVIOUS
<1>4. /\ t.field = typing[x].field /\ t.sent = typing[x].sent /\ t.row = typing[x].row
      /\ t.at = typing[x].at
      /\ t.risk = typing[x].risk \cup {k \in W : typing[x].at # "sent" \/ typing[x].sent[k] # 0}
  BY <1>2, <1>3, MissedIs
<1> QED BY <1>1, <1>3, <1>4 DEF Follows

LEMMA ReviewMissed ==
  ASSUME GridInv, NEW W \in SUBSET Keys, \A j \in Keys \ W : metadata'[j] = metadata[j],
         reviewed' = MissedByReview(W)
  PROVE  ReviewFollows'
<1>1. CASE reviewed = NoReview
  BY <1>1, NoEditAssumption DEF MissedByReview, ReviewFollows
<1>2. CASE reviewed # NoReview
  <2>1. PICK r \in Reviewed : r = reviewed
    BY <1>2 DEF GridInv, TaskGridTypeOK
  <2>2. reviewed'.row = r.row /\ reviewed'.risk = r.risk \cup W
    BY <1>2, <2>1 DEF MissedByReview, Reviewed
  <2>3. ReviewFollows
    BY DEF GridInv
  <2> QED BY <2>1, <2>2, <2>3 DEF ReviewFollows
<1> QED BY <1>1, <1>2

LEMMA SaveCellKeeps ==
  ASSUME GridInv, NEW e \in 1 .. MaxTyped, SaveCell(e)
  PROVE  GridInv'
<1> USE DEF GridInv
<1>0. TaskGridTypeOK'
  BY GridTypeStep DEF TaskGridNext
<1>1. PICK t \in Typing : t = typing[e]
  BY EditIs DEF SaveCell
<1>2. t.field \in Keys /\ t.row \in Metadata /\ t.of \in Boards
  BY <1>1 DEF Typing, Keys
<1>3. PICK W \in SUBSET Keys : W = Written(t.row, t.field)
  BY <1>2, WrittenKeys
<1>4. /\ metadata' = t.row /\ reviewed' = MissedByReview(W) /\ sheet' = sheet
      /\ due' = [due EXCEPT ![t.field] = t.row[t.field]]
      /\ excused' = (excused \cup t.risk) \ {t.field}
      /\ behind' = (behind \cup (Boards \X W)) \ (IF Alone(e) THEN {<<t.of, t.field>>} ELSE {})
      /\ t.at = "read"
  BY <1>1, <1>3 DEF SaveCell
<1>5. /\ \A j \in Keys \ W : metadata'[j] = metadata[j]
      /\ t.field \in W
  BY <1>2, <1>3, <1>4, WriteIs
<1>6. Follows(t) /\ AsTyped(e, t)
  BY <1>1 DEF EditsFollow, CellAsTyped
<1>7. PagesFollow'
  <2> SUFFICES ASSUME NEW b \in Boards, NEW k \in Keys, <<b, k>> \notin behind'
               PROVE  sheet[b][k] \in {0, metadata'[k]}
    BY <1>4 DEF PagesFollow
  <2>1. CASE k \notin W
    <3>1. CASE <<b, k>> \notin behind
      BY <1>5, <2>1, <3>1 DEF PagesFollow
    <3>2. CASE <<b, k>> \in behind
      BY <1>4, <1>5, <2>1, <3>2
    <3> QED BY <3>1, <3>2
  <2>2. CASE k \in W
    <3>1. Alone(e) /\ b = t.of /\ k = t.field
      BY <1>4, <2>2
    <3>2. sheet[t.of][t.field] = t.row[t.field]
      BY <1>1, <1>4, <1>6, <3>1 DEF AsTyped, Alone
    <3> QED BY <1>4, <3>1, <3>2
  <2> QED BY <2>1, <2>2
<1>8. PICK r : r = [t EXCEPT !.at = "saved", !.risk = {}]
  OBVIOUS
<1>9. /\ r.of = t.of /\ r.field = t.field /\ r.sent = t.sent /\ r.row = t.row /\ r.risk = {}
      /\ r.heard = t.heard /\ r.alone = t.alone /\ r.at = "saved" /\ r \in Typing
  BY <1>8 DEF Typing
<1>10. typing'[e] = r /\ \A x \in 1 .. MaxTyped : x # e => typing'[x] = Missed(W, e)[x]
  <2>1. PICK m : m = Missed(W, e)
    OBVIOUS
  <2>2. m[e] = t /\ DOMAIN m = 1 .. MaxTyped
    BY <1>1, <2>1 DEF Missed
  <2>3. typing' = [m EXCEPT ![e].at = "saved", ![e].risk = {}]
    BY <1>1, <1>3, <2>1 DEF SaveCell
  <2>4. m = [x \in 1 .. MaxTyped |-> m[x]]
    BY <2>1 DEF Missed
  <2> QED BY <1>8, <2>1, <2>2, <2>3, <2>4
<1>11. EditsFollow'
  <2> SUFFICES ASSUME NEW x \in 1 .. MaxTyped, typing'[x] \in Typing
               PROVE  Follows(typing[x])'
    BY DEF EditsFollow
  <2>1. CASE x # e
    BY <1>5, <1>10, <2>1, MissedIs, MissedFollows
  <2>2. CASE x = e
    BY <1>4, <1>9, <1>10, <2>2 DEF Follows
  <2> QED BY <2>1, <2>2
<1>12. ASSUME NEW x \in 1 .. MaxTyped, typing'[x] \in Typing
       PROVE  /\ typing[x] \in Typing
              /\ typing'[x].of = typing[x].of /\ typing'[x].field = typing[x].field
              /\ typing'[x].sent = typing[x].sent /\ typing'[x].row = typing[x].row
              /\ typing'[x].heard = typing[x].heard /\ typing'[x].alone = typing[x].alone
              /\ typing'[x].at = "read" => typing[x].at = "read"
  <2>1. CASE x # e
    BY <1>10, <1>12, <2>1, MissedIs
  <2>2. CASE x = e
    BY <1>1, <1>9, <1>10, <2>2
  <2> QED BY <2>1, <2>2
<1>13. \A q \in Boards : Awaited(q)' \subseteq Awaited(q)
  BY <1>0, <1>12, EditIs DEF Awaited, TaskGridTypeOK
<1>14. CellAsTyped'
  <2> SUFFICES ASSUME NEW x \in 1 .. MaxTyped, typing'[x] \in Typing
               PROVE  AsTyped(x, typing[x])'
    BY DEF CellAsTyped
  <2>1. AsTyped(x, typing[x]) /\ typing[x].of \in Boards
    BY <1>12 DEF CellAsTyped, Typing
  <2> QED BY <1>4, <1>12, <1>13, <2>1, AsTypedKept
<1>15. ReviewFollows'
  BY <1>4, <1>5, ReviewMissed
<1>16. CellsKept'
  <2> SUFFICES ASSUME NEW k \in Keys, k \notin excused'
               PROVE  t.row[k] = due'[k]
    BY <1>4 DEF CellsKept
  <2>1. CASE k = t.field
    BY <1>4, <2>1 DEF TaskGridTypeOK, Metadata
  <2>2. CASE k # t.field
    <3>1. k \notin excused /\ k \notin t.risk
      BY <1>4, <2>2
    <3>2. t.row[k] = metadata[k] /\ metadata[k] = due[k]
      BY <1>4, <1>6, <2>2, <3>1 DEF CellsKept, Follows
    <3>3. due'[k] = due[k]
      BY <1>4, <2>2 DEF TaskGridTypeOK, Metadata
    <3> QED BY <3>2, <3>3
  <2> QED BY <2>1, <2>2
<1> QED BY <1>0, <1>7, <1>11, <1>14, <1>15, <1>16

LEMMA ReadReviewKeeps ==
  ASSUME GridInv, ReadReview
  PROVE  GridInv'
<1> USE DEF GridInv
<1>0. TaskGridTypeOK'
  BY GridTypeStep DEF TaskGridNext
<1>1. PICK v : v = MaxText + scores'
  OBVIOUS
<1>2. PICK row : row = [metadata EXCEPT ![Score] = v]
  OBVIOUS
<1>3. reviewed'.row = row /\ reviewed'.risk = {} /\ metadata' = metadata
  BY <1>1, <1>2 DEF ReadReview
<1>4. \A k \in Keys : k # Score => row[k] = metadata[k]
  BY <1>2 DEF TaskGridTypeOK, Metadata
<1>5. ReviewFollows'
  BY <1>3, <1>4 DEF ReviewFollows
<1>6. PagesFollow' /\ CellsKept'
  BY DEF ReadReview, PagesFollow, CellsKept
<1>7. EditsFollow'
  BY DEF ReadReview, EditsFollow, Follows
<1>8. CellAsTyped'
  BY DEF ReadReview, CellAsTyped, AsTyped, Awaited
<1> QED BY <1>0, <1>5, <1>6, <1>7, <1>8

LEMMA SaveReviewKeeps ==
  ASSUME GridInv, SaveReview
  PROVE  GridInv'
<1> USE DEF GridInv
<1>0. TaskGridTypeOK'
  BY GridTypeStep DEF TaskGridNext
<1>1. PICK r \in Reviewed : r = reviewed
  BY DEF SaveReview, TaskGridTypeOK
<1>2. r.row \in Metadata /\ Score \in Keys
  BY <1>1 DEF Reviewed, Keys
<1>3. PICK W \in SUBSET Keys : W = Written(r.row, Score)
  BY <1>2, WrittenKeys
<1>4. /\ metadata' = r.row /\ reviewed' = NoReview /\ sheet' = sheet
      /\ due' = [due EXCEPT ![Score] = r.row[Score]]
      /\ excused' = (excused \cup r.risk) \ {Score}
      /\ behind' = behind \cup (Boards \X W)
      /\ typing' = Missed(W, 0)
  BY <1>1, <1>3 DEF SaveReview
<1>5. \A j \in Keys \ W : metadata'[j] = metadata[j]
  BY <1>2, <1>3, <1>4, WriteIs
<1>7. PagesFollow'
  BY <1>4, <1>5 DEF PagesFollow
<1>8. \A x \in 1 .. MaxTyped : x # 0
  BY TaskGridAssumption
<1>11. EditsFollow'
  <2> SUFFICES ASSUME NEW x \in 1 .. MaxTyped, typing'[x] \in Typing
               PROVE  Follows(typing[x])'
    BY DEF EditsFollow
  <2>1. typing'[x] = Missed(W, 0)[x] /\ typing[x] \in Typing
    BY <1>4, MissedIs
  <2> QED BY <1>5, <1>8, <2>1, MissedFollows
<1>12. ASSUME NEW x \in 1 .. MaxTyped, typing'[x] \in Typing
       PROVE  /\ typing[x] \in Typing
              /\ typing'[x].of = typing[x].of /\ typing'[x].field = typing[x].field
              /\ typing'[x].sent = typing[x].sent /\ typing'[x].row = typing[x].row
              /\ typing'[x].heard = typing[x].heard /\ typing'[x].alone = typing[x].alone
              /\ typing'[x].at = typing[x].at
  BY <1>4, <1>12, MissedIs
<1>13. \A q \in Boards : Awaited(q)' \subseteq Awaited(q)
  BY <1>0, <1>12, EditIs DEF Awaited, TaskGridTypeOK
<1>14. CellAsTyped'
  <2> SUFFICES ASSUME NEW x \in 1 .. MaxTyped, typing'[x] \in Typing
               PROVE  AsTyped(x, typing[x])'
    BY DEF CellAsTyped
  <2>1. AsTyped(x, typing[x]) /\ typing[x].of \in Boards
    BY <1>12 DEF CellAsTyped, Typing
  <2> QED BY <1>4, <1>12, <1>13, <2>1, AsTypedKept
<1>15. ReviewFollows'
  BY <1>4, NoEditAssumption DEF ReviewFollows
<1>16. CellsKept'
  <2> SUFFICES ASSUME NEW k \in Keys, k \notin excused'
               PROVE  r.row[k] = due'[k]
    BY <1>4 DEF CellsKept
  <2>1. CASE k = Score
    BY <1>4, <2>1 DEF TaskGridTypeOK, Metadata
  <2>2. CASE k # Score
    <3>1. k \notin excused /\ k \notin r.risk
      BY <1>4, <2>2
    <3>2. r.row[k] = metadata[k] /\ metadata[k] = due[k]
      BY <1>1, <2>2, <3>1 DEF CellsKept, ReviewFollows
    <3>3. due'[k] = due[k]
      BY <1>4, <2>2 DEF TaskGridTypeOK, Metadata
    <3> QED BY <3>2, <3>3
  <2> QED BY <2>1, <2>2
<1> QED BY <1>0, <1>7, <1>11, <1>14, <1>15, <1>16

LEMMA GridInductive == TaskGridSpec => []GridInv
<1>1. TaskGridInit => GridInv
  <2> SUFFICES ASSUME TaskGridInit
               PROVE  GridInv
    OBVIOUS
  <2>1. Blank \in Metadata
    BY TaskGridAssumption DEF Blank, Metadata
  <2>2. TaskGridTypeOK
    BY <2>1, TaskGridAssumption DEF TaskGridInit, TaskGridTypeOK
  <2>3. PagesFollow /\ CellsKept
    BY DEF TaskGridInit, PagesFollow, CellsKept, Blank
  <2>4. EditsFollow /\ CellAsTyped /\ ReviewFollows
    BY NoEditAssumption DEF TaskGridInit, EditsFollow, CellAsTyped, ReviewFollows
  <2> QED BY <2>2, <2>3, <2>4 DEF GridInv
<1>2. GridInv /\ [TaskGridNext]_gridVars => GridInv'
  <2> SUFFICES ASSUME GridInv, [TaskGridNext]_gridVars
               PROVE  GridInv'
    OBVIOUS
  <2>1. CASE UNCHANGED gridVars
    BY <2>1 DEF gridVars, GridInv, TaskGridTypeOK, PagesFollow, EditsFollow, Follows, CellAsTyped,
       AsTyped, Awaited, ReviewFollows, CellsKept
  <2> QED BY <2>1, ReloadKeeps, EditKeeps, ReadRowKeeps, SaveCellKeeps, RefuseKeeps, ShowKeeps,
             ReadReviewKeeps, SaveReviewKeeps DEF TaskGridNext
<1> QED BY <1>1, <1>2, PTL DEF TaskGridSpec

\* The row, the pages and the edits on their way stay within their types.
THEOREM GridTypeCorrect == TaskGridSpec => []TaskGridTypeOK
<1>1. GridInv => TaskGridTypeOK
  BY DEF GridInv
<1> QED BY <1>1, GridInductive, PTL

\* Every cell keeps the value that was written to it last, by an edit or by a review, unless
\* it was overwritten by a handler that had read the row before, or by an edit in a page that
\* held another value of it: for any number of pages, cells, edits and reviews.
THEOREM CellsStay == TaskGridSpec => []CellsKept
<1>1. GridInv => CellsKept
  BY DEF GridInv
<1> QED BY <1>1, GridInductive, PTL

-----------------------------------------------------------------------------
(* The lists of the pages.  What is shown once all is quiet follows from    *)
(* what holds while requests are under way.  A row of the list is either as *)
(* it is in the backend, or a change of it has been carried out whose end   *)
(* the page has not heard; the same holds of the rows that an answer        *)
(* brings, unless it was overtaken, in which case the page will be in       *)
(* doubt.  And a change that no other change of its row has crossed tells   *)
(* the page exactly what the backend lists now, so the page may put it into *)
(* its list unread.                                                         *)

\* What the proofs need to know of the scripts of the pages: a list without a key is never
\* closed, one that is kept for each key is never cleared, and a list that is cleared when it
\* is opened shows the new key at once.
Sane(s) ==
  /\ s \in Scripts
  /\ s.keyed => s.opens \in {"always", "once"}
  /\ ~s.keyed => ~s.closes /\ s.picks = "click" /\ s.before = "keeps" /\ s.opens # "once"
  /\ s.opens = "once" => s.before = "keeps" /\ s.picks = "click"
  /\ s.before = "clears" => s.picks = "click"

LEMMA ListsSane == \A p \in Lists : Sane(p.script) /\ p.view \in Views
<1>1. Sane(AiProvidersScript) /\ Sane(AiKeysScript) /\ Sane(OpenKeysScript) /\
      Sane(DepartmentsScript) /\ Sane(MembersScript) /\ Sane(BindingsScript) /\
      Sane(SyncLogsScript) /\ Sane(MappingsScript)
  BY DEF Sane, Scripts, Mounted, Clicked, Tabbed,
         AiProvidersScript, AiKeysScript, OpenKeysScript, DepartmentsScript, MembersScript,
         BindingsScript, SyncLogsScript, MappingsScript
<1>2. Sane(DirectoryLogsScript) /\ Sane(UsersScript) /\ Sane(UserProjectsScript) /\
      Sane(TenantsScript) /\ Sane(PluginsScript) /\ Sane(ApprovalConfigScript) /\
      Sane(GlobalConfigScript) /\ Sane(BulletinSettingsScript)
  BY DEF Sane, Scripts, Mounted, Clicked, Tabbed,
         DirectoryLogsScript, UsersScript, UserProjectsScript, TenantsScript, PluginsScript,
         ApprovalConfigScript, GlobalConfigScript, BulletinSettingsScript
<1>3. Sane(AuditLogScript) /\ Sane(StatsScript) /\ Sane(ProjectTasksScript) /\
      Sane(TaskSubmissionsScript) /\ Sane(PointsTableScript) /\ Sane(DividendsScript) /\
      Sane(DividendDetailScript) /\ Sane(SkillsScript)
  BY DEF Sane, Scripts, Mounted, Clicked, Tabbed,
         AuditLogScript, StatsScript, ProjectTasksScript, TaskSubmissionsScript,
         PointsTableScript, DividendsScript, DividendDetailScript, SkillsScript
<1>4. Sane(SkillDetailScript) /\ Sane(ProjectsScript) /\ Sane(DashboardScript) /\
      Sane(ProfilePointsScript) /\ Sane(BindingScript) /\ Sane(BitableFieldsScript) /\
      Sane(AuctionsScript) /\ Sane(AuctionDetailScript)
  BY DEF Sane, Scripts, Mounted, Clicked, Tabbed,
         SkillDetailScript, ProjectsScript, DashboardScript, ProfilePointsScript, BindingScript,
         BitableFieldsScript, AuctionsScript, AuctionDetailScript
<1>5. Sane(AssetsScript) /\ Sane(AssetDetailScript) /\ Sane(AssetOperationScript) /\
      Sane(AssetOperationsScript) /\ Sane(AssetReimbursementsScript) /\
      Sane(DepreciationScript) /\ Sane(ReimbursementsScript) /\ Sane(TimelineScript)
  BY DEF Sane, Scripts, Mounted, Clicked, Tabbed,
         AssetsScript, AssetDetailScript, AssetOperationScript, AssetOperationsScript,
         AssetReimbursementsScript, DepreciationScript, ReimbursementsScript, TimelineScript
<1>6. Sane(VoteSessionsScript) /\ Sane(LeaderboardScript) /\ Sane(SettlementsScript) /\
      Sane(AuditTrailScript) /\ Sane(DecisionsScript) /\ Sane(NotificationsScript)
  BY DEF Sane, Scripts, Mounted, Clicked, Tabbed,
         VoteSessionsScript, LeaderboardScript, SettlementsScript, AuditTrailScript,
         DecisionsScript, NotificationsScript
<1>7. AiProvidersView \in Views /\ AiKeysView \in Views /\ OpenKeysView \in Views /\
      DepartmentsView \in Views /\ MembersView \in Views /\ BindingsView \in Views /\
      SyncLogsView \in Views /\ MappingsView \in Views /\ DirectoryLogsView \in Views /\
      UsersView \in Views /\ UserProjectsView \in Views /\ TenantsView \in Views
  BY DEF Views, Kinds, Skeleton,
         AiProvidersView, AiKeysView, OpenKeysView, DepartmentsView, MembersView, BindingsView,
         SyncLogsView, MappingsView, DirectoryLogsView, UsersView, UserProjectsView, TenantsView
<1>8. PluginsView \in Views /\ ApprovalConfigView \in Views /\
      GlobalConfigView \in Views /\ BulletinSettingsView \in Views /\
      AuditLogView \in Views /\ StatsView \in Views /\ ProjectTasksView \in Views /\
      TaskSubmissionsView \in Views /\ PointsTableView \in Views /\
      DividendsView \in Views /\ DividendDetailView \in Views /\ SkillsView \in Views
  BY DEF Views, Kinds, Skeleton,
         PluginsView, ApprovalConfigView, GlobalConfigView, BulletinSettingsView, AuditLogView,
         StatsView, ProjectTasksView, TaskSubmissionsView, PointsTableView, DividendsView,
         DividendDetailView, SkillsView
<1>9. SkillDetailView \in Views /\ ProjectsView \in Views /\ DashboardView \in Views /\
      ProfilePointsView \in Views /\ BindingView \in Views /\
      BitableFieldsView \in Views /\ AuctionsView \in Views /\
      AuctionDetailView \in Views /\ AssetsView \in Views /\
      AssetOperationView \in Views /\ AssetOperationsView \in Views /\
      AssetReimbursementsView \in Views
  BY DEF Views, Kinds, Skeleton,
         SkillDetailView, ProjectsView, DashboardView, ProfilePointsView, BindingView,
         BitableFieldsView, AuctionsView, AuctionDetailView, AssetsView, AssetOperationView,
         AssetOperationsView, AssetReimbursementsView
<1>10. DepreciationView \in Views /\ ReimbursementsView \in Views /\
      TimelineView \in Views /\ VoteSessionsView \in Views /\ LeaderboardView \in Views /\
      SettlementsView \in Views /\ AuditTrailView \in Views /\ DecisionsView \in Views /\
      NotificationsView \in Views
  BY DEF Views, Kinds, Skeleton,
         DepreciationView, ReimbursementsView, TimelineView, VoteSessionsView, LeaderboardView,
         SettlementsView, AuditTrailView, DecisionsView, NotificationsView
<1> QED BY <1>1, <1>2, <1>3, <1>4, <1>5, <1>6, <1>7, <1>8, <1>9, <1>10 DEF Lists, List

PaneLoads == [1 .. MaxLoads -> PaneLoad \cup {NoLoad}]

LEMMA RequestIs ==
  ASSUME NEW k \in PaneKeys, NEW after \in (Kinds \X PaneRows) \cup {NoAlter}
  PROVE  /\ Request(k, after) \in PaneLoad /\ Request(k, after) # NoLoad
         /\ Request(k, after).of = k /\ Request(k, after).at = "asked"
<1>1. [i \in PaneItems |-> None] \in [PaneItems -> None .. Edited]
  BY DEF None, Edited
<1>2. Request(k, after) \in PaneLoad
  BY <1>1 DEF Request, PaneLoad
<1> QED BY <1>2, NoPaneRequestAssumption DEF Request

\* A page that is mounted asks for the rows of the first key, or shows nothing.
LEMMA FreshIs ==
  ASSUME NEW s \in Scripts, NEW f, f = Fresh(s)
  PROVE  /\ f.loads \in PaneLoads /\ f.loading \subseteq PaneKeys
         /\ \A l \in 1 .. MaxLoads : f.loads[l] # NoLoad => f.loads[l].at = "asked"
         /\ \/ f.picked = FirstKey /\ \E l \in 1 .. MaxLoads : f.loads[l] # NoLoad /\ f.loads[l].of = FirstKey
            \/ f.picked = NoPaneKey /\ \A l \in 1 .. MaxLoads : f.loads[l] = NoLoad
<1>1. PICK q : q = Request(FirstKey, NoAlter)
  OBVIOUS
<1>2. q \in PaneLoad /\ q # NoLoad /\ q.of = FirstKey /\ q.at = "asked"
  BY <1>1, RequestIs, PanesAssumption
<1>3. 1 \in 1 .. MaxLoads
  BY PanesAssumption
<1>4. CASE s.start = "mount"
  <2>1. f = [picked |-> FirstKey, loading |-> {FirstKey},
             loads |-> [l \in 1 .. MaxLoads |-> IF l = 1 THEN q ELSE NoLoad]]
    BY <1>1, <1>4 DEF Fresh
  <2>2. f.loads \in PaneLoads /\ f.loads[1] = q /\ \A l \in 1 .. MaxLoads : f.loads[l] \in {q, NoLoad}
    BY <1>2, <1>3, <2>1 DEF PaneLoads
  <2> QED BY <1>2, <1>3, <2>1, <2>2, PanesAssumption
<1>5. CASE s.start # "mount"
  BY <1>5 DEF Fresh, PaneLoads
<1> QED BY <1>4, <1>5

\* What a load that begins leaves of the page.
Began(k, current) ==
  /\ loads' \in PaneLoads /\ loading' \subseteq PaneKeys /\ failing' = FALSE
  /\ list' = list \/ (pane.script.before = "clears" /\ list' = NoRows)
  /\ \E l \in 1 .. MaxLoads :
       /\ loads[l] = NoLoad /\ loads'[l] # NoLoad /\ loads'[l].of = k /\ loads'[l].at = "asked"
       /\ \A m \in 1 .. MaxLoads : m # l => loads'[m] = current[m]

LEMMA StartIs ==
  ASSUME PanesTypeOK, NEW k \in PaneKeys, NEW after \in (Kinds \X PaneRows) \cup {NoAlter},
         NEW current \in PaneLoads, StartLoad(k, after, current)
  PROVE  Began(k, current)
<1>1. PICK l \in 1 .. MaxLoads : loads[l] = NoLoad /\ loads' = [current EXCEPT ![l] = Request(k, after)]
  BY DEF StartLoad
<1>2. PICK q : q = Request(k, after)
  OBVIOUS
<1>3. q \in PaneLoad /\ q # NoLoad /\ q.of = k /\ q.at = "asked"
  BY <1>2, RequestIs
<1>4. loads' \in PaneLoads /\ loads'[l] = q /\ \A m \in 1 .. MaxLoads : m # l => loads'[m] = current[m]
  BY <1>1, <1>2, <1>3 DEF PaneLoads
<1>5. loading' \subseteq PaneKeys /\ failing' = FALSE
      /\ (list' = list \/ (pane.script.before = "clears" /\ list' = NoRows))
  BY DEF StartLoad, PanesTypeOK
<1> QED BY <1>1, <1>3, <1>4, <1>5 DEF Began

\* What the loads are once the page has heard the end of a change.
LEMMA OvertakenIs ==
  ASSUME PanesTypeOK, NEW a \in 1 .. MaxAlters, NEW overdue, overdue = Overtaken(a)
  PROVE  /\ overdue \in PaneLoads
         /\ \A l \in 1 .. MaxLoads :
              /\ overdue[l] = NoLoad <=> loads[l] = NoLoad
              /\ loads[l] # NoLoad => overdue[l].of = loads[l].of /\ overdue[l].at = loads[l].at
                                      /\ overdue[l].rows = loads[l].rows
              /\ overdue[l] # loads[l] => overdue[l].overtaken
              /\ loads[l] # NoLoad /\ l \in alters[a].missedBy => overdue[l].overtaken
<1>1. ASSUME NEW q \in PaneLoad
      PROVE  /\ [q EXCEPT !.overtaken = TRUE] \in PaneLoad /\ [q EXCEPT !.overtaken = TRUE] # NoLoad
             /\ [q EXCEPT !.overtaken = TRUE].of = q.of /\ [q EXCEPT !.overtaken = TRUE].at = q.at
             /\ [q EXCEPT !.overtaken = TRUE].rows = q.rows /\ [q EXCEPT !.overtaken = TRUE].overtaken
  <2>1. PICK z : z = [q EXCEPT !.overtaken = TRUE]
    OBVIOUS
  <2>2. z \in PaneLoad /\ z.of = q.of /\ z.at = q.at /\ z.rows = q.rows /\ z.overtaken
    BY <2>1 DEF PaneLoad
  <2> QED BY <2>1, <2>2, NoPaneRequestAssumption
<1>2. \A l \in 1 .. MaxLoads : loads[l] \in PaneLoad \cup {NoLoad}
  BY DEF PanesTypeOK
<1>3. ASSUME NEW l \in 1 .. MaxLoads
      PROVE  /\ overdue[l] \in PaneLoad \cup {NoLoad}
             /\ overdue[l] = NoLoad <=> loads[l] = NoLoad
             /\ loads[l] # NoLoad => overdue[l].of = loads[l].of /\ overdue[l].at = loads[l].at
                                     /\ overdue[l].rows = loads[l].rows
             /\ overdue[l] # loads[l] => overdue[l].overtaken
             /\ loads[l] # NoLoad /\ l \in alters[a].missedBy => overdue[l].overtaken
  <2>1. CASE loads[l] # NoLoad /\ l \in alters[a].missedBy
    <3>1. overdue[l] = [loads[l] EXCEPT !.overtaken = TRUE]
      BY <2>1 DEF Overtaken
    <3> QED BY <1>1, <1>2, <2>1, <3>1
  <2>2. CASE ~(loads[l] # NoLoad /\ l \in alters[a].missedBy)
    <3>1. overdue[l] = loads[l]
      BY <2>2 DEF Overtaken
    <3> QED BY <1>2, <2>2, <3>1
  <2> QED BY <2>1, <2>2
<1>4. overdue \in PaneLoads
  <2>1. overdue = [l \in 1 .. MaxLoads |-> overdue[l]]
    BY DEF Overtaken
  <2> QED BY <1>3, <2>1 DEF PaneLoads
<1> QED BY <1>3, <1>4

-----------------------------------------------------------------------------

\* A change that the backend has carried out and of whose end the page knows nothing yet.
Out(a) == alters[a] # NoAlter /\ alters[a].at \in {"done", "lost"}
OutOn(a, r) == Out(a) /\ alters[a].row = r

\* What the backend lists of a row after a change that no other change has crossed.
Outcome(kind) ==
  IF kind = "add" THEN Created
  ELSE IF kind = "drop" THEN (IF pane.script.drops = "marks" THEN Edited ELSE None) ELSE Edited

\* A change that no other has crossed is the only one of its row, and made what is there.
AlterInv ==
  \A a \in 1 .. MaxAlters : alters[a] # NoAlter /\ ~alters[a].mixed =>
    /\ \A b \in 1 .. MaxAlters : alters[b] # NoAlter /\ alters[b].row = alters[a].row => b = a
    /\ Out(a) => Listed(shelf[alters[a].row]) = Outcome(alters[a].kind)

\* A row that is being edited was there.
WasThere(r, v) ==
  \A a \in 1 .. MaxAlters :
    OutOn(a, r) /\ alters[a].kind = "edit" /\ ~alters[a].mixed => v # None

\* The page holds a row as it is, or as it was before a change that is out; a load has it so
\* only if that change knows that the load has missed it.
InList(r, v) ==
  (v = Listed(shelf[r]) \/ \E a \in 1 .. MaxAlters : OutOn(a, r)) /\ WasThere(r, v)
InLoad(l, r, v) ==
  /\ v = Listed(shelf[r]) \/ \E a \in 1 .. MaxAlters : OutOn(a, r) /\ l \in alters[a].missedBy
  /\ WasThere(r, v)

LoadOK(l) ==
  loads[l] # NoLoad /\ loads[l].at = "answered" /\ ~loads[l].overtaken =>
    \A i \in PaneItems : InLoad(l, <<loads[l].of, i>>, loads[l].rows[i])
LoadsOK == \A l \in 1 .. MaxLoads : LoadOK(l)

LoadFor(k) == \E l \in 1 .. MaxLoads : loads[l] # NoLoad /\ loads[l].of = k

\* The keys whose rows the page should hold.
Owed(k) == k \notin doubt /\ ~LoadFor(k) /\ IF KeepsEach THEN k \in cached ELSE k = picked

Holds(k) ==
  /\ \A i \in PaneItems : InList(<<k, i>>, list[<<k, i>>])
  /\ ~KeepsEach => \A r \in PaneRows : r[1] # k => list[r] = None

ListInv == \A k \in PaneKeys : Owed(k) => Holds(k)

\* A key that is open has been loaded or will be; a page without keys that shows nothing yet
\* has asked for nothing.
OpenInv ==
  /\ KeepsEach /\ picked # NoPaneKey => picked \in cached \/ LoadFor(picked)
  /\ ~pane.script.keyed =>
       /\ picked \in {FirstKey, NoPaneKey}
       /\ picked = NoPaneKey =>
            /\ list = NoRows /\ \A l \in 1 .. MaxLoads : loads[l] = NoLoad
            /\ \A a \in 1 .. MaxAlters : alters[a] # NoAlter => ~alters[a].heard

PanesInv == PanesTypeOK /\ Sane(pane.script) /\ AlterInv /\ LoadsOK /\ ListInv /\ OpenInv

-----------------------------------------------------------------------------
(* Steps that carry nothing out and end nothing that was.                   *)

SameOuts ==
  \A a \in 1 .. MaxAlters :
    /\ Out(a)' <=> Out(a)
    /\ Out(a) => /\ alters'[a].kind = alters[a].kind /\ alters'[a].row = alters[a].row
                 /\ alters[a].mixed => alters'[a].mixed

LEMMA InListStays ==
  ASSUME SameOuts, UNCHANGED <<pane, shelf>>, NEW r \in PaneRows, NEW v, InList(r, v)
  PROVE  InList(r, v)'
<1>1. \A a \in 1 .. MaxAlters : OutOn(a, r)' <=> OutOn(a, r)
  BY DEF SameOuts, OutOn, Out
<1>2. Listed(shelf[r])' = Listed(shelf[r])
  BY DEF Listed
<1>3. WasThere(r, v)'
  BY <1>1 DEF SameOuts, InList, WasThere, OutOn
<1> QED BY <1>1, <1>2, <1>3 DEF InList

LEMMA InLoadStays ==
  ASSUME SameOuts, UNCHANGED <<pane, shelf>>, NEW r \in PaneRows, NEW v, NEW l, InLoad(l, r, v),
         \A a \in 1 .. MaxAlters : Out(a) /\ l \in alters[a].missedBy => l \in alters'[a].missedBy
  PROVE  InLoad(l, r, v)'
<1>1. \A a \in 1 .. MaxAlters : OutOn(a, r)' <=> OutOn(a, r)
  BY DEF SameOuts, OutOn, Out
<1>2. Listed(shelf[r])' = Listed(shelf[r])
  BY DEF Listed
<1>3. WasThere(r, v)'
  BY <1>1 DEF SameOuts, InLoad, WasThere, OutOn
<1> QED BY <1>1, <1>2, <1>3 DEF InLoad, OutOn

\* Changes stay what they are, or end.
LEMMA AltersStay ==
  ASSUME AlterInv, UNCHANGED <<pane, shelf>>,
         \A a \in 1 .. MaxAlters : alters'[a] # NoAlter =>
           /\ alters[a] # NoAlter
           /\ alters'[a].kind = alters[a].kind /\ alters'[a].row = alters[a].row
           /\ alters[a].mixed => alters'[a].mixed
           /\ Out(a)' => Out(a)
  PROVE  AlterInv'
<1>1. \A r \in PaneRows : Listed(shelf[r])' = Listed(shelf[r])
  BY DEF Listed
<1>2. \A kind : Outcome(kind)' = Outcome(kind)
  BY DEF Outcome
<1> QED BY <1>1, <1>2 DEF AlterInv, Listed, Outcome

\* A load is answered, fails or begins, with the rest as it was.
LEMMA LoadsStay ==
  ASSUME LoadsOK, PanesTypeOK, SameOuts, UNCHANGED <<pane, shelf>>,
         NEW L \in SUBSET (1 .. MaxLoads),
         \A l \in L : loads'[l] = loads[l] /\
           \A a \in 1 .. MaxAlters : Out(a) /\ l \in alters[a].missedBy => l \in alters'[a].missedBy
  PROVE  \A l \in L : LoadOK(l)'
<1> SUFFICES ASSUME NEW l \in L, loads[l] # NoLoad, loads[l].at = "answered", ~loads[l].overtaken,
                    NEW i \in PaneItems
             PROVE  InLoad(l, <<loads[l].of, i>>, loads[l].rows[i])'
  BY DEF LoadOK
<1>1. PICK r, v : r = <<loads[l].of, i>> /\ v = loads[l].rows[i]
  OBVIOUS
<1>2. r \in PaneRows
  BY <1>1 DEF PanesTypeOK, PaneLoad, PaneRows
<1>3. InLoad(l, r, v)
  BY <1>1 DEF LoadsOK, LoadOK
<1>4. InLoad(l, r, v)'
  BY <1>2, <1>3, InLoadStays
<1> QED BY <1>1, <1>4

\* The rows of a key stay in the list.
LEMMA HoldsStays ==
  ASSUME SameOuts, UNCHANGED <<pane, shelf, list>>, NEW k \in PaneKeys, Holds(k)
  PROVE  Holds(k)'
<1>1. ASSUME NEW i \in PaneItems PROVE InList(<<k, i>>, list[<<k, i>>])'
  <2>1. PICK r, v : r = <<k, i>> /\ v = list[<<k, i>>]
    OBVIOUS
  <2>2. r \in PaneRows /\ InList(r, v)
    BY <2>1 DEF Holds, PaneRows
  <2>3. InList(r, v)'
    BY <2>2, InListStays
  <2> QED BY <2>1, <2>3
<1> QED BY <1>1 DEF Holds, KeepsEach

LEMMA LoadsSame ==
  ASSUME PanesTypeOK, LoadsOK, UNCHANGED <<pane, shelf, loads, alters>>
  PROVE  LoadsOK'
<1>1. SameOuts
  BY DEF SameOuts, Out
<1>2. PICK L : L = 1 .. MaxLoads
  OBVIOUS
<1>3. \A l \in L : LoadOK(l)'
  BY <1>1, <1>2, LoadsStay
<1> QED BY <1>2, <1>3 DEF LoadsOK

LEMMA EditsAreThere ==
  ASSUME AlterInv, NEW r \in PaneRows, NEW v, v = Listed(shelf[r])
  PROVE  WasThere(r, v)
<1> SUFFICES ASSUME NEW a \in 1 .. MaxAlters, OutOn(a, r), alters[a].kind = "edit", ~alters[a].mixed
             PROVE  v # None
  BY DEF WasThere
<1>1. Out(a) /\ alters[a] # NoAlter /\ alters[a].row = r
  BY DEF OutOn, Out
<1>2. v = Outcome("edit")
  BY <1>1 DEF AlterInv
<1> QED BY <1>2 DEF Outcome, Edited, None

LEMMA ListStays ==
  ASSUME ListInv, SameOuts, UNCHANGED <<pane, shelf, list>>,
         \A k \in PaneKeys : Owed(k)' => Owed(k)
  PROVE  ListInv'
<1> SUFFICES ASSUME NEW k \in PaneKeys, Owed(k) PROVE Holds(k)'
  BY DEF ListInv
<1>1. Holds(k)
  BY DEF ListInv
<1> QED BY <1>1, HoldsStays

LEMMA OpenPaneKeeps == ASSUME PanesInv, NEW k \in PaneKeys, OpenPane(k) PROVE PanesInv'
<1>0. PanesTypeOK /\ Sane(pane.script) /\ AlterInv /\ LoadsOK /\ ListInv /\ OpenInv
  BY DEF PanesInv
<1>1. /\ UNCHANGED <<pane, shelf, cached, alters, alterings, slips, doubt>>
      /\ openings' \in 0 .. MaxOpenings /\ (pane.script.keyed \/ k = FirstKey)
      /\ picked' = IF pane.script.picks = "answer" THEN picked ELSE k
  BY <1>0, PanesAssumption DEF OpenPane, PanesTypeOK
<1>2. SameOuts
  BY <1>1 DEF SameOuts, Out
<1>3. AlterInv'
  BY <1>0, <1>1, AltersStay DEF Out
<1>4. CASE Needed(k)
  <2>1. StartLoad(k, NoAlter, loads)
    BY <1>4 DEF OpenPane
  <2>2. loads \in PaneLoads
    BY <1>0 DEF PanesTypeOK, PaneLoads
  <2>3. /\ loads' \in PaneLoads /\ loading' \subseteq PaneKeys /\ failing' = FALSE
        /\ list' = list \/ (pane.script.before = "clears" /\ list' = NoRows)
        /\ \E l \in 1 .. MaxLoads :
             /\ loads[l] = NoLoad /\ loads'[l] # NoLoad /\ loads'[l].of = k /\ loads'[l].at = "asked"
             /\ \A m \in 1 .. MaxLoads : m # l => loads'[m] = loads[m]
    <3>1. PICK none, now : none = NoAlter /\ now = loads
      OBVIOUS
    <3>2. none \in (Kinds \X PaneRows) \cup {NoAlter} /\ now \in PaneLoads
      BY <2>2, <3>1
    <3>3. StartLoad(k, none, now)
      BY <2>1, <3>1
    <3>4. Began(k, now)
      BY <1>0, <3>2, <3>3, StartIs
    <3> QED BY <3>1, <3>4 DEF Began
  <2>4. PICK l \in 1 .. MaxLoads :
             /\ loads[l] = NoLoad /\ loads'[l] # NoLoad /\ loads'[l].of = k /\ loads'[l].at = "asked"
             /\ \A m \in 1 .. MaxLoads : m # l => loads'[m] = loads[m]
    BY <2>3
  <2>5. NoRows \in [PaneRows -> None .. Edited]
    BY DEF NoRows, None, Edited
  <2>6. PanesTypeOK'
    BY <1>0, <1>1, <2>3, <2>5 DEF PanesTypeOK, PaneLoads
  <2>7. LoadsOK'
    <3>1. PICK L : L = (1 .. MaxLoads) \ {l}
      OBVIOUS
    <3>2. \A m \in L : LoadOK(m)'
      BY <1>0, <1>1, <1>2, <2>4, <3>1, LoadsStay
    <3>3. LoadOK(l)'
      BY <2>4 DEF LoadOK
    <3> QED BY <3>1, <3>2, <3>3 DEF LoadsOK
  <2>8. LoadFor(k)' /\ \A j \in PaneKeys : LoadFor(j) => LoadFor(j)'
    BY <2>4 DEF LoadFor
  <2>9. ListInv'
    <3>1. CASE list' = list
      BY <1>0, <1>1, <1>2, <2>8, <3>1, ListStays DEF Owed, KeepsEach
    <3>2. CASE pane.script.before = "clears"
      BY <1>0, <1>1, <2>8, <3>2 DEF Sane, ListInv, Owed, KeepsEach
    <3> QED BY <2>3, <3>1, <3>2
  <2>10. OpenInv'
    BY <1>0, <1>1, <2>8, PanesAssumption DEF OpenInv, Sane, KeepsEach
  <2> QED BY <1>0, <1>1, <1>3, <2>6, <2>7, <2>9, <2>10 DEF PanesInv
<1>5. CASE ~Needed(k)
  <2>1. k # picked /\ UNCHANGED <<loads, list, loading, failing>>
    BY <1>5 DEF OpenPane
  <2>2. KeepsEach /\ k \in cached /\ picked' = k
    <3>1. pane.script.opens \in {"once", "ifEmpty"}
      BY <1>0, <1>5 DEF OpenPane, Needed, PanesTypeOK, Scripts
    <3>2. ASSUME pane.script.opens = "ifEmpty" PROVE FALSE
      BY <1>0, <1>1, <1>5, <2>1, <3>2 DEF Sane, OpenInv, Needed, Empty
    <3> QED BY <1>0, <1>1, <1>5, <3>1, <3>2 DEF Needed, KeepsEach, Sane
  <2>3. PanesTypeOK'
    BY <1>0, <1>1, <2>1, <2>2 DEF PanesTypeOK
  <2>4. LoadsOK'
    BY <1>0, <1>1, <2>1, LoadsSame
  <2>5. ListInv'
    BY <1>0, <1>1, <1>2, <2>1, <2>2, ListStays DEF Owed, KeepsEach, LoadFor
  <2>6. OpenInv'
    BY <1>0, <1>1, <2>2, PanesAssumption DEF OpenInv, Sane, KeepsEach
  <2> QED BY <1>0, <1>1, <1>3, <2>3, <2>4, <2>5, <2>6 DEF PanesInv
<1> QED BY <1>4, <1>5

LEMMA ClosePaneKeeps == ASSUME PanesInv, ClosePane PROVE PanesInv'
<1>0. PanesTypeOK /\ Sane(pane.script) /\ AlterInv /\ LoadsOK /\ ListInv /\ OpenInv
  BY DEF PanesInv
<1>1. /\ UNCHANGED <<pane, shelf, list, cached, loading, failing, loads, alters, openings, alterings, slips, doubt>>
      /\ picked' = NoPaneKey /\ pane.script.closes
  BY DEF ClosePane
<1>2. SameOuts
  BY <1>1 DEF SameOuts, Out
<1>3. PanesTypeOK' /\ AlterInv'
  BY <1>0, <1>1, AltersStay DEF PanesTypeOK, Out
<1>4. LoadsOK'
  BY <1>0, <1>1, LoadsSame
<1>5. ListInv'
  BY <1>0, <1>1, <1>2, ListStays, PanesAssumption DEF Owed, KeepsEach, LoadFor
<1>6. OpenInv'
  BY <1>0, <1>1 DEF OpenInv, Sane, KeepsEach
<1> QED BY <1>0, <1>1, <1>3, <1>4, <1>5, <1>6 DEF PanesInv

\* A load changes where it stands.
LEMMA LoadGoesOn ==
  ASSUME PanesInv, NEW l \in 1 .. MaxLoads, NEW q \in PaneLoad, loads[l] # NoLoad,
         loads' = [loads EXCEPT ![l] = q], q.of = loads[l].of,
         UNCHANGED <<pane, shelf, list, picked, cached, loading, failing, alters, openings, alterings, doubt>>,
         slips' \in 0 .. MaxSlips, LoadOK(l)'
  PROVE  PanesInv'
<1>0. PanesTypeOK /\ Sane(pane.script) /\ AlterInv /\ LoadsOK /\ ListInv /\ OpenInv
  BY DEF PanesInv
<1>1. /\ loads' \in PaneLoads /\ loads'[l] = q /\ q # NoLoad
      /\ \A m \in 1 .. MaxLoads : m # l => loads'[m] = loads[m]
  BY <1>0, NoPaneRequestAssumption DEF PaneLoads, PanesTypeOK
<1>2. SameOuts
  BY DEF SameOuts, Out
<1>3. PanesTypeOK' /\ AlterInv'
  BY <1>0, <1>1, AltersStay DEF PanesTypeOK, PaneLoads, Out
<1>4. LoadsOK'
  <2>1. PICK L : L = (1 .. MaxLoads) \ {l}
    OBVIOUS
  <2>2. \A m \in L : LoadOK(m)'
    BY <1>0, <1>1, <1>2, <2>1, LoadsStay
  <2> QED BY <2>1, <2>2 DEF LoadsOK
<1>5. \A k \in PaneKeys : LoadFor(k)' <=> LoadFor(k)
  BY <1>1 DEF LoadFor
<1>6. ListInv'
  BY <1>0, <1>2, <1>5, ListStays DEF Owed, KeepsEach
<1>7. OpenInv'
  <2>1. KeepsEach /\ picked # NoPaneKey => picked \in cached \/ LoadFor(picked)'
    BY <1>0, <1>5 DEF OpenInv, PanesTypeOK
  <2> QED BY <1>0, <1>1, <2>1 DEF OpenInv, KeepsEach, LoadFor
<1> QED BY <1>0, <1>3, <1>4, <1>6, <1>7 DEF PanesInv

LEMMA ListedType ==
  ASSUME NEW v \in None .. Deleted
  PROVE  Listed(v) \in None .. Edited
BY DEF Listed, None, Edited, Deleted

LEMMA AnswerLoadKeeps == ASSUME PanesInv, NEW l \in 1 .. MaxLoads, AnswerLoad(l) PROVE PanesInv'
<1>0. PanesTypeOK /\ AlterInv
  BY DEF PanesInv
<1>1. PICK rows : rows = [i \in PaneItems |-> Listed(shelf[<<loads[l].of, i>>])]
  OBVIOUS
<1>2. PICK q : q = [loads[l] EXCEPT !.at = "answered", !.rows = rows]
  OBVIOUS
<1>3. /\ loads[l] \in PaneLoad /\ loads[l] # NoLoad /\ loads[l].of \in PaneKeys
      /\ loads' = [loads EXCEPT ![l] = q]
      /\ UNCHANGED <<pane, shelf, list, picked, cached, loading, failing, alters, openings, alterings, slips, doubt>>
  BY <1>0, <1>1, <1>2 DEF AnswerLoad, PanesTypeOK, PaneLoad
<1>4. rows \in [PaneItems -> None .. Edited]
  <2>1. \A i \in PaneItems : shelf[<<loads[l].of, i>>] \in None .. Deleted
    BY <1>0, <1>3 DEF PanesTypeOK, PaneRows
  <2> QED BY <1>1, <2>1, ListedType
<1>5. q \in PaneLoad /\ q.of = loads[l].of /\ q.rows = rows
  BY <1>2, <1>3, <1>4 DEF PaneLoad
<1>6. LoadOK(l)'
  <2> SUFFICES ASSUME NEW i \in PaneItems PROVE InLoad(l, <<q.of, i>>, q.rows[i])'
    BY <1>0, <1>3, <1>5 DEF LoadOK, PanesTypeOK
  <2>1. PICK r, v : r = <<q.of, i>> /\ v = q.rows[i]
    OBVIOUS
  <2>2. r \in PaneRows /\ v = Listed(shelf[r])
    BY <1>1, <1>3, <1>5, <2>1 DEF PaneRows
  <2>3. WasThere(r, v)
    BY <1>0, <2>2, EditsAreThere
  <2>4. InLoad(l, r, v)'
    BY <1>3, <2>2, <2>3 DEF InLoad, WasThere, OutOn, Out, Listed
  <2> QED BY <2>1, <2>4
<1> QED BY <1>0, <1>3, <1>5, <1>6, LoadGoesOn DEF PanesTypeOK

LEMMA LoadFailsKeeps == ASSUME PanesInv, NEW l \in 1 .. MaxLoads, LoadFails(l) PROVE PanesInv'
<1>0. PanesTypeOK
  BY DEF PanesInv
<1>1. PICK q : q = [loads[l] EXCEPT !.at = "failed"]
  OBVIOUS
<1>2. /\ loads[l] \in PaneLoad /\ loads[l] # NoLoad /\ loads' = [loads EXCEPT ![l] = q]
      /\ UNCHANGED <<pane, shelf, list, picked, cached, loading, failing, alters, openings, alterings, doubt>>
      /\ slips' \in 0 .. MaxSlips
  BY <1>0, <1>1, PanesAssumption DEF LoadFails, Slips, PanesTypeOK
<1>3. q \in PaneLoad /\ q.of = loads[l].of /\ q.at = "failed"
  BY <1>1, <1>2 DEF PaneLoad
<1>4. LoadOK(l)'
  BY <1>0, <1>2, <1>3 DEF LoadOK, PanesTypeOK
<1> QED BY <1>2, <1>3, <1>4, LoadGoesOn

\* A load is over: it is forgotten, and its key is loaded.
LEMMA LoadOverIs ==
  ASSUME PanesTypeOK, NEW l \in 1 .. MaxLoads, loads[l] # NoLoad, LoadOver(l), UNCHANGED <<pane, shelf>>
  PROVE  /\ loads' \in PaneLoads /\ loads'[l] = NoLoad
         /\ \A m \in 1 .. MaxLoads : m # l => loads'[m] = loads[m]
         /\ alters' \in [1 .. MaxAlters -> PaneAlter \cup {NoAlter}]
         /\ \A a \in 1 .. MaxAlters :
              /\ alters'[a] = NoAlter <=> alters[a] = NoAlter
              /\ alters[a] # NoAlter =>
                   /\ alters'[a].kind = alters[a].kind /\ alters'[a].row = alters[a].row
                   /\ alters'[a].at = alters[a].at /\ alters'[a].mixed = alters[a].mixed
                   /\ alters'[a].heard = alters[a].heard
                   /\ alters'[a].missedBy = alters[a].missedBy \ {l}
         /\ cached' \subseteq PaneKeys /\ loading' \subseteq PaneKeys
         /\ cached' = IF KeepsEach THEN cached \cup {loads[l].of} ELSE cached
         /\ SameOuts
<1>1. ASSUME NEW q \in PaneAlter
      PROVE  /\ [q EXCEPT !.missedBy = @ \ {l}] \in PaneAlter /\ [q EXCEPT !.missedBy = @ \ {l}] # NoAlter
             /\ [q EXCEPT !.missedBy = @ \ {l}].kind = q.kind /\ [q EXCEPT !.missedBy = @ \ {l}].row = q.row
             /\ [q EXCEPT !.missedBy = @ \ {l}].at = q.at /\ [q EXCEPT !.missedBy = @ \ {l}].mixed = q.mixed
             /\ [q EXCEPT !.missedBy = @ \ {l}].heard = q.heard
             /\ [q EXCEPT !.missedBy = @ \ {l}].missedBy = q.missedBy \ {l}
  <2>1. PICK z : z = [q EXCEPT !.missedBy = @ \ {l}]
    OBVIOUS
  <2>2. /\ z \in PaneAlter /\ z.kind = q.kind /\ z.row = q.row /\ z.at = q.at /\ z.mixed = q.mixed
        /\ z.heard = q.heard /\ z.missedBy = q.missedBy \ {l}
    BY <2>1 DEF PaneAlter
  <2> QED BY <2>1, <2>2, NoPaneRequestAssumption
<1>2. ASSUME NEW a \in 1 .. MaxAlters
      PROVE  /\ alters'[a] \in PaneAlter \cup {NoAlter}
             /\ alters'[a] = NoAlter <=> alters[a] = NoAlter
             /\ alters[a] # NoAlter =>
                   /\ alters'[a].kind = alters[a].kind /\ alters'[a].row = alters[a].row
                   /\ alters'[a].at = alters[a].at /\ alters'[a].mixed = alters[a].mixed
                   /\ alters'[a].heard = alters[a].heard
                   /\ alters'[a].missedBy = alters[a].missedBy \ {l}
  <2>1. CASE alters[a] = NoAlter
    <3>1. alters'[a] = NoAlter
      BY <2>1 DEF LoadOver
    <3> QED BY <2>1, <3>1
  <2>2. CASE alters[a] # NoAlter
    <3>1. alters'[a] = [alters[a] EXCEPT !.missedBy = @ \ {l}]
      BY <2>2 DEF LoadOver
    <3>2. alters[a] \in PaneAlter
      BY <2>2 DEF PanesTypeOK
    <3> QED BY <1>1, <2>2, <3>1, <3>2
  <2> QED BY <2>1, <2>2
<1>3. alters' \in [1 .. MaxAlters -> PaneAlter \cup {NoAlter}]
  <2>1. alters' = [a \in 1 .. MaxAlters |-> alters'[a]]
    BY DEF LoadOver
  <2> QED BY <1>2, <2>1
<1>4. /\ loads' \in PaneLoads /\ loads'[l] = NoLoad
      /\ \A m \in 1 .. MaxLoads : m # l => loads'[m] = loads[m]
  BY DEF LoadOver, PanesTypeOK, PaneLoads
<1>5. /\ cached' \subseteq PaneKeys /\ loading' \subseteq PaneKeys
      /\ cached' = IF KeepsEach THEN cached \cup {loads[l].of} ELSE cached
  <2>1. loads[l].of \in PaneKeys
    BY DEF PanesTypeOK, PaneLoad
  <2> QED BY <2>1 DEF LoadOver, PanesTypeOK
<1>6. SameOuts
  BY <1>2 DEF SameOuts, Out
<1> QED BY <1>2, <1>3, <1>4, <1>5, <1>6

\* What the end of a load leaves: the changes, the other loads, what is open.
LEMMA LoadOverKeeps ==
  ASSUME PanesInv, NEW l \in 1 .. MaxLoads, loads[l] # NoLoad, LoadOver(l), UNCHANGED <<pane, shelf>>,
         list' \in [PaneRows -> None .. Edited], failing' \in BOOLEAN, doubt' \subseteq PaneKeys,
         picked' \in {picked, loads[l].of}, pane.script.picks = "click" => picked' = picked,
         UNCHANGED <<openings, alterings, slips>>
  PROVE  PanesTypeOK' /\ AlterInv' /\ LoadsOK' /\ OpenInv'
<1>0. PanesTypeOK /\ Sane(pane.script) /\ AlterInv /\ LoadsOK /\ OpenInv
  BY DEF PanesInv
<1>1. /\ loads' \in PaneLoads /\ loads'[l] = NoLoad
      /\ \A m \in 1 .. MaxLoads : m # l => loads'[m] = loads[m]
      /\ alters' \in [1 .. MaxAlters -> PaneAlter \cup {NoAlter}]
      /\ cached' \subseteq PaneKeys /\ loading' \subseteq PaneKeys
      /\ cached' = IF KeepsEach THEN cached \cup {loads[l].of} ELSE cached
      /\ SameOuts
  BY <1>0, LoadOverIs
<1>2. \A a \in 1 .. MaxAlters :
        /\ alters'[a] = NoAlter <=> alters[a] = NoAlter
        /\ alters[a] # NoAlter =>
             /\ alters'[a].kind = alters[a].kind /\ alters'[a].row = alters[a].row
             /\ alters'[a].at = alters[a].at /\ alters'[a].mixed = alters[a].mixed
             /\ alters'[a].heard = alters[a].heard
             /\ alters'[a].missedBy = alters[a].missedBy \ {l}
  BY <1>0, LoadOverIs
<1>3. loads[l].of \in PaneKeys
  BY <1>0 DEF PanesTypeOK, PaneLoad
<1>4. PanesTypeOK'
  BY <1>0, <1>1, <1>3 DEF PanesTypeOK, PaneLoads
<1>5. AlterInv'
  BY <1>0, <1>2, AltersStay DEF Out
<1>6. LoadsOK'
  <2>1. PICK L : L = (1 .. MaxLoads) \ {l}
    OBVIOUS
  <2>2. \A m \in L : loads'[m] = loads[m] /\
          \A a \in 1 .. MaxAlters : Out(a) /\ m \in alters[a].missedBy => m \in alters'[a].missedBy
    BY <1>1, <1>2, <2>1 DEF Out
  <2>3. \A m \in L : LoadOK(m)'
    BY <1>0, <1>1, <2>1, <2>2, LoadsStay
  <2>4. LoadOK(l)'
    BY <1>1 DEF LoadOK
  <2> QED BY <2>1, <2>3, <2>4 DEF LoadsOK
<1>7. OpenInv'
  <2>1. KeepsEach => picked' = picked
    BY <1>0 DEF Sane, KeepsEach
  <2>2. ASSUME KeepsEach, picked # NoPaneKey PROVE (picked \in cached \/ LoadFor(picked))'
    <3>1. CASE picked \in cached
      BY <1>1, <2>1, <2>2, <3>1
    <3>2. CASE LoadFor(picked)
      <4>1. PICK m \in 1 .. MaxLoads : loads[m] # NoLoad /\ loads[m].of = picked
        BY <3>2 DEF LoadFor
      <4>2. CASE m = l
        BY <1>1, <2>1, <2>2, <4>1, <4>2
      <4>3. CASE m # l
        <5>1. loads'[m] = loads[m]
          BY <1>1, <4>3
        <5> QED BY <2>1, <2>2, <4>1, <5>1 DEF LoadFor
      <4> QED BY <4>2, <4>3
    <3> QED BY <1>0, <2>2, <3>1, <3>2 DEF OpenInv
  <2>3. ~pane.script.keyed => picked' = picked /\ picked = FirstKey
    BY <1>0 DEF Sane, OpenInv
  <2>4. KeepsEach' = KeepsEach
    BY DEF KeepsEach
  <2>5. KeepsEach' /\ picked' # NoPaneKey => (picked \in cached \/ LoadFor(picked))'
    BY <2>1, <2>2, <2>4
  <2>6. FirstKey # NoPaneKey
    BY PanesAssumption
  <2> QED BY <2>3, <2>5, <2>6 DEF OpenInv
<1> QED BY <1>4, <1>5, <1>6, <1>7

LEMMA ReplacedType ==
  ASSUME PanesTypeOK, NEW k \in PaneKeys, NEW rows \in [PaneItems -> None .. Edited], NEW next,
         next = Replaced(k, rows)
  PROVE  /\ next \in [PaneRows -> None .. Edited]
         /\ \A i \in PaneItems : next[<<k, i>>] = rows[i]
         /\ \A r \in PaneRows : r[1] # k => next[r] = IF KeepsEach THEN list[r] ELSE None
<1>1. next = [r \in PaneRows |-> IF r[1] = k THEN rows[r[2]] ELSE IF KeepsEach THEN list[r] ELSE None]
  BY DEF Replaced
<1>2. \A r \in PaneRows : r[2] \in PaneItems /\ list[r] \in None .. Edited
  BY DEF PaneRows, PanesTypeOK
<1>3. None \in None .. Edited
  BY DEF None, Edited
<1>4. next \in [PaneRows -> None .. Edited]
  BY <1>1, <1>2, <1>3
<1>5. \A i \in PaneItems : <<k, i>> \in PaneRows
  BY DEF PaneRows
<1> QED BY <1>1, <1>4, <1>5

LEMMA ShowLoadKeeps == ASSUME PanesInv, NEW l \in 1 .. MaxLoads, ShowLoad(l) PROVE PanesInv'
<1>0. PanesTypeOK /\ Sane(pane.script) /\ LoadsOK /\ ListInv
  BY DEF PanesInv
<1>1. PICK k, rows : k = loads[l].of /\ rows = loads[l].rows
  OBVIOUS
<1>2. /\ loads[l] # NoLoad /\ loads[l].at = "answered" /\ LoadOver(l)
      /\ UNCHANGED <<pane, shelf, failing, openings, alterings, slips>>
      /\ k \in PaneKeys /\ rows \in [PaneItems -> None .. Edited]
      /\ list' = Replaced(k, rows) /\ picked' = PickedBy(k)
  BY <1>0, <1>1 DEF ShowLoad, PanesTypeOK, PaneLoad
<1>3. doubt' = (IF loads[l].overtaken THEN doubt \cup {k} ELSE doubt \ {k})
                \cup ({picked'} \ (IF KeepsEach THEN {picked'} ELSE {k, NoPaneKey}))
  BY <1>1 DEF ShowLoad
<1>4. /\ list' \in [PaneRows -> None .. Edited]
      /\ \A i \in PaneItems : list'[<<k, i>>] = rows[i]
      /\ \A r \in PaneRows : r[1] # k => list'[r] = IF KeepsEach THEN list[r] ELSE None
  <2>1. PICK next : next = list'
    OBVIOUS
  <2>2. next = Replaced(k, rows)
    BY <1>2, <2>1
  <2> QED BY <1>0, <1>2, <2>1, <2>2, ReplacedType
<1>5. picked' \in {picked, k} /\ (pane.script.picks = "click" => picked' = picked)
  BY <1>2 DEF PickedBy
<1>6. doubt' \subseteq PaneKeys
  BY <1>0, <1>2, <1>3, <1>5 DEF PanesTypeOK
<1>7. PanesTypeOK' /\ AlterInv' /\ LoadsOK' /\ OpenInv'
  BY <1>0, <1>1, <1>2, <1>4, <1>5, <1>6, LoadOverKeeps DEF PanesTypeOK
<1>8. /\ loads'[l] = NoLoad /\ \A m \in 1 .. MaxLoads : m # l => loads'[m] = loads[m]
      /\ cached' = IF KeepsEach THEN cached \cup {loads[l].of} ELSE cached
      /\ SameOuts
  BY <1>0, <1>2, LoadOverIs
<1>9. ListInv'
  <2> SUFFICES ASSUME NEW j \in PaneKeys, Owed(j)' PROVE Holds(j)'
    BY DEF ListInv
  <2>0. KeepsEach' = KeepsEach
    BY <1>2 DEF KeepsEach
  <2>1. CASE j = k
    <3>1. ~loads[l].overtaken
      BY <1>3, <2>1 DEF Owed
    <3>2. ASSUME NEW i \in PaneItems PROVE InList(<<j, i>>, list[<<j, i>>])'
      <4>1. PICK r, v : r = <<k, i>> /\ v = rows[i]
        OBVIOUS
      <4>2. InLoad(l, r, v) /\ r \in PaneRows
        BY <1>0, <1>1, <1>2, <3>1, <4>1 DEF LoadsOK, LoadOK, PaneRows
      <4>3. InList(r, v)
        BY <4>2 DEF InLoad, InList
      <4>4. InList(r, v)'
        BY <1>2, <1>8, <4>2, <4>3, InListStays
      <4> QED BY <1>4, <2>1, <4>1, <4>4
    <3> QED BY <1>4, <2>0, <2>1, <3>2 DEF Holds
  <2>2. CASE j # k
    <3>1. KeepsEach
      BY <1>2, <1>3, <1>5, <2>0, <2>2, PanesAssumption DEF Owed
    <3>2. ~LoadFor(j)
      <4> SUFFICES ASSUME NEW m \in 1 .. MaxLoads, loads[m] # NoLoad, loads[m].of = j PROVE FALSE
        BY DEF LoadFor
      <4>1. m # l
        BY <1>1, <2>2
      <4> QED BY <1>8, <4>1 DEF Owed, LoadFor
    <3>3. Owed(j)
      BY <1>1, <1>3, <1>8, <2>0, <2>2, <3>1, <3>2 DEF Owed
    <3>4. Holds(j)
      BY <1>0, <3>3 DEF ListInv
    <3>5. ASSUME NEW i \in PaneItems PROVE InList(<<j, i>>, list[<<j, i>>])'
      <4>1. PICK r, v : r = <<j, i>> /\ v = list[<<j, i>>]
        OBVIOUS
      <4>2. r \in PaneRows /\ InList(r, v) /\ r[1] # k
        BY <2>2, <3>4, <4>1 DEF Holds, PaneRows
      <4>3. InList(r, v)' /\ list'[r] = v
        BY <1>2, <1>4, <1>8, <3>1, <4>1, <4>2, InListStays
      <4> QED BY <4>1, <4>3
    <3> QED BY <2>0, <3>1, <3>5 DEF Holds
  <2> QED BY <2>1, <2>2
<1> QED BY <1>0, <1>2, <1>7, <1>9 DEF PanesInv

LEMMA ShowErrorKeeps == ASSUME PanesInv, NEW l \in 1 .. MaxLoads, ShowError(l) PROVE PanesInv'
<1>0. PanesTypeOK /\ Sane(pane.script) /\ ListInv
  BY DEF PanesInv
<1>1. PICK k, rows : k = loads[l].of /\ rows = [i \in PaneItems |-> None]
  OBVIOUS
<1>2. /\ loads[l] # NoLoad /\ LoadOver(l) /\ failing' \in BOOLEAN
      /\ UNCHANGED <<pane, shelf, picked, openings, alterings, slips>>
      /\ k \in PaneKeys /\ list' \in {list, Replaced(k, rows)}
      /\ doubt' = doubt \cup {k} \cup ({picked} \ {NoPaneKey})
  BY <1>0, <1>1 DEF ShowError, PanesTypeOK, PaneLoad
<1>3. rows \in [PaneItems -> None .. Edited]
  BY <1>1 DEF None, Edited
<1>4. PICK next : next = Replaced(k, rows)
  OBVIOUS
<1>5. /\ next \in [PaneRows -> None .. Edited]
      /\ \A r \in PaneRows : r[1] # k => next[r] = IF KeepsEach THEN list[r] ELSE None
  BY <1>0, <1>2, <1>3, <1>4, ReplacedType
<1>6. doubt' \subseteq PaneKeys /\ list' \in [PaneRows -> None .. Edited]
  BY <1>0, <1>2, <1>4, <1>5 DEF PanesTypeOK
<1>7. PanesTypeOK' /\ AlterInv' /\ LoadsOK' /\ OpenInv'
  BY <1>0, <1>1, <1>2, <1>6, LoadOverKeeps DEF PanesTypeOK
<1>8. /\ loads'[l] = NoLoad /\ \A m \in 1 .. MaxLoads : m # l => loads'[m] = loads[m]
      /\ cached' = IF KeepsEach THEN cached \cup {loads[l].of} ELSE cached
      /\ SameOuts
  BY <1>0, <1>2, LoadOverIs
<1>9. ListInv'
  <2> SUFFICES ASSUME NEW j \in PaneKeys, Owed(j)' PROVE Holds(j)'
    BY DEF ListInv
  <2>0. KeepsEach' = KeepsEach
    BY <1>2 DEF KeepsEach
  <2>1. j # k /\ KeepsEach
    BY <1>2, <2>0, PanesAssumption DEF Owed
  <2>2. ~LoadFor(j)
    <3> SUFFICES ASSUME NEW m \in 1 .. MaxLoads, loads[m] # NoLoad, loads[m].of = j PROVE FALSE
      BY DEF LoadFor
    <3>1. m # l
      BY <1>1, <2>1
    <3> QED BY <1>8, <3>1 DEF Owed, LoadFor
  <2>3. Owed(j)
    BY <1>1, <1>2, <1>8, <2>0, <2>1, <2>2 DEF Owed
  <2>4. Holds(j)
    BY <1>0, <2>3 DEF ListInv
  <2>5. ASSUME NEW i \in PaneItems PROVE InList(<<j, i>>, list[<<j, i>>])'
    <3>1. PICK r, v : r = <<j, i>> /\ v = list[<<j, i>>]
      OBVIOUS
    <3>2. r \in PaneRows /\ InList(r, v) /\ r[1] # k
      BY <2>1, <2>4, <3>1 DEF Holds, PaneRows
    <3>3. InList(r, v)' /\ list'[r] = v
      BY <1>2, <1>4, <1>5, <1>8, <2>1, <3>1, <3>2, InListStays
    <3> QED BY <3>1, <3>3
  <2> QED BY <2>0, <2>1, <2>5 DEF Holds
<1> QED BY <1>0, <1>2, <1>7, <1>9 DEF PanesInv

-----------------------------------------------------------------------------
(* Changes.                                                                 *)

PaneAlters == [1 .. MaxAlters -> PaneAlter \cup {NoAlter}]

\* A change is sent, refused, loses its answer, or was refused: no row changes by it.
LEMMA NothingDone ==
  ASSUME PanesInv, SameOuts, AlterInv', alters' \in PaneAlters,
         UNCHANGED <<pane, shelf, list, picked, cached, loading, loads, openings, doubt>>,
         failing' \in BOOLEAN, alterings' \in 0 .. MaxAlterings, slips' \in 0 .. MaxSlips,
         \A a \in 1 .. MaxAlters, l \in 1 .. MaxLoads :
           Out(a) /\ l \in alters[a].missedBy => l \in alters'[a].missedBy,
         picked # NoPaneKey \/ \A a \in 1 .. MaxAlters : alters'[a] # NoAlter =>
           alters[a] # NoAlter /\ (alters'[a].heard => alters[a].heard)
  PROVE  PanesInv'
<1>0. PanesTypeOK /\ Sane(pane.script) /\ LoadsOK /\ ListInv /\ OpenInv
  BY DEF PanesInv
<1>1. PanesTypeOK'
  BY <1>0 DEF PanesTypeOK, PaneAlters
<1>2. LoadsOK'
  <2>1. PICK L : L = 1 .. MaxLoads
    OBVIOUS
  <2>2. \A l \in L : LoadOK(l)'
    BY <1>0, <2>1, LoadsStay
  <2> QED BY <2>1, <2>2 DEF LoadsOK
<1>3. \A k \in PaneKeys : Owed(k)' => Owed(k)
  BY DEF Owed, LoadFor, KeepsEach
<1>4. ListInv'
  BY <1>0, <1>3, ListStays
<1>5. OpenInv'
  BY <1>0 DEF OpenInv, LoadFor, KeepsEach
<1> QED BY <1>0, <1>1, <1>2, <1>4, <1>5 DEF PanesInv

LEMMA SendAlterKeeps ==
  ASSUME PanesInv, NEW a \in 1 .. MaxAlters, NEW kind \in Kinds, NEW r \in PaneRows, SendAlter(a, kind, r)
  PROVE  PanesInv'
<1>0. PanesTypeOK /\ AlterInv
  BY DEF PanesInv
<1>1. PICK sent : sent = [kind |-> kind, row |-> r, at |-> "sent", heard |-> TRUE, missedBy |-> {},
                          mixed |-> ChangesRow(r) # {}]
  OBVIOUS
<1>2. sent \in PaneAlter /\ sent # NoAlter /\ sent.at = "sent" /\ sent.row = r
      /\ (~sent.mixed => \A b \in 1 .. MaxAlters : alters[b] # NoAlter => alters[b].row # r)
  <2>1. (ChangesRow(r) # {}) \in BOOLEAN /\ {} \in SUBSET (1 .. MaxLoads)
    OBVIOUS
  <2>2. sent \in PaneAlter
    BY <1>1, <2>1 DEF PaneAlter
  <2> QED BY <1>1, <2>2, NoPaneRequestAssumption DEF ChangesRow
<1>3. /\ alters[a] = NoAlter /\ picked # NoPaneKey
      /\ alters' = [b \in 1 .. MaxAlters |->
            IF b = a THEN sent
            ELSE IF b \in ChangesRow(r) THEN [alters[b] EXCEPT !.mixed = TRUE] ELSE alters[b]]
      /\ alterings' \in 0 .. MaxAlterings
      /\ UNCHANGED <<pane, shelf, list, picked, cached, loading, failing, loads, openings, slips, doubt>>
  BY <1>0, <1>1, PanesAssumption DEF SendAlter, PanesTypeOK
<1>4. ASSUME NEW q \in PaneAlter
      PROVE  /\ [q EXCEPT !.mixed = TRUE] \in PaneAlter /\ [q EXCEPT !.mixed = TRUE] # NoAlter
             /\ [q EXCEPT !.mixed = TRUE].kind = q.kind /\ [q EXCEPT !.mixed = TRUE].row = q.row
             /\ [q EXCEPT !.mixed = TRUE].at = q.at /\ [q EXCEPT !.mixed = TRUE].mixed
             /\ [q EXCEPT !.mixed = TRUE].missedBy = q.missedBy
  <2>1. PICK z : z = [q EXCEPT !.mixed = TRUE]
    OBVIOUS
  <2>2. z \in PaneAlter /\ z.kind = q.kind /\ z.row = q.row /\ z.at = q.at /\ z.mixed /\ z.missedBy = q.missedBy
    BY <2>1 DEF PaneAlter
  <2> QED BY <2>1, <2>2, NoPaneRequestAssumption
<1>5. ASSUME NEW b \in 1 .. MaxAlters, b # a
      PROVE  /\ alters'[b] \in PaneAlter \cup {NoAlter}
             /\ alters'[b] = NoAlter <=> alters[b] = NoAlter
             /\ alters[b] # NoAlter =>
                  /\ alters'[b].kind = alters[b].kind /\ alters'[b].row = alters[b].row
                  /\ alters'[b].at = alters[b].at /\ alters'[b].missedBy = alters[b].missedBy
                  /\ alters[b].mixed => alters'[b].mixed
                  /\ alters[b].row = r => alters'[b].mixed
  <2>0. alters[b] \in PaneAlter \cup {NoAlter}
    BY <1>0 DEF PanesTypeOK
  <2>1. CASE b \in ChangesRow(r)
    <3>1. alters'[b] = [alters[b] EXCEPT !.mixed = TRUE] /\ alters[b] # NoAlter
      BY <1>3, <1>5, <2>1 DEF ChangesRow
    <3> QED BY <1>4, <2>0, <3>1
  <2>2. CASE b \notin ChangesRow(r)
    <3>1. alters'[b] = alters[b] /\ (alters[b] # NoAlter => alters[b].row # r)
      BY <1>3, <1>5, <2>2 DEF ChangesRow
    <3> QED BY <2>0, <3>1
  <2> QED BY <2>1, <2>2
<1>6. alters'[a] = sent
  BY <1>3
<1>7. alters' \in PaneAlters
  <2>1. \A b \in 1 .. MaxAlters : alters'[b] \in PaneAlter \cup {NoAlter}
    BY <1>2, <1>5, <1>6
  <2>2. alters' = [b \in 1 .. MaxAlters |-> alters'[b]]
    BY <1>3
  <2> QED BY <2>1, <2>2 DEF PaneAlters
<1>8. ~Out(a) /\ ~Out(a)'
  BY <1>2, <1>3, <1>6 DEF Out
<1>9. SameOuts
  BY <1>5, <1>8 DEF SameOuts, Out
<1>10. AlterInv'
  <2> SUFFICES ASSUME NEW b \in 1 .. MaxAlters, alters'[b] # NoAlter, ~alters'[b].mixed
               PROVE  /\ \A c \in 1 .. MaxAlters : alters'[c] # NoAlter /\ alters'[c].row = alters'[b].row => c = b
                      /\ Out(b)' => (Listed(shelf[alters[b].row]) = Outcome(alters[b].kind))'
    BY DEF AlterInv
  <2>1. CASE b = a
    BY <1>2, <1>5, <1>6, <1>8, <2>1
  <2>2. CASE b # a
    <3>1. alters[b] # NoAlter /\ ~alters[b].mixed /\ alters[b].row # r
          /\ alters'[b].row = alters[b].row /\ alters'[b].kind = alters[b].kind /\ (Out(b)' => Out(b))
      BY <1>5, <2>2 DEF Out
    <3>2. \A c \in 1 .. MaxAlters : alters[c] # NoAlter /\ alters[c].row = alters[b].row => c = b
      BY <1>0, <3>1 DEF AlterInv
    <3>3. \A c \in 1 .. MaxAlters : alters'[c] # NoAlter /\ alters'[c].row = alters[b].row => c = b
      BY <1>2, <1>5, <1>6, <3>1, <3>2
    <3>4. Out(b) => Listed(shelf[alters[b].row]) = Outcome(alters[b].kind)
      BY <1>0, <3>1 DEF AlterInv
    <3> QED BY <1>3, <3>1, <3>3, <3>4 DEF Listed, Outcome
  <2> QED BY <2>1, <2>2
<1>11. \A b \in 1 .. MaxAlters, l \in 1 .. MaxLoads :
         Out(b) /\ l \in alters[b].missedBy => l \in alters'[b].missedBy
  BY <1>5, <1>8 DEF Out
<1> QED BY <1>0, <1>3, <1>7, <1>9, <1>10, <1>11, NothingDone DEF PanesTypeOK

\* One change goes on or ends, with no row changed by it.
LEMMA OneGoesOn ==
  ASSUME PanesInv, NEW a \in 1 .. MaxAlters, NEW q \in PaneAlter \cup {NoAlter}, alters[a] # NoAlter,
         alters' = [alters EXCEPT ![a] = q],
         q # NoAlter =>
           /\ q.kind = alters[a].kind /\ q.row = alters[a].row /\ q.mixed = alters[a].mixed
           /\ q.heard = alters[a].heard /\ q.missedBy = alters[a].missedBy,
         Out(a) <=> q # NoAlter /\ q.at \in {"done", "lost"},
         UNCHANGED <<pane, shelf, list, picked, cached, loading, loads, openings, alterings, doubt>>,
         failing' \in BOOLEAN, slips' \in 0 .. MaxSlips
  PROVE  PanesInv'
<1>0. PanesTypeOK /\ AlterInv
  BY DEF PanesInv
<1>1. alters' \in PaneAlters /\ alters'[a] = q /\ \A b \in 1 .. MaxAlters : b # a => alters'[b] = alters[b]
  BY <1>0 DEF PanesTypeOK, PaneAlters
<1>2. Out(a)' <=> Out(a)
  BY <1>1 DEF Out
<1>3. SameOuts
  BY <1>1, <1>2 DEF SameOuts, Out
<1>4. AlterInv'
  BY <1>0, <1>1, <1>2, AltersStay DEF Out
<1>5. \A b \in 1 .. MaxAlters, l \in 1 .. MaxLoads :
         Out(b) /\ l \in alters[b].missedBy => l \in alters'[b].missedBy
  BY <1>1 DEF Out
<1> QED BY <1>0, <1>1, <1>3, <1>4, <1>5, NothingDone DEF PanesTypeOK

LEMMA RefuseAlterKeeps == ASSUME PanesInv, NEW a \in 1 .. MaxAlters, RefuseAlter(a) PROVE PanesInv'
<1>0. PanesTypeOK
  BY DEF PanesInv
<1>1. PICK q : q = [alters[a] EXCEPT !.at = "refused"]
  OBVIOUS
<1>2. /\ alters[a] \in PaneAlter /\ alters[a] # NoAlter /\ alters[a].at = "sent"
      /\ alters' = [alters EXCEPT ![a] = q]
      /\ slips' \in 0 .. MaxSlips
      /\ UNCHANGED <<pane, shelf, list, picked, cached, loading, failing, loads, openings, alterings, doubt>>
  BY <1>0, <1>1, PanesAssumption DEF RefuseAlter, Slips, PanesTypeOK
<1>3. /\ q \in PaneAlter /\ q.kind = alters[a].kind /\ q.row = alters[a].row /\ q.mixed = alters[a].mixed
      /\ q.heard = alters[a].heard /\ q.missedBy = alters[a].missedBy /\ q.at = "refused"
  BY <1>1, <1>2 DEF PaneAlter
<1>4. Out(a) <=> q # NoAlter /\ q.at \in {"done", "lost"}
  BY <1>2, <1>3 DEF Out
<1> QED BY <1>0, <1>2, <1>3, <1>4, OneGoesOn DEF PanesTypeOK

LEMMA LoseAnswerKeeps == ASSUME PanesInv, NEW a \in 1 .. MaxAlters, LoseAnswer(a) PROVE PanesInv'
<1>0. PanesTypeOK
  BY DEF PanesInv
<1>1. PICK q : q = [alters[a] EXCEPT !.at = "lost"]
  OBVIOUS
<1>2. /\ alters[a] \in PaneAlter /\ alters[a] # NoAlter /\ alters[a].at = "done"
      /\ alters' = [alters EXCEPT ![a] = q]
      /\ slips' \in 0 .. MaxSlips
      /\ UNCHANGED <<pane, shelf, list, picked, cached, loading, failing, loads, openings, alterings, doubt>>
  BY <1>0, <1>1, PanesAssumption DEF LoseAnswer, Slips, PanesTypeOK
<1>3. /\ q \in PaneAlter /\ q.kind = alters[a].kind /\ q.row = alters[a].row /\ q.mixed = alters[a].mixed
      /\ q.heard = alters[a].heard /\ q.missedBy = alters[a].missedBy /\ q.at = "lost"
  BY <1>1, <1>2 DEF PaneAlter
<1>4. Out(a) <=> q # NoAlter /\ q.at \in {"done", "lost"}
  BY <1>2, <1>3, NoPaneRequestAssumption DEF Out
<1> QED BY <1>0, <1>2, <1>3, <1>4, OneGoesOn DEF PanesTypeOK

LEMMA AlterRefusedKeeps == ASSUME PanesInv, NEW a \in 1 .. MaxAlters, AlterRefused(a) PROVE PanesInv'
<1>0. PanesTypeOK
  BY DEF PanesInv
<1>1. PICK q : q = NoAlter
  OBVIOUS
<1>2. /\ alters[a] # NoAlter /\ alters[a].at = "refused" /\ alters' = [alters EXCEPT ![a] = q]
      /\ failing' \in BOOLEAN
      /\ UNCHANGED <<pane, shelf, list, picked, cached, loading, loads, openings, alterings, slips, doubt>>
  BY <1>0, <1>1 DEF AlterRefused, AlterOver, PanesTypeOK, PaneAlter
<1>3. Out(a) <=> q # NoAlter /\ q.at \in {"done", "lost"}
  BY <1>1, <1>2 DEF Out
<1> QED BY <1>0, <1>1, <1>2, <1>3, OneGoesOn DEF PanesTypeOK

\* What the backend lists once it has carried out a change that no other has crossed.
LEMMA CommittedIs ==
  ASSUME NEW kind \in Kinds, NEW v \in None .. Deleted, kind = "edit" => Listed(v) # None
  PROVE  Committed(kind, v) \in None .. Deleted /\ Listed(Committed(kind, v)) = Outcome(kind)
<1>1. CASE kind = "add"
  BY <1>1 DEF Committed, Listed, Outcome, None, Created, Edited, Deleted
<1>2. CASE kind = "drop"
  BY <1>2 DEF Committed, Listed, Outcome, None, Created, Edited, Deleted
<1>3. CASE kind = "edit"
  BY <1>3 DEF Committed, Listed, Outcome, None, Created, Edited, Deleted
<1> QED BY <1>1, <1>2, <1>3 DEF Kinds

LEMMA CommitAlterKeeps == ASSUME PanesInv, NEW a \in 1 .. MaxAlters, CommitAlter(a) PROVE PanesInv'
<1>0. PanesTypeOK /\ Sane(pane.script) /\ AlterInv /\ LoadsOK /\ ListInv /\ OpenInv
  BY DEF PanesInv
<1>1. PICK r, kind, overdue, v, next :
        /\ r = alters[a].row /\ kind = alters[a].kind /\ v = shelf[r] /\ next = Committed(kind, v)
        /\ overdue = {l \in 1 .. MaxLoads : loads[l] # NoLoad /\ loads[l].at = "answered"}
  OBVIOUS
<1>2. PICK q : q = [alters[a] EXCEPT !.at = "done", !.missedBy = overdue]
  OBVIOUS
<1>3. /\ alters[a] \in PaneAlter /\ alters[a] # NoAlter /\ alters[a].at = "sent"
      /\ kind = "add" \/ Listed(v) # None
      /\ shelf' = [shelf EXCEPT ![r] = next]
      /\ alters' = [alters EXCEPT ![a] = q]
      /\ UNCHANGED <<pane, list, picked, cached, loading, failing, loads, openings, alterings, slips, doubt>>
  BY <1>0, <1>1, <1>2 DEF CommitAlter, Found, PanesTypeOK
<1>4. /\ q \in PaneAlter /\ q # NoAlter /\ q.kind = kind /\ q.row = r /\ q.mixed = alters[a].mixed
      /\ q.heard = alters[a].heard /\ q.missedBy = overdue /\ q.at = "done" /\ r \in PaneRows /\ kind \in Kinds
  <2>1. overdue \in SUBSET (1 .. MaxLoads)
    BY <1>1
  <2> QED BY <1>1, <1>2, <1>3, <2>1, NoPaneRequestAssumption DEF PaneAlter
<1>5. next \in None .. Deleted /\ Listed(next) = Outcome(kind)
  BY <1>0, <1>1, <1>3, <1>4, CommittedIs DEF PanesTypeOK
<1>6. /\ alters' \in PaneAlters /\ alters'[a] = q
      /\ \A b \in 1 .. MaxAlters : b # a => alters'[b] = alters[b]
      /\ shelf'[r] = next /\ \A s \in PaneRows : s # r => shelf'[s] = shelf[s]
      /\ shelf' \in [PaneRows -> None .. Deleted]
  BY <1>0, <1>3, <1>4, <1>5 DEF PanesTypeOK, PaneAlters
<1>7. ~Out(a) /\ OutOn(a, r)' /\ \A b \in 1 .. MaxAlters : b # a => (Out(b)' <=> Out(b))
  BY <1>3, <1>4, <1>6 DEF Out, OutOn
<1>8. PanesTypeOK'
  BY <1>0, <1>3, <1>6 DEF PanesTypeOK, PaneAlters
<1>9. /\ Listed(shelf[r])' = Outcome(kind)
      /\ \A s \in PaneRows : s # r => Listed(shelf[s])' = Listed(shelf[s])
      /\ \A x : Outcome(x)' = Outcome(x)
  BY <1>3, <1>5, <1>6 DEF Listed, Outcome
<1>10. AlterInv'
  <2> SUFFICES ASSUME NEW b \in 1 .. MaxAlters, alters'[b] # NoAlter, ~alters'[b].mixed
               PROVE  /\ \A c \in 1 .. MaxAlters : alters'[c] # NoAlter /\ alters'[c].row = alters'[b].row => c = b
                      /\ Out(b)' => (Listed(shelf[alters[b].row]) = Outcome(alters[b].kind))'
    BY DEF AlterInv
  <2>1. alters[b] # NoAlter /\ ~alters[b].mixed /\ alters'[b].row = alters[b].row /\ alters'[b].kind = alters[b].kind
    BY <1>1, <1>3, <1>4, <1>6
  <2>2. \A c \in 1 .. MaxAlters : alters[c] # NoAlter /\ alters[c].row = alters[b].row => c = b
    BY <1>0, <2>1 DEF AlterInv
  <2>3. \A c \in 1 .. MaxAlters : alters'[c] # NoAlter /\ alters'[c].row = alters'[b].row => c = b
    BY <1>1, <1>3, <1>4, <1>6, <2>1, <2>2
  <2>4. CASE b = a
    BY <1>4, <1>6, <1>9, <2>3, <2>4
  <2>5. CASE b # a
    <3>1. alters[b].row # r /\ alters[b].row \in PaneRows
      BY <1>0, <1>1, <1>3, <2>1, <2>2, <2>5 DEF PanesTypeOK, PaneAlter
    <3>2. Out(b) => Listed(shelf[alters[b].row]) = Outcome(alters[b].kind)
      BY <1>0, <2>1 DEF AlterInv
    <3>3. PICK s, x : s = alters[b].row /\ x = alters[b].kind
      OBVIOUS
    <3>4. Out(b)' => (Listed(shelf[s]) = Outcome(x))'
      BY <1>7, <1>9, <2>5, <3>1, <3>2, <3>3
    <3> QED BY <2>1, <2>3, <3>3, <3>4
  <2> QED BY <2>4, <2>5
<1>11. ASSUME NEW s \in PaneRows, NEW w, WasThere(s, w), s = r => w = Listed(v) \/ \E c \in 1 .. MaxAlters : OutOn(c, s)
       PROVE  WasThere(s, w)'
  <2> SUFFICES ASSUME NEW b \in 1 .. MaxAlters, OutOn(b, s)', alters'[b].kind = "edit", ~alters'[b].mixed
               PROVE  w # None
    BY DEF WasThere
  <2>1. CASE b = a
    <3>1. s = r /\ kind = "edit" /\ ~alters[a].mixed
      BY <1>4, <1>6, <2>1 DEF OutOn
    <3>2. \A c \in 1 .. MaxAlters : ~OutOn(c, s)
      BY <1>0, <1>1, <1>3, <1>7, <3>1 DEF AlterInv, OutOn, Out
    <3> QED BY <1>3, <1>11, <3>1, <3>2
  <2>2. CASE b # a
    BY <1>6, <1>7, <1>11, <2>2 DEF WasThere, OutOn
  <2> QED BY <2>1, <2>2
<1>12. ASSUME NEW s \in PaneRows, NEW w, InList(s, w) PROVE InList(s, w)'
  <2>1. WasThere(s, w)'
    BY <1>1, <1>11, <1>12 DEF InList
  <2>2. CASE s = r
    BY <1>7, <2>1, <2>2 DEF InList
  <2>3. CASE s # r
    BY <1>6, <1>7, <1>9, <1>12, <2>1, <2>3 DEF InList, OutOn
  <2> QED BY <2>2, <2>3
<1>13. ASSUME NEW s \in PaneRows, NEW w, NEW l \in overdue, InLoad(l, s, w) PROVE InLoad(l, s, w)'
  <2>1. WasThere(s, w)'
    BY <1>1, <1>11, <1>13 DEF InLoad
  <2>2. CASE s = r
    BY <1>4, <1>6, <1>7, <2>1, <2>2 DEF InLoad
  <2>3. CASE s # r
    BY <1>6, <1>7, <1>9, <1>13, <2>1, <2>3 DEF InLoad, OutOn
  <2> QED BY <2>2, <2>3
<1>14. LoadsOK'
  <2> SUFFICES ASSUME NEW l \in 1 .. MaxLoads, loads[l] # NoLoad, loads[l].at = "answered",
                      ~loads[l].overtaken, NEW i \in PaneItems
               PROVE  InLoad(l, <<loads[l].of, i>>, loads[l].rows[i])'
    BY <1>3 DEF LoadsOK, LoadOK
  <2>1. PICK s, w : s = <<loads[l].of, i>> /\ w = loads[l].rows[i]
    OBVIOUS
  <2>2. s \in PaneRows /\ InLoad(l, s, w) /\ l \in overdue
    BY <1>0, <1>1, <2>1 DEF PanesTypeOK, PaneLoad, PaneRows, LoadsOK, LoadOK
  <2>3. InLoad(l, s, w)'
    BY <1>13, <2>2
  <2> QED BY <1>3, <2>1, <2>3
<1>15. ListInv'
  <2> SUFFICES ASSUME NEW k \in PaneKeys, Owed(k)' PROVE Holds(k)'
    BY DEF ListInv
  <2>1. Owed(k)
    BY <1>3 DEF Owed, LoadFor, KeepsEach
  <2>2. Holds(k)
    BY <1>0, <2>1 DEF ListInv
  <2>3. ASSUME NEW i \in PaneItems PROVE InList(<<k, i>>, list[<<k, i>>])'
    <3>1. PICK s, w : s = <<k, i>> /\ w = list[<<k, i>>]
      OBVIOUS
    <3>2. s \in PaneRows /\ InList(s, w)
      BY <2>2, <3>1 DEF Holds, PaneRows
    <3>3. InList(s, w)'
      BY <1>12, <3>2
    <3> QED BY <1>3, <3>1, <3>3
  <2> QED BY <1>3, <2>2, <2>3 DEF Holds, KeepsEach
<1>16. OpenInv'
  <2>1. \A b \in 1 .. MaxAlters : alters'[b] # NoAlter => alters[b] # NoAlter /\ alters'[b].heard = alters[b].heard
    BY <1>3, <1>4, <1>6
  <2> QED BY <1>0, <1>3, <2>1 DEF OpenInv, LoadFor, KeepsEach
<1> QED BY <1>0, <1>3, <1>8, <1>10, <1>14, <1>15, <1>16 DEF PanesInv

\* A change ends for the page, what the page does about it apart: the other changes stay, and
\* so does what the loads have that the change has not overtaken.
LEMMA AlterOverIs ==
  ASSUME PanesInv, NEW a \in 1 .. MaxAlters, Out(a), AlterOver(a), UNCHANGED <<pane, shelf>>,
         NEW L \in SUBSET (1 .. MaxLoads), \A l \in L : loads'[l] = Overtaken(a)[l]
  PROVE  /\ alters' \in PaneAlters /\ AlterInv'
         /\ \A b \in 1 .. MaxAlters : alters'[b] # NoAlter => alters[b] # NoAlter /\ alters'[b].heard = alters[b].heard
         /\ \A s \in PaneRows : \A w : WasThere(s, w) => WasThere(s, w)'
         /\ \A s \in PaneRows : \A w : s # alters[a].row /\ InList(s, w) => InList(s, w)'
         /\ \A l \in L : LoadOK(l)'
<1>0. PanesTypeOK /\ AlterInv /\ LoadsOK
  BY DEF PanesInv
<1>1. /\ alters' \in PaneAlters /\ alters'[a] = NoAlter
      /\ \A b \in 1 .. MaxAlters : b # a => alters'[b] = alters[b]
  BY <1>0 DEF AlterOver, PanesTypeOK, PaneAlters
<1>2. ~Out(a)' /\ \A b \in 1 .. MaxAlters : b # a => (Out(b)' <=> Out(b))
  BY <1>1 DEF Out
<1>3. \A b \in 1 .. MaxAlters : alters'[b] # NoAlter => alters[b] # NoAlter /\ alters'[b].heard = alters[b].heard
  BY <1>1
<1>4. AlterInv'
  BY <1>0, <1>1, <1>2, AltersStay
<1>5. \A s \in PaneRows : \A w : WasThere(s, w) => WasThere(s, w)'
  BY <1>1, <1>2 DEF WasThere, OutOn
<1>6. \A s \in PaneRows : Listed(shelf[s])' = Listed(shelf[s])
  BY DEF Listed
<1>7. ASSUME NEW s \in PaneRows, NEW w, s # alters[a].row, InList(s, w) PROVE InList(s, w)'
  <2>1. \A b \in 1 .. MaxAlters : OutOn(b, s) => OutOn(b, s)'
    BY <1>1, <1>2, <1>7 DEF OutOn
  <2> QED BY <1>5, <1>6, <1>7, <2>1 DEF InList
<1>8. ASSUME NEW l \in L PROVE LoadOK(l)'
  <2> SUFFICES ASSUME loads'[l] # NoLoad, loads'[l].at = "answered", ~loads'[l].overtaken, NEW i \in PaneItems
               PROVE  InLoad(l, <<loads[l].of, i>>, loads[l].rows[i])'
    BY DEF LoadOK
  <2>1. PICK overdue : overdue = Overtaken(a)
    OBVIOUS
  <2>2. loads'[l] = overdue[l]
    BY <2>1
  <2>3. /\ loads[l] # NoLoad /\ loads'[l] = loads[l] /\ l \notin alters[a].missedBy
    BY <1>0, <2>1, <2>2, OvertakenIs
  <2>4. PICK s, w : s = <<loads[l].of, i>> /\ w = loads[l].rows[i]
    OBVIOUS
  <2>5. s \in PaneRows
    BY <1>0, <2>3, <2>4 DEF PanesTypeOK, PaneLoad, PaneRows
  <2>6. InLoad(l, s, w)
    BY <1>0, <2>3, <2>4 DEF LoadsOK, LoadOK
  <2>7. \A b \in 1 .. MaxAlters : OutOn(b, s) /\ l \in alters[b].missedBy => OutOn(b, s)' /\ l \in alters'[b].missedBy
    BY <1>1, <1>2, <2>3 DEF OutOn
  <2>8. InLoad(l, s, w)'
    BY <1>5, <1>6, <2>5, <2>6, <2>7 DEF InLoad
  <2> QED BY <2>3, <2>4, <2>8
<1> QED BY <1>1, <1>3, <1>4, <1>5, <1>7, <1>8

\* What the overtaken loads are for stays the same.
LEMMA OvertakenFor ==
  ASSUME PanesTypeOK, NEW a \in 1 .. MaxAlters, loads' = Overtaken(a)
  PROVE  /\ loads' \in PaneLoads
         /\ \A l \in 1 .. MaxLoads : loads'[l] = NoLoad <=> loads[l] = NoLoad
         /\ \A k \in PaneKeys : LoadFor(k)' <=> LoadFor(k)
<1>1. PICK overdue : overdue = Overtaken(a)
  OBVIOUS
<1>2. /\ overdue \in PaneLoads
      /\ \A l \in 1 .. MaxLoads : (overdue[l] = NoLoad <=> loads[l] = NoLoad) /\ (loads[l] # NoLoad => overdue[l].of = loads[l].of)
  BY <1>1, OvertakenIs
<1>3. loads' = overdue
  BY <1>1
<1> QED BY <1>2, <1>3 DEF LoadFor

LEMMA PatchedIs ==
  ASSUME PanesTypeOK, NEW kind \in Kinds, NEW r \in PaneRows, NEW next, next = Patched(kind, r)
  PROVE  /\ next \in [PaneRows -> None .. Edited]
         /\ next[r] = IF kind = "add" THEN Created
                      ELSE IF kind = "drop" \/ list[r] = None THEN None ELSE Edited
         /\ \A s \in PaneRows : s # r => next[s] = list[s]
<1>1. PICK v : v = IF kind = "add" THEN Created ELSE IF kind = "drop" \/ list[r] = None THEN None ELSE Edited
  OBVIOUS
<1>2. next = [list EXCEPT ![r] = v]
  BY <1>1 DEF Patched
<1>3. v \in None .. Edited
  BY <1>1 DEF None, Created, Edited
<1> QED BY <1>1, <1>2, <1>3 DEF PanesTypeOK

LEMMA PatchListKeeps == ASSUME PanesInv, NEW a \in 1 .. MaxAlters, PatchList(a) PROVE PanesInv'
<1>0. PanesTypeOK /\ Sane(pane.script) /\ AlterInv /\ ListInv /\ OpenInv
  BY DEF PanesInv
<1>1. PICK r, kind : r = alters[a].row /\ kind = alters[a].kind
  OBVIOUS
<1>2. /\ alters[a] \in PaneAlter /\ alters[a] # NoAlter /\ alters[a].heard /\ Out(a)
      /\ r \in PaneRows /\ kind \in Kinds /\ r[1] \in PaneKeys
      /\ list' = Patched(kind, r) /\ loads' = Overtaken(a) /\ AlterOver(a)
      /\ UNCHANGED <<pane, shelf, picked, cached, loading, failing, openings, alterings, slips>>
  BY <1>0, <1>1 DEF PatchList, PanesTypeOK, PaneAlter, PaneRows, Out
<1>3. /\ Handling(kind) \in {"patches", "marks"}
      /\ doubt' = doubt \cup (IF alters[a].mixed \/ Handling(kind) = "marks" THEN {r[1]} ELSE {})
                        \cup (IF kind = "add" /\ ~KeepsEach THEN {picked} \ {r[1], NoPaneKey} ELSE {})
  BY <1>1 DEF PatchList
<1>4. /\ list' \in [PaneRows -> None .. Edited]
      /\ list'[r] = IF kind = "add" THEN Created
                    ELSE IF kind = "drop" \/ list[r] = None THEN None ELSE Edited
      /\ \A s \in PaneRows : s # r => list'[s] = list[s]
  <2>1. PICK next : next = list'
    OBVIOUS
  <2> QED BY <1>0, <1>2, <2>1, PatchedIs
<1>5. /\ loads' \in PaneLoads /\ \A l \in 1 .. MaxLoads : loads'[l] = NoLoad <=> loads[l] = NoLoad
      /\ \A k \in PaneKeys : LoadFor(k)' <=> LoadFor(k)
  BY <1>0, <1>2, OvertakenFor
<1>6. PICK L : L = 1 .. MaxLoads
  OBVIOUS
<1>7. /\ alters' \in PaneAlters /\ AlterInv'
      /\ \A b \in 1 .. MaxAlters : alters'[b] # NoAlter => alters[b] # NoAlter /\ alters'[b].heard = alters[b].heard
      /\ \A s \in PaneRows : \A w : WasThere(s, w) => WasThere(s, w)'
      /\ \A s \in PaneRows : \A w : s # r /\ InList(s, w) => InList(s, w)'
      /\ \A l \in L : LoadOK(l)'
  BY <1>1, <1>2, <1>6, AlterOverIs
<1>8. doubt' \subseteq PaneKeys /\ doubt \subseteq doubt'
  BY <1>0, <1>2, <1>3 DEF PanesTypeOK
<1>9. PanesTypeOK'
  BY <1>0, <1>2, <1>4, <1>5, <1>7, <1>8 DEF PanesTypeOK, PaneLoads, PaneAlters
<1>10. LoadsOK'
  BY <1>6, <1>7 DEF LoadsOK
<1>11. ListInv'
  <2> SUFFICES ASSUME NEW k \in PaneKeys, Owed(k)' PROVE Holds(k)'
    BY DEF ListInv
  <2>0. KeepsEach' = KeepsEach
    BY <1>2 DEF KeepsEach
  <2>1. Owed(k) /\ k \notin doubt'
    BY <1>2, <1>5, <1>8, <2>0 DEF Owed
  <2>2. Holds(k)
    BY <1>0, <2>1 DEF ListInv
  <2>3. ASSUME r[1] = k PROVE InList(r, list[r])'
    <3>1. ~alters[a].mixed /\ Handling(kind) = "patches"
      BY <1>3, <2>1, <2>3
    <3>2. Listed(shelf[r]) = Outcome(kind)
      BY <1>0, <1>1, <1>2, <3>1 DEF AlterInv
    <3>3. list[r] # None \/ kind # "edit"
      <4>1. PICK i \in PaneItems : r = <<k, i>>
        BY <1>2, <2>3 DEF PaneRows
      <4>2. InList(r, list[r])
        BY <2>2, <4>1 DEF Holds
      <4> QED BY <1>1, <1>2, <3>1, <4>2 DEF InList, WasThere, OutOn
    <3>4. kind = "drop" => pane.script.drops = "patches"
      BY <3>1 DEF Handling
    <3>5. list'[r] = Outcome(kind)
      BY <1>2, <1>4, <3>3, <3>4 DEF Outcome, Kinds
    <3>6. PICK w : w = list'[r]
      OBVIOUS
    <3>7. w = Listed(shelf[r]) /\ (w = Listed(shelf[r]))'
      BY <1>2, <3>2, <3>5, <3>6 DEF Listed
    <3>8. WasThere(r, w)
      BY <1>0, <1>2, <3>7, EditsAreThere
    <3>9. WasThere(r, w)'
      BY <1>2, <1>7, <3>8
    <3> QED BY <3>6, <3>7, <3>9 DEF InList
  <2>4. ASSUME NEW i \in PaneItems PROVE InList(<<k, i>>, list[<<k, i>>])'
    <3>1. PICK s, w : s = <<k, i>> /\ w = list[<<k, i>>]
      OBVIOUS
    <3>2. s \in PaneRows /\ InList(s, w) /\ s[1] = k
      BY <2>2, <3>1 DEF Holds, PaneRows
    <3>3. CASE s = r
      BY <2>3, <3>1, <3>2, <3>3
    <3>4. CASE s # r
      <4>1. InList(s, w)' /\ list'[s] = w
        BY <1>4, <1>7, <3>1, <3>2, <3>4
      <4> QED BY <3>1, <4>1
    <3> QED BY <3>3, <3>4
  <2>5. ASSUME ~KeepsEach, NEW s \in PaneRows, s[1] # k PROVE list'[s] = None
    <3>1. list[s] = None
      BY <2>2, <2>5 DEF Holds
    <3>2. k = picked /\ k # NoPaneKey
      BY <2>1, <2>5, PanesAssumption DEF Owed
    <3>3. s = r => kind # "add"
      BY <1>3, <2>1, <2>5, <3>2
    <3> QED BY <1>4, <3>1, <3>3
  <2> QED BY <2>0, <2>4, <2>5 DEF Holds
<1>12. OpenInv'
  <2>1. ~pane.script.keyed => picked = FirstKey
    BY <1>0, <1>2 DEF OpenInv
  <2>2. FirstKey # NoPaneKey /\ picked \in PaneKeys \cup {NoPaneKey}
    BY <1>0, PanesAssumption DEF PanesTypeOK
  <2>3. KeepsEach /\ picked # NoPaneKey => (picked \in cached \/ LoadFor(picked))'
    <3>1. PICK k : k = picked
      OBVIOUS
    <3>2. LoadFor(k) /\ k # NoPaneKey => LoadFor(k)'
      BY <1>5, <2>2, <3>1
    <3> QED BY <1>0, <1>2, <3>1, <3>2 DEF OpenInv
  <2> QED BY <1>2, <2>1, <2>2, <2>3 DEF OpenInv, KeepsEach
<1> QED BY <1>0, <1>2, <1>7, <1>9, <1>10, <1>11, <1>12 DEF PanesInv

\* Where the page does not put the change into its list, it holds the rows of the other keys.
LEMMA OthersHeld ==
  ASSUME PanesInv, NEW a \in 1 .. MaxAlters, Out(a), AlterOver(a), UNCHANGED <<pane, shelf>>,
         NEW k \in PaneKeys, Owed(k), k # alters[a].row[1], list' = list
  PROVE  Holds(k)'
<1>0. Holds(k)
  BY DEF PanesInv, ListInv
<1>1. PICK r, L : r = alters[a].row /\ L = {}
  OBVIOUS
<1>2. L \in SUBSET (1 .. MaxLoads) /\ \A l \in L : loads'[l] = Overtaken(a)[l]
  BY <1>1
<1>3. \A s \in PaneRows : \A w : s # r /\ InList(s, w) => InList(s, w)'
  BY <1>1, <1>2, AlterOverIs
<1>4. ASSUME NEW i \in PaneItems PROVE InList(<<k, i>>, list[<<k, i>>])'
  <2>1. PICK s, w : s = <<k, i>> /\ w = list[<<k, i>>]
    OBVIOUS
  <2>2. s \in PaneRows /\ InList(s, w) /\ s # r
    BY <1>0, <1>1, <2>1 DEF Holds, PaneRows
  <2>3. InList(s, w)'
    BY <1>3, <2>2
  <2> QED BY <2>1, <2>3
<1> QED BY <1>0, <1>4 DEF Holds, KeepsEach

LEMMA ReloadListKeeps == ASSUME PanesInv, NEW a \in 1 .. MaxAlters, ReloadList(a) PROVE PanesInv'
<1>0. PanesTypeOK /\ Sane(pane.script) /\ ListInv /\ OpenInv
  BY DEF PanesInv
<1>1. PICK after, current, r :
        /\ after = IF Handling(alters[a].kind) = "later" THEN NoAlter ELSE <<alters[a].kind, alters[a].row>>
        /\ current = Overtaken(a) /\ r = alters[a].row
  OBVIOUS
<1>2. /\ alters[a] \in PaneAlter /\ alters[a] # NoAlter /\ Out(a) /\ picked \in PaneKeys
      /\ r \in PaneRows /\ r[1] \in PaneKeys
      /\ StartLoad(picked, after, current) /\ AlterOver(a) /\ doubt' = doubt \cup {r[1]}
      /\ UNCHANGED <<pane, shelf, picked, cached, openings, alterings, slips>>
  BY <1>0, <1>1 DEF ReloadList, PanesTypeOK, PaneAlter, PaneRows, Out
<1>3. after \in (Kinds \X PaneRows) \cup {NoAlter}
  BY <1>1, <1>2 DEF PaneAlter
<1>4. /\ current \in PaneLoads
      /\ \A l \in 1 .. MaxLoads : (current[l] = NoLoad <=> loads[l] = NoLoad)
                                  /\ (loads[l] # NoLoad => current[l].of = loads[l].of)
  BY <1>0, <1>1, OvertakenIs
<1>5. PICK p : p = picked
  OBVIOUS
<1>6. Began(p, current)
  BY <1>0, <1>2, <1>3, <1>4, <1>5, StartIs
<1>7. PICK l \in 1 .. MaxLoads :
        /\ loads[l] = NoLoad /\ loads'[l] # NoLoad /\ loads'[l].of = p /\ loads'[l].at = "asked"
        /\ \A m \in 1 .. MaxLoads : m # l => loads'[m] = current[m]
  BY <1>6 DEF Began
<1>8. /\ loads' \in PaneLoads /\ loading' \subseteq PaneKeys /\ failing' = FALSE
      /\ list' = list \/ (pane.script.before = "clears" /\ list' = NoRows)
  BY <1>6 DEF Began
<1>9. PICK L : L = (1 .. MaxLoads) \ {l}
  OBVIOUS
<1>10. /\ alters' \in PaneAlters /\ AlterInv' /\ \A m \in L : LoadOK(m)'
  BY <1>1, <1>2, <1>7, <1>9, AlterOverIs
<1>11. PanesTypeOK'
  <2>1. NoRows \in [PaneRows -> None .. Edited]
    BY DEF NoRows, None, Edited
  <2> QED BY <1>0, <1>2, <1>8, <1>10, <2>1 DEF PanesTypeOK, PaneLoads, PaneAlters
<1>12. LoadsOK'
  <2>1. LoadOK(l)'
    BY <1>7 DEF LoadOK
  <2> QED BY <1>9, <1>10, <2>1 DEF LoadsOK
<1>13. LoadFor(p)' /\ \A k \in PaneKeys : LoadFor(k) => LoadFor(k)'
  BY <1>4, <1>7 DEF LoadFor
<1>14. ListInv'
  <2> SUFFICES ASSUME NEW k \in PaneKeys, Owed(k)' PROVE Holds(k)'
    BY DEF ListInv
  <2>0. KeepsEach' = KeepsEach
    BY <1>2 DEF KeepsEach
  <2>1. k # p /\ k # r[1] /\ KeepsEach
    BY <1>2, <1>5, <1>13, <2>0 DEF Owed
  <2>2. Owed(k)
    BY <1>2, <1>13, <2>0 DEF Owed
  <2>3. list' = list
    BY <1>0, <1>8, <2>1 DEF Sane, KeepsEach
  <2> QED BY <1>1, <1>2, <2>1, <2>2, <2>3, OthersHeld
<1>15. OpenInv'
  BY <1>0, <1>2, <1>5, <1>13, PanesAssumption DEF OpenInv, KeepsEach
<1> QED BY <1>0, <1>2, <1>10, <1>11, <1>12, <1>14, <1>15 DEF PanesInv

LEMMA AlterUntoldKeeps == ASSUME PanesInv, NEW a \in 1 .. MaxAlters, AlterUntold(a) PROVE PanesInv'
<1>0. PanesTypeOK /\ Sane(pane.script) /\ ListInv /\ OpenInv
  BY DEF PanesInv
<1>1. PICK r : r = alters[a].row
  OBVIOUS
<1>2. /\ alters[a] \in PaneAlter /\ Out(a) /\ r[1] \in PaneKeys
      /\ loads' = Overtaken(a) /\ AlterOver(a) /\ doubt' = doubt \cup {r[1]} /\ failing' \in BOOLEAN
      /\ UNCHANGED <<pane, shelf, list, picked, cached, loading, openings, alterings, slips>>
  BY <1>0, <1>1 DEF AlterUntold, PanesTypeOK, PaneAlter, PaneRows, Out
<1>3. PICK L : L = 1 .. MaxLoads
  OBVIOUS
<1>4. /\ loads' \in PaneLoads /\ \A l \in 1 .. MaxLoads : loads'[l] = NoLoad <=> loads[l] = NoLoad
      /\ \A k \in PaneKeys : LoadFor(k)' <=> LoadFor(k)
  BY <1>0, <1>2, OvertakenFor
<1>5. /\ alters' \in PaneAlters /\ AlterInv' /\ \A l \in L : LoadOK(l)'
      /\ \A b \in 1 .. MaxAlters : alters'[b] # NoAlter => alters[b] # NoAlter /\ alters'[b].heard = alters[b].heard
  BY <1>2, <1>3, AlterOverIs
<1>6. PanesTypeOK'
  BY <1>0, <1>2, <1>4, <1>5 DEF PanesTypeOK, PaneLoads, PaneAlters
<1>7. LoadsOK'
  BY <1>3, <1>5 DEF LoadsOK
<1>8. ListInv'
  <2> SUFFICES ASSUME NEW k \in PaneKeys, Owed(k)' PROVE Holds(k)'
    BY DEF ListInv
  <2>1. Owed(k) /\ k # r[1]
    BY <1>2, <1>4 DEF Owed, KeepsEach
  <2> QED BY <1>1, <1>2, <2>1, OthersHeld
<1>9. OpenInv'
  <2>1. picked \in PaneKeys \cup {NoPaneKey}
    BY <1>0 DEF PanesTypeOK
  <2>2. KeepsEach /\ picked # NoPaneKey => (picked \in cached \/ LoadFor(picked))'
    <3>1. PICK k : k = picked
      OBVIOUS
    <3>2. LoadFor(k) /\ k # NoPaneKey => LoadFor(k)'
      BY <1>4, <2>1, <3>1
    <3> QED BY <1>0, <1>2, <3>1, <3>2 DEF OpenInv
  <2> QED BY <1>0, <1>2, <1>4, <1>5, <2>2 DEF OpenInv, KeepsEach
<1> QED BY <1>0, <1>2, <1>5, <1>6, <1>7, <1>8, <1>9 DEF PanesInv

-----------------------------------------------------------------------------

\* A page that is mounted owes nothing but what it is loading.
LEMMA MountedHolds ==
  ASSUME PanesTypeOK', Sane(pane.script)', AlterInv', NEW f, f = Fresh(pane.script)',
         picked' = f.picked, loads' = f.loads, cached' = {}, list' = NoRows,
         \A a \in 1 .. MaxAlters : alters'[a] # NoAlter => ~alters'[a].heard
  PROVE  PanesInv'
<1>1. pane'.script \in Scripts
  BY DEF Sane
<1>2. PICK s : s = pane'.script
  OBVIOUS
<1>3. f = Fresh(s)
  BY <1>2 DEF Fresh, Request
<1>4. /\ \A l \in 1 .. MaxLoads : f.loads[l] # NoLoad => f.loads[l].at = "asked"
      /\ \/ f.picked = FirstKey /\ \E l \in 1 .. MaxLoads : f.loads[l] # NoLoad /\ f.loads[l].of = FirstKey
         \/ f.picked = NoPaneKey /\ \A l \in 1 .. MaxLoads : f.loads[l] = NoLoad
  BY <1>1, <1>2, <1>3, FreshIs
<1>5. LoadsOK'
  BY <1>4 DEF LoadsOK, LoadOK
<1>6. ListInv'
  BY <1>4, PanesAssumption DEF ListInv, Owed, LoadFor
<1>7. OpenInv'
  BY <1>4, PanesAssumption DEF OpenInv, LoadFor, NoRows
<1> QED BY <1>5, <1>6, <1>7 DEF PanesInv

LEMMA RemountPaneKeeps == ASSUME PanesInv, RemountPane PROVE PanesInv'
<1>0. PanesTypeOK /\ Sane(pane.script) /\ AlterInv
  BY DEF PanesInv
<1>1. PICK f : f = Fresh(pane.script)
  OBVIOUS
<1>2. /\ picked' = f.picked /\ loading' = f.loading /\ loads' = f.loads /\ list' = NoRows
      /\ cached' = {} /\ failing' = FALSE /\ doubt' = {} /\ slips' \in 0 .. MaxSlips
      /\ UNCHANGED <<pane, shelf, openings, alterings>>
  BY <1>0, <1>1, PanesAssumption DEF RemountPane, Slips, PanesTypeOK
<1>3. /\ f.loads \in PaneLoads /\ f.loading \subseteq PaneKeys /\ f.picked \in {FirstKey, NoPaneKey}
  <2>1. PICK s : s = pane.script
    OBVIOUS
  <2> QED BY <1>0, <1>1, <2>1, FreshIs DEF Sane
<1>4. ASSUME NEW q \in PaneAlter
      PROVE  /\ [q EXCEPT !.heard = FALSE] \in PaneAlter /\ [q EXCEPT !.heard = FALSE] # NoAlter
             /\ [q EXCEPT !.heard = FALSE].kind = q.kind /\ [q EXCEPT !.heard = FALSE].row = q.row
             /\ [q EXCEPT !.heard = FALSE].at = q.at /\ [q EXCEPT !.heard = FALSE].mixed = q.mixed
             /\ ~[q EXCEPT !.heard = FALSE].heard
  <2>1. PICK z : z = [q EXCEPT !.heard = FALSE]
    OBVIOUS
  <2>2. z \in PaneAlter /\ z.kind = q.kind /\ z.row = q.row /\ z.at = q.at /\ z.mixed = q.mixed /\ ~z.heard
    BY <2>1 DEF PaneAlter
  <2> QED BY <2>1, <2>2, NoPaneRequestAssumption
<1>5. ASSUME NEW a \in 1 .. MaxAlters
      PROVE  /\ alters'[a] \in PaneAlter \cup {NoAlter}
             /\ alters'[a] # NoAlter =>
                  /\ alters[a] # NoAlter /\ alters'[a].kind = alters[a].kind /\ alters'[a].row = alters[a].row
                  /\ alters'[a].mixed = alters[a].mixed /\ ~alters'[a].heard /\ alters'[a].at = "sent"
  <2>1. alters[a] \in PaneAlter \cup {NoAlter}
    BY <1>0 DEF PanesTypeOK
  <2>2. CASE alters[a] = NoAlter \/ alters[a].at # "sent"
    <3>1. alters'[a] = NoAlter
      BY <2>2 DEF RemountPane
    <3> QED BY <3>1
  <2>3. CASE ~(alters[a] = NoAlter \/ alters[a].at # "sent")
    <3>1. alters'[a] = [alters[a] EXCEPT !.heard = FALSE]
      BY <2>3 DEF RemountPane
    <3> QED BY <1>4, <2>1, <2>3, <3>1
  <2> QED BY <2>2, <2>3
<1>6. alters' \in PaneAlters
  <2>1. alters' = [a \in 1 .. MaxAlters |-> alters'[a]]
    BY DEF RemountPane
  <2> QED BY <1>5, <2>1 DEF PaneAlters
<1>7. AlterInv'
  BY <1>0, <1>2, <1>5, AltersStay DEF Out
<1>8. PanesTypeOK'
  <2>1. NoRows \in [PaneRows -> None .. Edited]
    BY DEF NoRows, None, Edited
  <2> QED BY <1>0, <1>2, <1>3, <1>6, <2>1, PanesAssumption DEF PanesTypeOK, PaneLoads, PaneAlters
<1>9. f = Fresh(pane.script)'
  BY <1>1, <1>2 DEF Fresh, Request
<1> QED BY <1>0, <1>2, <1>5, <1>7, <1>8, <1>9, MountedHolds DEF Sane

\* What holds of a page whichever of the scripts it runs, whatever crossed on the way.
LEMMA PanesInductive == PanesSpec => []PanesInv
<1>1. PanesInit => PanesInv
  <2> SUFFICES ASSUME PanesInit PROVE PanesInv
    OBVIOUS
  <2>1. Sane(pane.script) /\ pane.view \in Views
    BY ListsSane DEF PanesInit
  <2>2. pane \in [script : Scripts, view : Views]
    BY <2>1 DEF PanesInit, Lists, List, Sane
  <2>3. PICK f, s : s = pane.script /\ f = Fresh(s)
    OBVIOUS
  <2>4. /\ f.loads \in PaneLoads /\ f.loading \subseteq PaneKeys
        /\ \A l \in 1 .. MaxLoads : f.loads[l] # NoLoad => f.loads[l].at = "asked"
        /\ \/ f.picked = FirstKey /\ \E l \in 1 .. MaxLoads : f.loads[l] # NoLoad /\ f.loads[l].of = FirstKey
           \/ f.picked = NoPaneKey /\ \A l \in 1 .. MaxLoads : f.loads[l] = NoLoad
    BY <2>1, <2>3, FreshIs DEF Sane
  <2>5. /\ picked = f.picked /\ loading = f.loading /\ loads = f.loads /\ list = NoRows /\ cached = {}
        /\ failing = FALSE /\ doubt = {} /\ openings = 0 /\ alterings = 0 /\ slips = 0
        /\ alters = [a \in 1 .. MaxAlters |-> NoAlter]
        /\ shelf = [r \in PaneRows |-> IF r[2] \in StockedItems THEN Created ELSE None]
    BY <2>3 DEF PanesInit
  <2>6. shelf \in [PaneRows -> None .. Deleted] /\ NoRows \in [PaneRows -> None .. Edited]
    BY <2>5 DEF NoRows, None, Created, Edited, Deleted
  <2>7. PanesTypeOK
    <3>1. openings \in 0 .. MaxOpenings /\ alterings \in 0 .. MaxAlterings /\ slips \in 0 .. MaxSlips
      BY <2>5, PanesAssumption
    <3>2. picked \in PaneKeys \cup {NoPaneKey}
      BY <2>4, <2>5, PanesAssumption
    <3>3. alters \in [1 .. MaxAlters -> PaneAlter \cup {NoAlter}]
      BY <2>5
    <3>4. failing \in BOOLEAN /\ cached \subseteq PaneKeys /\ doubt \subseteq PaneKeys
      BY <2>5
    <3> QED BY <2>2, <2>4, <2>5, <2>6, <3>1, <3>2, <3>3, <3>4 DEF PanesTypeOK, PaneLoads
  <2>8. AlterInv
    BY <2>5 DEF AlterInv
  <2>9. LoadsOK
    BY <2>4, <2>5 DEF LoadsOK, LoadOK
  <2>10. ListInv
    BY <2>4, <2>5, PanesAssumption DEF ListInv, Owed, LoadFor
  <2>11. OpenInv
    BY <2>4, <2>5, PanesAssumption DEF OpenInv, LoadFor
  <2> QED BY <2>1, <2>7, <2>8, <2>9, <2>10, <2>11 DEF PanesInv
<1>2. PanesInv /\ [PanesNext]_paneVars => PanesInv'
  <2> SUFFICES ASSUME PanesInv, [PanesNext]_paneVars PROVE PanesInv'
    OBVIOUS
  <2>1. CASE \E k \in PaneKeys : OpenPane(k)
    BY <2>1, OpenPaneKeeps
  <2>2. CASE ClosePane
    BY <2>2, ClosePaneKeeps
  <2>3. CASE RemountPane
    BY <2>3, RemountPaneKeeps
  <2>4. ASSUME NEW l \in 1 .. MaxLoads, AnswerLoad(l) \/ LoadFails(l) \/ ShowLoad(l) \/ ShowError(l)
        PROVE  PanesInv'
    BY <2>4, AnswerLoadKeeps, LoadFailsKeeps, ShowLoadKeeps, ShowErrorKeeps
  <2>5. ASSUME NEW a \in 1 .. MaxAlters, NEW kind \in Kinds, NEW r \in PaneRows, SendAlter(a, kind, r)
        PROVE  PanesInv'
    BY <2>5, SendAlterKeeps
  <2>6. ASSUME NEW a \in 1 .. MaxAlters,
               CommitAlter(a) \/ RefuseAlter(a) \/ LoseAnswer(a) \/ AlterRefused(a)
        PROVE  PanesInv'
    BY <2>6, CommitAlterKeeps, RefuseAlterKeeps, LoseAnswerKeeps, AlterRefusedKeeps
  <2>7. ASSUME NEW a \in 1 .. MaxAlters, PatchList(a) \/ ReloadList(a) \/ AlterUntold(a)
        PROVE  PanesInv'
    BY <2>7, PatchListKeeps, ReloadListKeeps, AlterUntoldKeeps
  <2>8. CASE UNCHANGED paneVars
    <3>1. UNCHANGED paneVars /\ SameOuts
      BY <2>8 DEF paneVars, SameOuts, Out
    <3>2. PanesTypeOK /\ Sane(pane.script) /\ AlterInv /\ LoadsOK /\ ListInv /\ OpenInv
      BY DEF PanesInv
    <3>3. PanesTypeOK' /\ Sane(pane.script)'
      BY <3>1, <3>2 DEF paneVars, PanesTypeOK, Sane
    <3>4. AlterInv' /\ LoadsOK'
      BY <3>1, <3>2, AltersStay, LoadsSame DEF paneVars, SameOuts
    <3>5. ListInv'
      BY <3>1, <3>2, ListStays DEF paneVars, Owed, LoadFor, KeepsEach
    <3>6. OpenInv'
      BY <3>1, <3>2 DEF paneVars, OpenInv, LoadFor, KeepsEach
    <3> QED BY <3>3, <3>4, <3>5, <3>6 DEF PanesInv
  <2> QED BY <2>1, <2>2, <2>3, <2>4, <2>5, <2>6, <2>7, <2>8 DEF PanesNext
<1> QED BY <1>1, <1>2, PTL DEF PanesSpec

\* Whatever page it is and whatever comes: the list, the flags, the loads and the changes of a
\* page stay what its handlers can read, and its answers are for keys that exist.
THEOREM PanesTypeCorrect == PanesSpec => []PanesTypeOK
<1>1. PanesInv => PanesTypeOK
  BY DEF PanesInv
<1> QED BY <1>1, PanesInductive, PTL

\* Once all answers have come, a page shows the rows of the open key as the backend has them
\* and no others, unless it has a reason to be in doubt: whatever pages of Screens it is, and
\* however many loads and changes were under way at the same time.
THEOREM PanesShowRows == PanesSpec => []ShownIsCurrent
<1>1. PanesInv => ShownIsCurrent
  <2> SUFFICES ASSUME PanesInv, Quiet, picked \notin doubt \cup {NoPaneKey}, NEW r \in PaneRows
               PROVE  IF r[1] = picked THEN list[r] = Listed(shelf[r]) ELSE KeepsEach \/ list[r] = None
    BY DEF ShownIsCurrent
  <2>1. PanesTypeOK /\ ListInv /\ OpenInv
    BY DEF PanesInv
  <2>2. PICK k : k = picked
    OBVIOUS
  <2>3. k \in PaneKeys /\ Owed(k)
    BY <2>1, <2>2 DEF PanesTypeOK, OpenInv, Owed, LoadFor, Quiet
  <2>4. Holds(k)
    BY <2>1, <2>3 DEF ListInv
  <2>5. CASE r[1] = k
    <3>1. PICK i \in PaneItems : r = <<k, i>>
      BY <2>5 DEF PaneRows
    <3>2. InList(r, list[r])
      BY <2>4, <3>1 DEF Holds
    <3>3. list[r] = Listed(shelf[r])
      BY <3>2 DEF InList, OutOn, Out, Quiet
    <3> QED BY <2>2, <2>5, <3>3
  <2>6. CASE r[1] # k
    BY <2>2, <2>4, <2>6 DEF Holds
  <2> QED BY <2>5, <2>6
<1> QED BY <1>1, PanesInductive, PTL

-----------------------------------------------------------------------------
(* ColumnManager.  A panel that has seen a column's last change lists it    *)
(* exactly if it is there; so does every list that was sent, loaded or read *)
(* by another handler, for the columns it has not missed.                   *)

Agrees(cols, there, but) == \A k \in Columns \ but : k \in cols <=> k \in there

PanelsAgree ==
  \A p \in Panels :
    /\ Agrees(panel[p].list, columns, {k \in Columns : <<p, k>> \in unseen})
    /\ panel[p].load = "read" => Agrees(panel[p].got, columns, panel[p].missed)

\* What a save that is under way knows; once it has saved, its own column too.
ClickAgrees(c) ==
  /\ c.at = "sent" => Agrees(c.sent, columns, c.risk \cup {c.column})
  /\ c.at = "saved" => Agrees(c.sent, columns, c.risk)
  /\ c.sent \subseteq made /\ c.column \in made
  /\ c.heard => panel[c.of].saving

ClicksAgree ==
  /\ \A e \in 1 .. MaxClicks : click[e] # NoClick => ClickAgrees(click[e]) /\ e <= clicks
  /\ \A e, x \in 1 .. MaxClicks :
       click[e] # NoClick /\ click[x] # NoClick /\ SameVisit(e, x) => e = x

HandlersAgree ==
  \A h \in ProjectCalls :
    held[h] # NoProject => Agrees(held[h].columns, columns, held[h].risk) /\ held[h].columns \subseteq made

ListsMade == \A p \in Panels : panel[p].list \subseteq made /\ panel[p].got \subseteq made

ColumnInv == ColumnsTypeOK /\ PanelsAgree /\ ClicksAgree /\ HandlersAgree /\ ListsMade /\ ColumnsKept

LEMMA ColumnsInitInv == ASSUME ColumnsInit PROVE ColumnInv
<1>1. NewPanel \in Panel
  BY DEF NewPanel, Panel
<1>2. ColumnsTypeOK
  BY <1>1, ColumnAssumption DEF ColumnsInit, ColumnsTypeOK
<1>3. PanelsAgree /\ ListsMade
  BY DEF ColumnsInit, PanelsAgree, ListsMade, Agrees, NewPanel
<1>4. ClicksAgree /\ HandlersAgree /\ ColumnsKept
  BY DEF ColumnsInit, ClicksAgree, HandlersAgree, ColumnsKept
<1> QED BY <1>2, <1>3, <1>4 DEF ColumnInv

\* A panel of which only the fields of a load or the flag change.
LEMMA LoadStep ==
  ASSUME ColumnInv, NEW p \in Panels, NEW next \in Panel,
         panel' = [panel EXCEPT ![p] = next],
         next.list \subseteq made' /\ next.got \subseteq made',
         Agrees(next.list, columns, {k \in Columns : <<p, k>> \in unseen'}),
         next.load = "read" => Agrees(next.got, columns, next.missed),
         \A q \in Panels : q # p => \A k \in Columns : <<q, k>> \in unseen' <=> <<q, k>> \in unseen,
         unseen' \subseteq Panels \X Columns,
         columns' = columns, made \subseteq made'
  PROVE  /\ panel' \in [Panels -> Panel] /\ PanelsAgree' /\ ListsMade'
         /\ panel'[p] = next /\ \A q \in Panels : q # p => panel'[q] = panel[q]
<1>1. /\ panel' \in [Panels -> Panel]
      /\ panel'[p] = next /\ \A q \in Panels : q # p => panel'[q] = panel[q]
  BY DEF ColumnInv, ColumnsTypeOK
<1>2. ASSUME NEW q \in Panels
      PROVE  /\ Agrees(panel[q].list, columns, {k \in Columns : <<q, k>> \in unseen})
             /\ panel[q].load = "read" => Agrees(panel[q].got, columns, panel[q].missed)
             /\ panel[q].list \subseteq made /\ panel[q].got \subseteq made
  BY DEF ColumnInv, PanelsAgree, ListsMade
<1>3. PanelsAgree'
  <2> SUFFICES ASSUME NEW q \in Panels
               PROVE  /\ Agrees(panel'[q].list, columns', {k \in Columns : <<q, k>> \in unseen'})
                      /\ panel'[q].load = "read" => Agrees(panel'[q].got, columns', panel'[q].missed)
    BY DEF PanelsAgree
  <2>1. CASE q = p
    BY <1>1, <2>1 DEF Agrees
  <2>2. CASE q # p
    BY <1>1, <1>2, <2>2 DEF Agrees
  <2> QED BY <2>1, <2>2
<1>4. ListsMade'
  BY <1>1, <1>2 DEF ListsMade
<1> QED BY <1>1, <1>3, <1>4

\* What no step of the panels touches.
LEMMA HandlersStay ==
  ASSUME ColumnInv, UNCHANGED <<columns, held, meant, overruled>>, made \subseteq made'
  PROVE  HandlersAgree' /\ ColumnsKept'
<1>1. ColumnsKept'
  BY DEF ColumnInv, ColumnsKept
<1>2. ASSUME NEW h \in ProjectCalls, held[h] # NoProject
      PROVE  Agrees(held[h].columns, columns, held[h].risk) /\ held[h].columns \subseteq made
  BY <1>2 DEF ColumnInv, HandlersAgree
<1> QED BY <1>1, <1>2 DEF HandlersAgree, Agrees

\* Saves that are under way while a panel changes: it is still saving if it was.
LEMMA ClicksStay ==
  ASSUME ColumnInv, UNCHANGED <<columns, click, clicks>>, made \subseteq made',
         \A q \in Panels : panel[q].saving => panel'[q].saving
  PROVE  ClicksAgree'
<1>1. ASSUME NEW e \in 1 .. MaxClicks, click[e] # NoClick PROVE ClickAgrees(click[e])' /\ e <= clicks'
  <2>1. ClickAgrees(click[e]) /\ e <= clicks /\ click[e].of \in Panels
    BY <1>1 DEF ColumnInv, ClicksAgree, ColumnsTypeOK, Click
  <2> QED BY <2>1 DEF ClickAgrees, Agrees
<1>2. \A e, x \in 1 .. MaxClicks : SameVisit(e, x)' <=> SameVisit(e, x)
  BY DEF SameVisit
<1> QED BY <1>1, <1>2 DEF ClicksAgree, ColumnInv

LEMMA GetColumnsInv == ASSUME ColumnInv, NEW p \in Panels, GetColumns(p) PROVE ColumnInv'
<1>1. PICK next : next = [panel[p] EXCEPT !.load = "read", !.got = columns]
  OBVIOUS
<1>2. panel[p] \in Panel /\ panel[p].missed \subseteq Columns
  BY DEF ColumnInv, ColumnsTypeOK, Panel
<1>3. /\ next \in Panel /\ next.list = panel[p].list /\ next.got = columns
      /\ next.saving = panel[p].saving
  BY <1>1, <1>2 DEF Panel, ColumnInv, ColumnsTypeOK
<1>4. panel' = [panel EXCEPT ![p] = next]
  BY <1>1 DEF GetColumns
<1>5. panel[p].list \subseteq made /\ Agrees(panel[p].list, columns, {k \in Columns : <<p, k>> \in unseen})
  BY DEF ColumnInv, ListsMade, PanelsAgree
<1>6. /\ panel' \in [Panels -> Panel] /\ PanelsAgree' /\ ListsMade'
      /\ panel'[p] = next /\ \A q \in Panels : q # p => panel'[q] = panel[q]
  <2>1. columns \subseteq made /\ unseen \subseteq Panels \X Columns /\ UNCHANGED <<columns, made, unseen>>
    BY DEF GetColumns, ColumnInv, ColumnsTypeOK
  <2>2. Agrees(next.got, columns, next.missed)
    BY <1>3 DEF Agrees
  <2>3. Agrees(next.list, columns, {k \in Columns : <<p, k>> \in unseen'})
    BY <1>3, <1>5, <2>1
  <2> QED BY <1>3, <1>4, <1>5, <2>1, <2>2, <2>3, LoadStep
<1>7. HandlersAgree' /\ ColumnsKept' /\ ClicksAgree'
  BY <1>3, <1>6, HandlersStay, ClicksStay DEF GetColumns
<1> QED BY <1>6, <1>7 DEF GetColumns, ColumnInv, ColumnsTypeOK

LEMMA ShowColumnsInv == ASSUME ColumnInv, NEW p \in Panels, ShowColumns(p) PROVE ColumnInv'
<1>1. PICK next : next = [panel[p] EXCEPT !.list = panel[p].got, !.load = "done", !.got = {}, !.missed = {}]
  OBVIOUS
<1>2. panel[p] \in Panel /\ panel[p].missed \subseteq Columns
  BY DEF ColumnInv, ColumnsTypeOK, Panel
<1>3. /\ next \in Panel /\ next.list = panel[p].got /\ next.got = {} /\ next.load = "done"
      /\ next.saving = panel[p].saving
  BY <1>1, <1>2 DEF Panel
<1>4. panel' = [panel EXCEPT ![p] = next]
  BY <1>1 DEF ShowColumns
<1>5. panel[p].got \subseteq made /\ Agrees(panel[p].got, columns, panel[p].missed)
  BY DEF ShowColumns, ColumnInv, ListsMade, PanelsAgree
<1>6. /\ unseen' = {x \in unseen : x[1] # p} \cup ({p} \X panel[p].missed) /\ UNCHANGED <<columns, made>>
      /\ unseen \subseteq Panels \X Columns
  BY DEF ShowColumns, ColumnInv, ColumnsTypeOK
<1>7. /\ unseen' \subseteq Panels \X Columns
      /\ \A k \in Columns : <<p, k>> \in unseen' <=> k \in panel[p].missed
      /\ \A q \in Panels : q # p => \A k \in Columns : <<q, k>> \in unseen' <=> <<q, k>> \in unseen
  BY <1>2, <1>6
<1>8. /\ panel' \in [Panels -> Panel] /\ PanelsAgree' /\ ListsMade'
      /\ panel'[p] = next /\ \A q \in Panels : q # p => panel'[q] = panel[q]
  <2>1. Agrees(next.list, columns, {k \in Columns : <<p, k>> \in unseen'})
    BY <1>3, <1>5, <1>7 DEF Agrees
  <2> QED BY <1>3, <1>4, <1>5, <1>6, <1>7, <2>1, LoadStep
<1>9. HandlersAgree' /\ ColumnsKept' /\ ClicksAgree'
  BY <1>3, <1>8, HandlersStay, ClicksStay DEF ShowColumns
<1> QED BY <1>7, <1>8, <1>9 DEF ShowColumns, ColumnInv, ColumnsTypeOK

LEMMA LoadColumnsFailsInv == ASSUME ColumnInv, NEW p \in Panels, LoadColumnsFails(p) PROVE ColumnInv'
<1>1. PICK next : next = [panel[p] EXCEPT !.load = "done", !.got = {}, !.missed = {}]
  OBVIOUS
<1>2. panel[p] \in Panel
  BY DEF ColumnInv, ColumnsTypeOK
<1>3. /\ next \in Panel /\ next.list = panel[p].list /\ next.got = {} /\ next.load = "done"
      /\ next.saving = panel[p].saving
  BY <1>1, <1>2 DEF Panel
<1>4. panel' = [panel EXCEPT ![p] = next]
  BY <1>1 DEF LoadColumnsFails
<1>5. panel[p].list \subseteq made /\ Agrees(panel[p].list, columns, {k \in Columns : <<p, k>> \in unseen})
  BY DEF ColumnInv, ListsMade, PanelsAgree
<1>6. /\ panel' \in [Panels -> Panel] /\ PanelsAgree' /\ ListsMade'
      /\ panel'[p] = next /\ \A q \in Panels : q # p => panel'[q] = panel[q]
  <2>1. unseen \subseteq Panels \X Columns /\ UNCHANGED <<columns, made, unseen>>
    BY DEF LoadColumnsFails, ColumnInv, ColumnsTypeOK
  <2>2. Agrees(next.list, columns, {k \in Columns : <<p, k>> \in unseen'})
    BY <1>3, <1>5, <2>1
  <2> QED BY <1>3, <1>4, <1>5, <2>1, <2>2, LoadStep
<1>7. HandlersAgree' /\ ColumnsKept' /\ ClicksAgree'
  BY <1>3, <1>6, HandlersStay, ClicksStay DEF LoadColumnsFails
<1> QED BY <1>6, <1>7 DEF LoadColumnsFails, ColumnInv, ColumnsTypeOK

\* Nothing that was sent before reaches the new panel.
LEMMA MountPanelInv == ASSUME ColumnInv, NEW p \in Panels, MountPanel(p) PROVE ColumnInv'
<1>1. NewPanel \in Panel /\ NewPanel.list = {} /\ NewPanel.got = {} /\ NewPanel.load = "asked"
  BY DEF NewPanel, Panel
<1>2. /\ unseen' = {x \in unseen : x[1] # p} \cup ({p} \X columns) /\ panel' = [panel EXCEPT ![p] = NewPanel]
      /\ UNCHANGED <<columns, held, made, clicks, handled, meant, overruled>>
      /\ unseen \subseteq Panels \X Columns /\ columns \subseteq Columns /\ mounts' \in 0 .. MaxMounts
      /\ click' = [e \in 1 .. MaxClicks |->
           IF click[e] # NoClick /\ click[e].of = p THEN [click[e] EXCEPT !.heard = FALSE] ELSE click[e]]
  BY ColumnAssumption DEF MountPanel, ColumnInv, ColumnsTypeOK
<1>3. /\ unseen' \subseteq Panels \X Columns
      /\ \A k \in Columns : <<p, k>> \in unseen' <=> k \in columns
      /\ \A q \in Panels : q # p => \A k \in Columns : <<q, k>> \in unseen' <=> <<q, k>> \in unseen
  BY <1>2
<1>4. /\ panel' \in [Panels -> Panel] /\ PanelsAgree' /\ ListsMade'
      /\ panel'[p] = NewPanel /\ \A q \in Panels : q # p => panel'[q] = panel[q]
  <2>1. Agrees(NewPanel.list, columns, {k \in Columns : <<p, k>> \in unseen'})
    BY <1>1, <1>3 DEF Agrees
  <2>2. PICK next : next = NewPanel
    OBVIOUS
  <2> QED BY <1>1, <1>2, <1>3, <2>1, <2>2, LoadStep
<1>5. HandlersAgree' /\ ColumnsKept'
  BY <1>2, HandlersStay
<1>6. ASSUME NEW e \in 1 .. MaxClicks
      PROVE  /\ click'[e] = NoClick <=> click[e] = NoClick
             /\ click'[e] # NoClick =>
                  /\ click'[e] \in Click /\ ClickAgrees(click[e])' /\ e <= clicks
                  /\ click'[e].of = click[e].of /\ (click'[e].heard => click[e].heard)
  <2>1. CASE click[e] # NoClick /\ click[e].of = p
    <3>1. click[e] \in Click /\ ClickAgrees(click[e]) /\ e <= clicks
      BY <2>1 DEF ColumnInv, ColumnsTypeOK, ClicksAgree
    <3>2. PICK c : c = [click[e] EXCEPT !.heard = FALSE]
      OBVIOUS
    <3>3. /\ c \in Click /\ c.heard = FALSE /\ c.of = click[e].of /\ c.at = click[e].at /\ c.sent = click[e].sent
          /\ c.risk = click[e].risk /\ c.column = click[e].column
      BY <3>1, <3>2 DEF Click
    <3>4. click'[e] = c /\ c # NoClick
      BY <1>2, <2>1, <3>2, <3>3, NoColumnAssumption
    <3>5. ClickAgrees(click[e])'
      BY <1>2, <3>1, <3>3, <3>4 DEF ClickAgrees, Agrees
    <3> QED BY <2>1, <3>1, <3>3, <3>4, <3>5
  <2>2. CASE click[e] # NoClick /\ click[e].of # p
    <3>1. click[e] \in Click /\ ClickAgrees(click[e]) /\ e <= clicks /\ click[e].of \in Panels
      BY <2>2 DEF ColumnInv, ColumnsTypeOK, ClicksAgree, Click
    <3>2. click'[e] = click[e] /\ panel'[click[e].of] = panel[click[e].of]
      BY <1>2, <1>4, <2>2, <3>1
    <3> QED BY <1>2, <2>2, <3>1, <3>2 DEF ClickAgrees, Agrees
  <2>3. CASE click[e] = NoClick
    BY <1>2, <2>3
  <2> QED BY <2>1, <2>2, <2>3
<1>7. click' \in [1 .. MaxClicks -> Click \cup {NoClick}]
  <2>1. \A e \in 1 .. MaxClicks : click'[e] \in Click \cup {NoClick}
    BY <1>6
  <2> QED BY <1>2, <2>1
<1>8. ClicksAgree'
  <2>1. ASSUME NEW e \in 1 .. MaxClicks, NEW x \in 1 .. MaxClicks, click'[e] # NoClick, click'[x] # NoClick,
               SameVisit(e, x)'
        PROVE  e = x
    <3>1. SameVisit(e, x)
      BY <1>6, <2>1 DEF SameVisit
    <3> QED BY <1>6, <2>1, <3>1 DEF ColumnInv, ClicksAgree
  <2> QED BY <1>2, <1>6, <2>1 DEF ClicksAgree
<1> QED BY <1>2, <1>3, <1>4, <1>5, <1>7, <1>8 DEF ColumnInv, ColumnsTypeOK

\* Saves that go on, are answered or end.
LEMMA ClicksFollow ==
  ASSUME ColumnInv, clicks' = clicks,
         \A x \in 1 .. MaxClicks : click'[x] # NoClick =>
           /\ click[x] # NoClick /\ click'[x].of = click[x].of /\ (click'[x].heard => click[x].heard)
           /\ ClickAgrees(click[x])'
  PROVE  ClicksAgree'
<1>1. ASSUME NEW e \in 1 .. MaxClicks, NEW x \in 1 .. MaxClicks, click'[e] # NoClick, click'[x] # NoClick,
             SameVisit(e, x)'
      PROVE  e = x
  <2>1. SameVisit(e, x)
    BY <1>1 DEF SameVisit
  <2> QED BY <1>1, <2>1 DEF ColumnInv, ClicksAgree
<1>2. \A e \in 1 .. MaxClicks : click'[e] # NoClick => ClickAgrees(click[e])' /\ e <= clicks'
  BY DEF ColumnInv, ClicksAgree
<1> QED BY <1>1, <1>2 DEF ClicksAgree

\* The button of a panel that is not saving: no save that it would hear of is under way.
LEMMA SendColumnsInv ==
  ASSUME ColumnInv, NEW p \in Panels, NEW k \in Columns, NEW cols \in SUBSET Columns,
         SendColumns(p, k, cols),
         cols \subseteq made', k \in made', made \subseteq made', made' \subseteq Columns,
         \A c \in Columns \ {k} : c \in cols <=> c \in panel[p].list
  PROVE  ColumnInv'
<1>1. PICK next : next = [panel[p] EXCEPT !.saving = TRUE]
  OBVIOUS
<1>2. PICK risk : risk = {c \in Columns \ {k} : <<p, c>> \in unseen}
  OBVIOUS
<1>3. PICK new : new = [of |-> p, column |-> k, sent |-> cols, risk |-> risk, at |-> "sent", heard |-> TRUE]
  OBVIOUS
<1>4. /\ clicks < MaxClicks /\ clicks' = clicks + 1 /\ ~panel[p].saving
      /\ panel' = [panel EXCEPT ![p] = next] /\ click' = [click EXCEPT ![clicks'] = new]
      /\ UNCHANGED <<columns, held, mounts, handled, meant, unseen, overruled>>
  <2>1. panel' = [panel EXCEPT ![p] = next]
    BY <1>1 DEF SendColumns
  <2>2. click' = [click EXCEPT ![clicks'] = new]
    BY <1>2, <1>3 DEF SendColumns
  <2> QED BY <2>1, <2>2 DEF SendColumns, Usable
<1>5. new \in Click /\ new # NoClick /\ clicks' \in 1 .. MaxClicks
  <2>1. new \in Click
    BY <1>2, <1>3 DEF Click
  <2> QED BY <1>4, <2>1, NoColumnAssumption, ColumnAssumption DEF ColumnInv, ColumnsTypeOK
<1>6. panel[p] \in Panel /\ panel[p].list \subseteq made /\ panel[p].got \subseteq made
  BY DEF ColumnInv, ColumnsTypeOK, ListsMade
<1>7. /\ next \in Panel /\ next.list = panel[p].list /\ next.got = panel[p].got /\ next.load = panel[p].load
      /\ next.missed = panel[p].missed /\ next.saving = TRUE
  BY <1>1, <1>6 DEF Panel
<1>8. /\ Agrees(panel[p].list, columns, {c \in Columns : <<p, c>> \in unseen})
      /\ panel[p].load = "read" => Agrees(panel[p].got, columns, panel[p].missed)
  BY DEF ColumnInv, PanelsAgree
<1>9. /\ panel' \in [Panels -> Panel] /\ PanelsAgree' /\ ListsMade'
      /\ panel'[p] = next /\ \A q \in Panels : q # p => panel'[q] = panel[q]
  <2>1. unseen \subseteq Panels \X Columns /\ unseen' = unseen
    BY <1>4 DEF ColumnInv, ColumnsTypeOK
  <2>2. next.list \subseteq made' /\ next.got \subseteq made'
    BY <1>6, <1>7
  <2>3. Agrees(next.list, columns, {c \in Columns : <<p, c>> \in unseen'})
    BY <1>7, <1>8, <2>1
  <2>4. next.load = "read" => Agrees(next.got, columns, next.missed)
    BY <1>7, <1>8
  <2> QED BY <1>4, <1>7, <2>1, <2>2, <2>3, <2>4, LoadStep
<1>10. HandlersAgree' /\ ColumnsKept'
  BY <1>4, HandlersStay
<1>11. click' \in [1 .. MaxClicks -> Click \cup {NoClick}]
       /\ click'[clicks'] = new /\ \A x \in 1 .. MaxClicks : x # clicks' => click'[x] = click[x]
  BY <1>4, <1>5 DEF ColumnInv, ColumnsTypeOK
<1>12. ClickAgrees(new)'
  <2>1. Agrees(cols, columns, risk \cup {k})
    BY <1>2, <1>8 DEF Agrees
  <2> QED BY <1>3, <1>4, <1>7, <1>9, <2>1 DEF ClickAgrees
<1>13. ASSUME NEW x \in 1 .. MaxClicks, x # clicks', click'[x] # NoClick
       PROVE  ClickAgrees(click[x])' /\ x <= clicks /\ ~(click[x].heard /\ click[x].of = p)
  <2>1. ClickAgrees(click[x]) /\ x <= clicks /\ click[x].of \in Panels /\ click'[x] = click[x]
    BY <1>11, <1>13 DEF ColumnInv, ColumnsTypeOK, ClicksAgree, Click
  <2>2. panel[click[x].of].saving => panel'[click[x].of].saving
    BY <1>7, <1>9, <2>1
  <2> QED BY <1>4, <2>1, <2>2 DEF ClickAgrees, Agrees
<1>14. ClicksAgree'
  <2>1. ASSUME NEW e \in 1 .. MaxClicks, NEW x \in 1 .. MaxClicks, click'[e] # NoClick, click'[x] # NoClick,
               SameVisit(e, x)'
        PROVE  e = x
    <3>1. new.of = p /\ new.heard
      BY <1>3
    <3>2. CASE e # clicks' /\ x # clicks'
      <4>1. SameVisit(e, x) /\ click[e] # NoClick /\ click[x] # NoClick
        BY <1>11, <2>1, <3>2 DEF SameVisit
      <4> QED BY <4>1 DEF ColumnInv, ClicksAgree
    <3>3. CASE e = clicks' /\ x # clicks'
      BY <1>11, <1>13, <2>1, <3>1, <3>3 DEF SameVisit
    <3>4. CASE e # clicks' /\ x = clicks'
      BY <1>11, <1>13, <2>1, <3>1, <3>4 DEF SameVisit
    <3> QED BY <3>2, <3>3, <3>4
  <2>2. ASSUME NEW e \in 1 .. MaxClicks, click'[e] # NoClick PROVE ClickAgrees(click[e])' /\ e <= clicks'
    <3>1. CASE e = clicks'
      BY <1>5, <1>11, <1>12, <3>1 DEF ClickAgrees
    <3>2. CASE e # clicks'
      <4>1. clicks \in Nat
        BY ColumnAssumption DEF ColumnInv, ColumnsTypeOK
      <4> QED BY <1>4, <1>13, <2>2, <3>2, <4>1
    <3> QED BY <3>1, <3>2
  <2> QED BY <2>1, <2>2 DEF ClicksAgree
<1>15. columns' \subseteq made' /\ clicks' \in 0 .. MaxClicks
  BY <1>4, <1>5 DEF ColumnInv, ColumnsTypeOK
<1> QED BY <1>4, <1>9, <1>10, <1>11, <1>14, <1>15 DEF ColumnInv, ColumnsTypeOK

LEMMA AddColumnInv == ASSUME ColumnInv, NEW p \in Panels, NEW k \in Columns, AddColumn(p, k) PROVE ColumnInv'
<1>1. made' = made \cup {k} /\ panel[p].list \subseteq made /\ made \subseteq Columns
  BY DEF AddColumn, ColumnInv, ColumnsTypeOK, ListsMade
<1>2. PICK cols : cols = panel[p].list \cup {k}
  OBVIOUS
<1>3. /\ cols \in SUBSET Columns /\ cols \subseteq made' /\ k \in made' /\ made \subseteq made' /\ made' \subseteq Columns
      /\ \A c \in Columns \ {k} : c \in cols <=> c \in panel[p].list
  BY <1>1, <1>2
<1>4. SendColumns(p, k, cols)
  BY <1>2 DEF AddColumn
<1> QED BY <1>3, <1>4, SendColumnsInv

LEMMA RemoveColumnInv == ASSUME ColumnInv, NEW p \in Panels, NEW k \in Columns, RemoveColumn(p, k) PROVE ColumnInv'
<1>1. made' = made /\ k \in panel[p].list /\ panel[p].list \subseteq made /\ made \subseteq Columns
  BY DEF RemoveColumn, ColumnInv, ColumnsTypeOK, ListsMade
<1>2. PICK cols : cols = panel[p].list \ {k}
  OBVIOUS
<1>3. /\ cols \in SUBSET Columns /\ cols \subseteq made' /\ k \in made' /\ made \subseteq made' /\ made' \subseteq Columns
      /\ \A c \in Columns \ {k} : c \in cols <=> c \in panel[p].list
  BY <1>1, <1>2
<1>4. SendColumns(p, k, cols)
  BY <1>2 DEF RemoveColumn
<1> QED BY <1>3, <1>4, SendColumnsInv

LEMMA RefuseColumnsInv ==
  ASSUME ColumnInv, NEW e \in 1 .. MaxClicks, RefuseColumns(e) PROVE ColumnInv'
<1>1. PICK c : c = [click[e] EXCEPT !.at = "refused"]
  OBVIOUS
<1>2. click[e] \in Click /\ ClickAgrees(click[e]) /\ e <= clicks
  BY DEF RefuseColumns, ColumnInv, ColumnsTypeOK, ClicksAgree
<1>3. /\ c \in Click /\ c # NoClick /\ c.at = "refused" /\ c.of = click[e].of /\ c.heard = click[e].heard
      /\ c.sent = click[e].sent /\ c.column = click[e].column
  BY <1>1, <1>2, NoColumnAssumption DEF Click
<1>4. /\ click' = [click EXCEPT ![e] = c] /\ click[e] # NoClick
      /\ UNCHANGED <<columns, panel, held, made, clicks, mounts, handled, meant, unseen, overruled>>
  BY <1>1 DEF RefuseColumns
<1>5. /\ click' \in [1 .. MaxClicks -> Click \cup {NoClick}]
      /\ click'[e] = c /\ \A x \in 1 .. MaxClicks : x # e => click'[x] = click[x]
  BY <1>3, <1>4 DEF ColumnInv, ColumnsTypeOK
<1>6. ClickAgrees(c)'
  BY <1>2, <1>3, <1>4 DEF ClickAgrees
<1>7. \A x \in 1 .. MaxClicks : click[x] # NoClick => ClickAgrees(click[x])
  BY DEF ColumnInv, ClicksAgree
<1>8. ClicksAgree'
  <2>1. ASSUME NEW x \in 1 .. MaxClicks, click'[x] # NoClick
        PROVE  /\ click[x] # NoClick /\ click'[x].of = click[x].of /\ (click'[x].heard => click[x].heard)
               /\ ClickAgrees(click[x])'
    <3>1. CASE x = e
      BY <1>3, <1>4, <1>5, <1>6, <3>1 DEF ClickAgrees
    <3>2. CASE x # e
      BY <1>4, <1>5, <1>7, <2>1, <3>2 DEF ClickAgrees, Agrees
    <3> QED BY <3>1, <3>2
  <2> QED BY <1>4, <2>1, ClicksFollow
<1>9. PanelsAgree' /\ ListsMade'
  BY <1>4 DEF ColumnInv, PanelsAgree, ListsMade, Agrees
<1>10. HandlersAgree' /\ ColumnsKept'
  BY <1>4, HandlersStay
<1> QED BY <1>4, <1>5, <1>8, <1>9, <1>10 DEF ColumnInv, ColumnsTypeOK

\* A save that ends: it was the only one that its panel would hear of.
LEMMA ClickGone ==
  ASSUME ColumnInv, NEW e \in 1 .. MaxClicks, click[e] # NoClick, click' = [click EXCEPT ![e] = NoClick],
         UNCHANGED <<columns, clicks, made>>,
         \A q \in Panels : q # click[e].of \/ ~click[e].heard => panel'[q].saving = panel[q].saving
  PROVE  click' \in [1 .. MaxClicks -> Click \cup {NoClick}] /\ ClicksAgree'
<1>1. /\ click' \in [1 .. MaxClicks -> Click \cup {NoClick}]
      /\ click'[e] = NoClick /\ \A x \in 1 .. MaxClicks : x # e => click'[x] = click[x]
  BY DEF ColumnInv, ColumnsTypeOK
<1>2. ASSUME NEW x \in 1 .. MaxClicks, click'[x] # NoClick
      PROVE  /\ click[x] # NoClick /\ click'[x].of = click[x].of /\ (click'[x].heard => click[x].heard)
             /\ ClickAgrees(click[x])'
  <2>1. x # e /\ click'[x] = click[x] /\ click[x] # NoClick
    BY <1>1, <1>2
  <2>2. ClickAgrees(click[x]) /\ click[x].of \in Panels /\ ~SameVisit(e, x)
    BY <2>1 DEF ColumnInv, ColumnsTypeOK, ClicksAgree, Click
  <2>3. click[x].heard => panel'[click[x].of].saving = panel[click[x].of].saving
    BY <2>2 DEF SameVisit
  <2> QED BY <2>1, <2>2, <2>3 DEF ClickAgrees, Agrees
<1> QED BY <1>1, <1>2, ClicksFollow

LEMMA ShowSavedColumnsInv ==
  ASSUME ColumnInv, NEW e \in 1 .. MaxClicks, ShowSavedColumns(e) PROVE ColumnInv'
<1>1. PICK c : c = click[e]
  OBVIOUS
<1>2. /\ c \in Click /\ ClickAgrees(c) /\ click[e] # NoClick /\ c.at = "saved"
      /\ click' = [click EXCEPT ![e] = NoClick]
      /\ UNCHANGED <<columns, held, made, clicks, mounts, handled, meant, overruled>>
  BY <1>1 DEF ShowSavedColumns, ColumnInv, ColumnsTypeOK, ClicksAgree
<1>3. unseen \subseteq Panels \X Columns
  BY DEF ColumnInv, ColumnsTypeOK
<1>4. HandlersAgree' /\ ColumnsKept'
  BY <1>2, HandlersStay
<1>5. CASE ~c.heard
  <2>1. UNCHANGED <<panel, unseen>>
    BY <1>1, <1>5 DEF ShowSavedColumns
  <2>2. click' \in [1 .. MaxClicks -> Click \cup {NoClick}] /\ ClicksAgree'
    BY <1>2, <2>1, ClickGone
  <2>3. PanelsAgree' /\ ListsMade'
    BY <1>2, <2>1 DEF ColumnInv, PanelsAgree, ListsMade, Agrees
  <2> QED BY <1>2, <1>4, <2>1, <2>2, <2>3 DEF ColumnInv, ColumnsTypeOK
<1>6. CASE c.heard
  <2>1. PICK p : p = c.of
    OBVIOUS
  <2>2. PICK next : next = [panel[p] EXCEPT !.list = c.sent, !.saving = FALSE]
    OBVIOUS
  <2>3. /\ panel' = [panel EXCEPT ![p] = next]
        /\ unseen' = {x \in unseen : x[1] # p} \cup ({p} \X c.risk)
    BY <1>1, <1>6, <2>1, <2>2 DEF ShowSavedColumns, Answered
  <2>4. p \in Panels /\ panel[p] \in Panel /\ c.sent \subseteq Columns /\ c.risk \subseteq Columns
    BY <1>2, <2>1 DEF Click, ColumnInv, ColumnsTypeOK
  <2>5. /\ next \in Panel /\ next.list = c.sent /\ next.got = panel[p].got /\ next.load = panel[p].load
        /\ next.missed = panel[p].missed
    BY <2>2, <2>4 DEF Panel
  <2>6. /\ unseen' \subseteq Panels \X Columns
        /\ \A k \in Columns : <<p, k>> \in unseen' <=> k \in c.risk
        /\ \A q \in Panels : q # p => \A k \in Columns : <<q, k>> \in unseen' <=> <<q, k>> \in unseen
    BY <1>3, <2>3, <2>4
  <2>7. /\ panel' \in [Panels -> Panel] /\ PanelsAgree' /\ ListsMade'
        /\ panel'[p] = next /\ \A q \in Panels : q # p => panel'[q] = panel[q]
    <3>1. Agrees(next.list, columns, {k \in Columns : <<p, k>> \in unseen'})
      BY <1>2, <2>5, <2>6 DEF ClickAgrees, Agrees
    <3>2. next.load = "read" => Agrees(next.got, columns, next.missed)
      BY <2>4, <2>5 DEF ColumnInv, PanelsAgree
    <3>3. next.list \subseteq made' /\ next.got \subseteq made'
      BY <1>2, <2>4, <2>5 DEF ClickAgrees, ColumnInv, ListsMade
    <3> QED BY <1>2, <2>3, <2>4, <2>5, <2>6, <3>1, <3>2, <3>3, LoadStep
  <2>8. click' \in [1 .. MaxClicks -> Click \cup {NoClick}] /\ ClicksAgree'
    BY <1>1, <1>2, <1>6, <2>1, <2>7, ClickGone
  <2> QED BY <1>2, <1>4, <2>6, <2>7, <2>8 DEF ColumnInv, ColumnsTypeOK
<1> QED BY <1>5, <1>6

LEMMA ShowColumnsErrorInv ==
  ASSUME ColumnInv, NEW e \in 1 .. MaxClicks, ShowColumnsError(e) PROVE ColumnInv'
<1>1. PICK c : c = click[e]
  OBVIOUS
<1>2. /\ c \in Click /\ click[e] # NoClick
      /\ click' = [click EXCEPT ![e] = NoClick]
      /\ UNCHANGED <<columns, held, made, clicks, mounts, handled, meant, unseen, overruled>>
  BY <1>1 DEF ShowColumnsError, ColumnInv, ColumnsTypeOK
<1>3. unseen \subseteq Panels \X Columns
  BY DEF ColumnInv, ColumnsTypeOK
<1>4. HandlersAgree' /\ ColumnsKept'
  BY <1>2, HandlersStay
<1>5. CASE ~c.heard
  <2>1. UNCHANGED panel
    BY <1>1, <1>5 DEF ShowColumnsError
  <2>2. click' \in [1 .. MaxClicks -> Click \cup {NoClick}] /\ ClicksAgree'
    BY <1>2, <2>1, ClickGone
  <2>3. PanelsAgree' /\ ListsMade'
    BY <1>2, <2>1 DEF ColumnInv, PanelsAgree, ListsMade, Agrees
  <2> QED BY <1>2, <1>4, <2>1, <2>2, <2>3 DEF ColumnInv, ColumnsTypeOK
<1>6. CASE c.heard
  <2>1. PICK p : p = c.of
    OBVIOUS
  <2>2. PICK next : next = [panel[p] EXCEPT !.saving = FALSE]
    OBVIOUS
  <2>3. panel' = [panel EXCEPT ![p] = next]
    BY <1>1, <1>6, <2>1, <2>2 DEF ShowColumnsError
  <2>4. p \in Panels /\ panel[p] \in Panel
    BY <1>2, <2>1 DEF Click, ColumnInv, ColumnsTypeOK
  <2>5. /\ next \in Panel /\ next.list = panel[p].list /\ next.got = panel[p].got /\ next.load = panel[p].load
        /\ next.missed = panel[p].missed
    BY <2>2, <2>4 DEF Panel
  <2>6. /\ panel' \in [Panels -> Panel] /\ PanelsAgree' /\ ListsMade'
        /\ panel'[p] = next /\ \A q \in Panels : q # p => panel'[q] = panel[q]
    <3>1. Agrees(next.list, columns, {k \in Columns : <<p, k>> \in unseen'})
      BY <1>2, <2>4, <2>5 DEF ColumnInv, PanelsAgree
    <3>2. next.load = "read" => Agrees(next.got, columns, next.missed)
      BY <2>4, <2>5 DEF ColumnInv, PanelsAgree
    <3>3. next.list \subseteq made' /\ next.got \subseteq made'
      BY <1>2, <2>4, <2>5 DEF ColumnInv, ListsMade
    <3> QED BY <1>2, <1>3, <2>3, <2>4, <2>5, <3>1, <3>2, <3>3, LoadStep
  <2>7. click' \in [1 .. MaxClicks -> Click \cup {NoClick}] /\ ClicksAgree'
    BY <1>1, <1>2, <1>6, <2>1, <2>6, ClickGone
  <2> QED BY <1>2, <1>4, <2>6, <2>7 DEF ColumnInv, ColumnsTypeOK
<1> QED BY <1>5, <1>6

\* A list that agreed with the row but for some columns, after a save that changed others.
LEMMA AgreesAfter ==
  ASSUME NEW cols, NEW but, NEW next, NEW written, Agrees(cols, columns, but), Differing(next) \subseteq written
  PROVE  Agrees(cols, next, but \cup written)
BY DEF Agrees, Differing

\* What a save of the row does to the lists of the panels and of the other handlers.
LEMMA RowWritten ==
  ASSUME ColumnInv, NEW next \in SUBSET Columns, NEW written \in SUBSET Columns, Differing(next) \subseteq written,
         columns' = next, made' = made, panel' = MissedByLoads(written),
         unseen' = unseen \cup (Panels \X written)
  PROVE  /\ panel' \in [Panels -> Panel] /\ unseen' \subseteq Panels \X Columns /\ PanelsAgree' /\ ListsMade'
         /\ \A p \in Panels : panel'[p].saving = panel[p].saving
         /\ \A h \in ProjectCalls :
              /\ MissedByHandlers(written)[h] \in HeldProject \cup {NoProject}
              /\ MissedByHandlers(written)[h] # NoProject =>
                   /\ Agrees(MissedByHandlers(written)[h].columns, next, MissedByHandlers(written)[h].risk)
                   /\ MissedByHandlers(written)[h].columns \subseteq made
<1>1. ASSUME NEW p \in Panels
      PROVE  /\ panel'[p] \in Panel /\ panel'[p].list = panel[p].list /\ panel'[p].got = panel[p].got
             /\ panel'[p].load = panel[p].load /\ panel'[p].saving = panel[p].saving
             /\ panel[p].load = "read" => panel'[p].missed = panel[p].missed \cup written
  <2>1. panel[p] \in Panel
    BY DEF ColumnInv, ColumnsTypeOK
  <2>2. CASE panel[p].load = "read"
    <3>1. PICK n : n = [panel[p] EXCEPT !.missed = panel[p].missed \cup written]
      OBVIOUS
    <3>2. panel'[p] = n
      BY <2>2, <3>1 DEF MissedByLoads
    <3>3. /\ n \in Panel /\ n.list = panel[p].list /\ n.got = panel[p].got /\ n.load = panel[p].load
          /\ n.saving = panel[p].saving /\ n.missed = panel[p].missed \cup written
      BY <2>1, <3>1 DEF Panel
    <3> QED BY <3>2, <3>3
  <2>3. CASE panel[p].load # "read"
    <3>1. panel'[p] = panel[p]
      BY <2>3 DEF MissedByLoads
    <3> QED BY <2>1, <2>3, <3>1
  <2> QED BY <2>2, <2>3
<1>2. panel' \in [Panels -> Panel]
  <2>1. panel' = [p \in Panels |-> panel'[p]]
    BY DEF MissedByLoads
  <2> QED BY <1>1, <2>1
<1>3. PanelsAgree'
  <2> SUFFICES ASSUME NEW p \in Panels
               PROVE  /\ Agrees(panel'[p].list, columns', {k \in Columns : <<p, k>> \in unseen'})
                      /\ panel'[p].load = "read" => Agrees(panel'[p].got, columns', panel'[p].missed)
    BY DEF PanelsAgree
  <2>1. /\ Agrees(panel[p].list, columns, {k \in Columns : <<p, k>> \in unseen})
        /\ panel[p].load = "read" => Agrees(panel[p].got, columns, panel[p].missed)
    BY DEF ColumnInv, PanelsAgree
  <2>2. \A k \in Columns : k \notin written => (k \in next <=> k \in columns)
    BY DEF Differing
  <2>3. Agrees(panel'[p].list, columns', {k \in Columns : <<p, k>> \in unseen'})
    BY <1>1, <2>1, <2>2 DEF Agrees
  <2>4. panel'[p].load = "read" => Agrees(panel'[p].got, columns', panel'[p].missed)
    BY <1>1, <2>1, <2>2 DEF Agrees
  <2> QED BY <2>3, <2>4
<1>4. ListsMade'
  BY <1>1 DEF ColumnInv, ListsMade
<1>5. unseen' \subseteq Panels \X Columns
  BY DEF ColumnInv, ColumnsTypeOK
<1>6. ASSUME NEW h \in ProjectCalls
      PROVE  /\ MissedByHandlers(written)[h] \in HeldProject \cup {NoProject}
             /\ MissedByHandlers(written)[h] # NoProject =>
                  /\ Agrees(MissedByHandlers(written)[h].columns, next, MissedByHandlers(written)[h].risk)
                  /\ MissedByHandlers(written)[h].columns \subseteq made
  <2>1. CASE held[h] = NoProject
    BY <2>1 DEF MissedByHandlers
  <2>2. CASE held[h] # NoProject
    <3>1. held[h] \in HeldProject /\ Agrees(held[h].columns, columns, held[h].risk) /\ held[h].columns \subseteq made
      BY <2>2 DEF ColumnInv, ColumnsTypeOK, HandlersAgree
    <3>2. PICK n : n = [held[h] EXCEPT !.risk = held[h].risk \cup written]
      OBVIOUS
    <3>3. n \in HeldProject /\ n.columns = held[h].columns /\ n.risk = held[h].risk \cup written
      BY <3>1, <3>2 DEF HeldProject
    <3>4. MissedByHandlers(written)[h] = n
      BY <2>2, <3>2 DEF MissedByHandlers
    <3>5. Agrees(n.columns, next, n.risk)
      BY <3>1, <3>3 DEF Agrees, Differing
    <3> QED BY <3>1, <3>3, <3>4, <3>5
  <2> QED BY <2>1, <2>2
<1> QED BY <1>1, <1>2, <1>3, <1>4, <1>5, <1>6

\* A save under way that another one overtakes.
LEMMA ClickOvertaken ==
  ASSUME ColumnInv, NEW x \in 1 .. MaxClicks, click[x] # NoClick,
         NEW next \in SUBSET Columns, NEW written \in SUBSET Columns, Differing(next) \subseteq written,
         columns' = next, made' = made, \A p \in Panels : panel'[p].saving = panel[p].saving,
         click'[x] = [click[x] EXCEPT !.risk = click[x].risk \cup written]
  PROVE  /\ click'[x] \in Click /\ click'[x].of = click[x].of /\ click'[x].heard = click[x].heard
         /\ ClickAgrees(click[x])'
<1>1. PICK c : c = [click[x] EXCEPT !.risk = click[x].risk \cup written]
  OBVIOUS
<1>2. click[x] \in Click /\ ClickAgrees(click[x])
  BY DEF ColumnInv, ColumnsTypeOK, ClicksAgree
<1>3. /\ c \in Click /\ c.of = click[x].of /\ c.heard = click[x].heard /\ c.at = click[x].at
      /\ c.sent = click[x].sent /\ c.column = click[x].column /\ c.risk = click[x].risk \cup written
      /\ c.of \in Panels
  BY <1>1, <1>2 DEF Click
<1>4. click'[x] = c
  BY <1>1
<1>5. \A k \in Columns : k \notin written => (k \in next <=> k \in columns)
  BY DEF Differing
<1>6. ClickAgrees(click[x])'
  BY <1>2, <1>3, <1>4, <1>5 DEF ClickAgrees, Agrees
<1> QED BY <1>3, <1>4, <1>6

LEMMA SaveColumnsInv ==
  ASSUME ColumnInv, NEW e \in 1 .. MaxClicks, SaveColumns(e) PROVE ColumnInv'
<1>1. PICK c : c = click[e]
  OBVIOUS
<1>2. PICK written : written = Differing(c.sent) \cup {c.column}
  OBVIOUS
<1>3. PICK cols : cols = c.sent
  OBVIOUS
<1>4. /\ c \in Click /\ ClickAgrees(c) /\ c # NoClick /\ c.at = "sent"
      /\ cols \in SUBSET Columns /\ cols \subseteq made /\ c.column \in Columns /\ c.of \in Panels
  <2>1. c \in Click /\ ClickAgrees(c) /\ c # NoClick /\ c.at = "sent"
    BY <1>1 DEF SaveColumns, ColumnInv, ColumnsTypeOK, ClicksAgree
  <2> QED BY <1>3, <2>1 DEF Click, ClickAgrees
<1>5. columns \subseteq Columns /\ made \subseteq Columns /\ unseen \subseteq Panels \X Columns
  BY DEF ColumnInv, ColumnsTypeOK
<1>6. written \in SUBSET Columns /\ Differing(cols) \subseteq written
  BY <1>2, <1>3, <1>4, <1>5 DEF Differing
<1>7. /\ columns' = cols /\ panel' = MissedByLoads(written) /\ held' = MissedByHandlers(written)
      /\ unseen' = unseen \cup (Panels \X written)
      /\ UNCHANGED <<made, clicks, mounts, handled>>
      /\ meant' = IF c.column \in cols THEN meant \cup {c.column} ELSE meant \ {c.column}
      /\ overruled' = (overruled \cup (c.risk \cap Differing(cols))) \ {c.column}
      /\ click' = [MissedByClicks(written, LAMBDA x : SameVisit(e, x)) EXCEPT ![e].at = "saved", ![e].risk = {}]
  BY <1>1, <1>2, <1>3 DEF SaveColumns
<1>8. /\ panel' \in [Panels -> Panel] /\ unseen' \subseteq Panels \X Columns /\ PanelsAgree' /\ ListsMade'
      /\ \A p \in Panels : panel'[p].saving = panel[p].saving
      /\ \A h \in ProjectCalls :
           /\ held'[h] \in HeldProject \cup {NoProject}
           /\ held'[h] # NoProject => Agrees(held'[h].columns, cols, held'[h].risk) /\ held'[h].columns \subseteq made
  BY <1>4, <1>6, <1>7, RowWritten
<1>9. held' \in [ProjectCalls -> HeldProject \cup {NoProject}] /\ HandlersAgree'
  <2>1. held' = [h \in ProjectCalls |-> held'[h]]
    BY <1>7 DEF MissedByHandlers
  <2> QED BY <1>7, <1>8, <2>1 DEF HandlersAgree
<1>10. ASSUME NEW x \in 1 .. MaxClicks, x # e
       PROVE  click'[x] = IF click[x] = NoClick THEN NoClick
                          ELSE [click[x] EXCEPT !.risk = click[x].risk \cup written]
  <2>1. click'[x] = IF click[x] = NoClick \/ SameVisit(e, x) THEN click[x]
                    ELSE [click[x] EXCEPT !.risk = click[x].risk \cup written]
    BY <1>7, <1>10 DEF MissedByClicks
  <2>2. click[x] # NoClick => ~SameVisit(e, x)
    BY <1>1, <1>4, <1>10 DEF ColumnInv, ClicksAgree
  <2> QED BY <2>1, <2>2
<1>11. /\ click'[e] \in Click /\ click'[e].of = c.of /\ click'[e].heard = c.heard /\ click'[e].sent = cols
       /\ click'[e].column = c.column /\ click'[e].at = "saved" /\ click'[e].risk = {}
  <2>1. PICK m : m = IF SameVisit(e, e) THEN c ELSE [c EXCEPT !.risk = c.risk \cup written]
    OBVIOUS
  <2>2. /\ m \in Click /\ m.of = c.of /\ m.heard = c.heard /\ m.sent = c.sent /\ m.column = c.column
    BY <1>4, <1>6, <2>1 DEF Click
  <2>3. click'[e] = [m EXCEPT !.at = "saved", !.risk = {}]
    BY <1>1, <1>4, <1>7, <2>1 DEF MissedByClicks
  <2> QED BY <1>3, <2>2, <2>3 DEF Click
<1>12. ClickAgrees(click[e])'
  <2>1. Agrees(click'[e].sent, columns', click'[e].risk)
    BY <1>7, <1>11 DEF Agrees
  <2>2. click'[e].heard => panel'[click'[e].of].saving
    BY <1>4, <1>8, <1>11 DEF ClickAgrees
  <2>3. click'[e].sent \subseteq made' /\ click'[e].column \in made'
    <3>1. made' = made
      BY <1>7
    <3>2. c.column \in made
      BY <1>4 DEF ClickAgrees
    <3> QED BY <1>4, <1>11, <3>1, <3>2
  <2>4. click'[e].at = "saved"
    BY <1>11
  <2> QED BY <2>1, <2>2, <2>3, <2>4 DEF ClickAgrees
<1>13. ASSUME NEW x \in 1 .. MaxClicks
       PROVE  /\ click'[x] \in Click \cup {NoClick}
              /\ click'[x] # NoClick =>
                   /\ click[x] # NoClick /\ click'[x].of = click[x].of /\ (click'[x].heard => click[x].heard)
                   /\ ClickAgrees(click[x])'
  <2>1. CASE x = e
    BY <1>1, <1>4, <1>11, <1>12, <2>1 DEF ClickAgrees
  <2>2. CASE x # e /\ click[x] = NoClick
    BY <1>10, <2>2
  <2>3. CASE x # e /\ click[x] # NoClick
    <3>1. click'[x] = [click[x] EXCEPT !.risk = click[x].risk \cup written]
      BY <1>10, <2>3
    <3> QED BY <1>4, <1>6, <1>7, <1>8, <2>3, <3>1, ClickOvertaken
  <2> QED BY <2>1, <2>2, <2>3
<1>14. click' \in [1 .. MaxClicks -> Click \cup {NoClick}]
  <2>1. click' = [x \in 1 .. MaxClicks |-> click'[x]]
    BY <1>7 DEF MissedByClicks
  <2> QED BY <1>13, <2>1
<1>15. ClicksAgree'
  BY <1>7, <1>13, ClicksFollow
<1>16. ColumnsKept'
  <2> SUFFICES ASSUME NEW k \in Columns, k \notin overruled' PROVE k \in cols <=> k \in meant'
    BY <1>7 DEF ColumnsKept
  <2>1. CASE k = c.column
    BY <1>7, <2>1
  <2>2. CASE k # c.column
    <3>1. k \notin overruled /\ ~(k \in c.risk /\ k \in Differing(cols))
      BY <1>7, <2>2
    <3>2. k \in columns <=> k \in meant
      BY <3>1 DEF ColumnInv, ColumnsKept
    <3>3. k \in meant' <=> k \in meant
      BY <1>7, <2>2
    <3>4. k \notin c.risk => (k \in cols <=> k \in columns)
      BY <1>3, <1>4, <2>2 DEF ClickAgrees, Agrees
    <3>5. k \notin Differing(cols) => (k \in cols <=> k \in columns)
      BY DEF Differing
    <3> QED BY <3>1, <3>2, <3>3, <3>4, <3>5
  <2> QED BY <2>1, <2>2
<1>17. columns' \subseteq made' /\ meant' \subseteq Columns /\ overruled' \subseteq Columns
  BY <1>4, <1>5, <1>6, <1>7 DEF ColumnInv, ColumnsTypeOK
<1> QED BY <1>7, <1>8, <1>9, <1>14, <1>15, <1>16, <1>17 DEF ColumnInv, ColumnsTypeOK

LEMMA ReadProjectInv ==
  ASSUME ColumnInv, NEW h \in ProjectCalls, ReadProject(h) PROVE ColumnInv'
<1>1. PICK r : r = [columns |-> columns, risk |-> {}]
  OBVIOUS
<1>2. /\ held' = [held EXCEPT ![h] = r] /\ handled' \in 0 .. MaxHandled
      /\ UNCHANGED <<columns, panel, click, made, clicks, mounts, meant, unseen, overruled>>
  BY <1>1, ColumnAssumption DEF ReadProject, ColumnInv, ColumnsTypeOK
<1>3. r \in HeldProject /\ r.columns = columns /\ columns \subseteq made
  BY <1>1 DEF HeldProject, ColumnInv, ColumnsTypeOK
<1>4. /\ held' \in [ProjectCalls -> HeldProject \cup {NoProject}]
      /\ held'[h] = r /\ \A x \in ProjectCalls : x # h => held'[x] = held[x]
  BY <1>2, <1>3 DEF ColumnInv, ColumnsTypeOK
<1>5. HandlersAgree'
  <2> SUFFICES ASSUME NEW x \in ProjectCalls, held'[x] # NoProject
               PROVE  Agrees(held'[x].columns, columns, held'[x].risk) /\ held'[x].columns \subseteq made
    BY <1>2 DEF HandlersAgree
  <2>1. CASE x = h
    BY <1>3, <1>4, <2>1 DEF Agrees
  <2>2. CASE x # h
    BY <1>4, <2>2 DEF ColumnInv, HandlersAgree
  <2> QED BY <2>1, <2>2
<1>6. PanelsAgree' /\ ListsMade' /\ ColumnsKept'
  BY <1>2 DEF ColumnInv, PanelsAgree, ListsMade, Agrees, ColumnsKept
<1>7. ClicksAgree'
  BY <1>2, ClicksStay
<1> QED BY <1>2, <1>4, <1>5, <1>6, <1>7 DEF ColumnInv, ColumnsTypeOK

LEMMA SaveProjectInv ==
  ASSUME ColumnInv, NEW h \in ProjectCalls, SaveProject(h) PROVE ColumnInv'
<1>1. PICK cols : cols = held[h].columns
  OBVIOUS
<1>2. PICK written : written = Differing(cols)
  OBVIOUS
<1>3. /\ cols \in SUBSET Columns /\ cols \subseteq made /\ Agrees(cols, columns, held[h].risk)
      /\ held[h] \in HeldProject
  <2>1. held[h] \in HeldProject /\ Agrees(held[h].columns, columns, held[h].risk) /\ held[h].columns \subseteq made
    BY DEF SaveProject, ColumnInv, ColumnsTypeOK, HandlersAgree
  <2> QED BY <1>1, <2>1 DEF HeldProject
<1>4. columns \subseteq Columns /\ made \subseteq Columns
  BY DEF ColumnInv, ColumnsTypeOK
<1>5. written \in SUBSET Columns /\ Differing(cols) \subseteq written
  BY <1>2, <1>3, <1>4 DEF Differing
<1>6. /\ columns' = cols /\ panel' = MissedByLoads(written)
      /\ held' = [MissedByHandlers(written) EXCEPT ![h] = NoProject]
      /\ unseen' = unseen \cup (Panels \X written)
      /\ UNCHANGED <<made, clicks, mounts, handled, meant>>
      /\ overruled' = overruled \cup (held[h].risk \cap written)
      /\ click' = MissedByClicks(written, LAMBDA x : FALSE)
  BY <1>1, <1>2 DEF SaveProject
<1>7. /\ panel' \in [Panels -> Panel] /\ unseen' \subseteq Panels \X Columns /\ PanelsAgree' /\ ListsMade'
      /\ \A p \in Panels : panel'[p].saving = panel[p].saving
      /\ \A x \in ProjectCalls :
           /\ MissedByHandlers(written)[x] \in HeldProject \cup {NoProject}
           /\ MissedByHandlers(written)[x] # NoProject =>
                /\ Agrees(MissedByHandlers(written)[x].columns, cols, MissedByHandlers(written)[x].risk)
                /\ MissedByHandlers(written)[x].columns \subseteq made
  BY <1>3, <1>5, <1>6, RowWritten
<1>8. held' \in [ProjectCalls -> HeldProject \cup {NoProject}] /\ HandlersAgree'
  <2>1. MissedByHandlers(written) = [x \in ProjectCalls |-> MissedByHandlers(written)[x]]
    BY DEF MissedByHandlers
  <2>2. MissedByHandlers(written) \in [ProjectCalls -> HeldProject \cup {NoProject}]
    BY <1>7, <2>1
  <2>3. /\ held' \in [ProjectCalls -> HeldProject \cup {NoProject}] /\ held'[h] = NoProject
        /\ \A x \in ProjectCalls : x # h => held'[x] = MissedByHandlers(written)[x]
    BY <1>6, <2>2
  <2>4. ASSUME NEW x \in ProjectCalls, held'[x] # NoProject
        PROVE  Agrees(held'[x].columns, cols, held'[x].risk) /\ held'[x].columns \subseteq made
    BY <1>7, <2>3, <2>4
  <2> QED BY <1>6, <2>3, <2>4 DEF HandlersAgree
<1>9. ASSUME NEW x \in 1 .. MaxClicks
      PROVE  /\ click'[x] \in Click \cup {NoClick}
             /\ click'[x] # NoClick =>
                  /\ click[x] # NoClick /\ click'[x].of = click[x].of /\ (click'[x].heard => click[x].heard)
                  /\ ClickAgrees(click[x])'
  <2>1. CASE click[x] = NoClick
    BY <1>6, <2>1 DEF MissedByClicks
  <2>2. CASE click[x] # NoClick
    <3>1. click'[x] = [click[x] EXCEPT !.risk = click[x].risk \cup written]
      BY <1>6, <2>2 DEF MissedByClicks
    <3> QED BY <1>3, <1>5, <1>6, <1>7, <2>2, <3>1, ClickOvertaken
  <2> QED BY <2>1, <2>2
<1>10. click' \in [1 .. MaxClicks -> Click \cup {NoClick}]
  <2>1. click' = [x \in 1 .. MaxClicks |-> click'[x]]
    BY <1>6 DEF MissedByClicks
  <2> QED BY <1>9, <2>1
<1>11. ClicksAgree'
  BY <1>6, <1>9, ClicksFollow
<1>12. ColumnsKept'
  <2> SUFFICES ASSUME NEW k \in Columns, k \notin overruled' PROVE k \in cols <=> k \in meant
    BY <1>6 DEF ColumnsKept
  <2>1. k \notin overruled /\ ~(k \in held[h].risk /\ k \in written)
    BY <1>6
  <2>2. k \in columns <=> k \in meant
    BY <2>1 DEF ColumnInv, ColumnsKept
  <2>3. k \notin held[h].risk => (k \in cols <=> k \in columns)
    BY <1>3 DEF Agrees
  <2>4. k \notin written => (k \in cols <=> k \in columns)
    BY <1>2 DEF Differing
  <2> QED BY <2>1, <2>2, <2>3, <2>4
<1>13. columns' \subseteq made' /\ overruled' \subseteq Columns
  BY <1>3, <1>5, <1>6 DEF ColumnInv, ColumnsTypeOK
<1> QED BY <1>6, <1>7, <1>8, <1>10, <1>11, <1>12, <1>13 DEF ColumnInv, ColumnsTypeOK

LEMMA ColumnStep == ColumnInv /\ [ColumnsNext]_columnVars => ColumnInv'
<1> SUFFICES ASSUME ColumnInv, [ColumnsNext]_columnVars PROVE ColumnInv'
  OBVIOUS
<1>1. CASE UNCHANGED columnVars
  <2>1. UNCHANGED columnVars
    BY <1>1
  <2>2. UNCHANGED <<columns, panel, click, held, made, clicks, mounts, handled, meant, unseen, overruled>>
    BY <2>1 DEF columnVars
  <2>3. PanelsAgree' /\ ListsMade'
    BY <2>2 DEF ColumnInv, PanelsAgree, ListsMade, Agrees
  <2>4. HandlersAgree' /\ ColumnsKept' /\ ClicksAgree'
    BY <2>2, HandlersStay, ClicksStay
  <2> QED BY <2>2, <2>3, <2>4 DEF ColumnInv, ColumnsTypeOK
<1>2. ASSUME NEW p \in Panels, MountPanel(p) PROVE ColumnInv'
  BY <1>2, MountPanelInv
<1>3. ASSUME NEW p \in Panels, GetColumns(p) \/ ShowColumns(p) \/ LoadColumnsFails(p) PROVE ColumnInv'
  BY <1>3, GetColumnsInv, ShowColumnsInv, LoadColumnsFailsInv
<1>4. ASSUME NEW p \in Panels, NEW k \in Columns, AddColumn(p, k) \/ RemoveColumn(p, k) PROVE ColumnInv'
  BY <1>4, AddColumnInv, RemoveColumnInv
<1>5. ASSUME NEW e \in 1 .. MaxClicks, SaveColumns(e) \/ RefuseColumns(e) PROVE ColumnInv'
  BY <1>5, SaveColumnsInv, RefuseColumnsInv
<1>6. ASSUME NEW e \in 1 .. MaxClicks, ShowSavedColumns(e) \/ ShowColumnsError(e) PROVE ColumnInv'
  BY <1>6, ShowSavedColumnsInv, ShowColumnsErrorInv
<1>7. ASSUME NEW h \in ProjectCalls, ReadProject(h) \/ SaveProject(h) PROVE ColumnInv'
  BY <1>7, ReadProjectInv, SaveProjectInv
<1> QED BY <1>1, <1>2, <1>3, <1>4, <1>5, <1>6, <1>7 DEF ColumnsNext

LEMMA ColumnsRun == ColumnsSpec => []ColumnInv
<1>1. ColumnsInit => ColumnInv
  BY ColumnsInitInv
<1> QED BY <1>1, ColumnStep, PTL DEF ColumnsSpec

\* The panels, the saves under way and the rows that other handlers hold stay within their
\* types, and the row never holds a column that no panel has made.
THEOREM ColumnsTypeCorrect == ColumnsSpec => []ColumnsTypeOK
<1>1. ColumnInv => ColumnsTypeOK
  BY DEF ColumnInv
<1> QED BY <1>1, ColumnsRun, PTL

\* ColumnManagerPanel, updateCustomFields: however many panels load and save the list, a column
\* that was added stays and one that was removed stays away, unless someone who could not know
\* of it has saved over it.
THEOREM ColumnsStay == ColumnsSpec => []ColumnsKept
<1>1. ColumnInv => ColumnsKept
  BY DEF ColumnInv
<1> QED BY <1>1, ColumnsRun, PTL

-----------------------------------------------------------------------------
(* MCScreens runs one part at a time: its steps are steps of that part, and *)
(* the others stutter.                                                      *)

LEMMA ScreenSteps ==
  ASSUME [MCNext]_mcVars
  PROVE  [Next]_vars /\ [SetupNext]_setupVars /\ [RolesNext]_roleVars /\ [TaskGridNext]_gridVars
         /\ [ColumnsNext]_columnVars /\ [PanesNext]_paneVars
<1>1. CASE UNCHANGED mcVars
  BY <1>1 DEF mcVars
<1>2. CASE MCNext
  BY <1>2 DEF MCNext, FeishuPart, RolesPart, ColumnsPart
<1> QED BY <1>1, <1>2

LEMMA ScreensRun == MCSpec => Spec /\ SetupSpec /\ RolesSpec /\ TaskGridSpec /\ ColumnsSpec /\ PanesSpec
<1>1. MCInit => Init /\ SetupInit /\ RolesInit /\ TaskGridInit /\ ColumnsInit /\ PanesInit
  BY DEF MCInit
<1>2. [MCNext]_mcVars => /\ [Next]_vars /\ [SetupNext]_setupVars /\ [RolesNext]_roleVars
                         /\ [TaskGridNext]_gridVars /\ [ColumnsNext]_columnVars /\ [PanesNext]_paneVars
  BY ScreenSteps
<1> QED BY <1>1, <1>2, PTL DEF MCSpec, Spec, SetupSpec, RolesSpec, TaskGridSpec, ColumnsSpec, PanesSpec

\* The rows of the meeting, of Feishu's set-up, of the roles, of the tasks and of a project, the
\* pages that show them and the requests between them stay within what the handlers can read.
THEOREM ScreensTypeCorrect == MCSpec => []ScreensTypeOK
<1>1. TypeOK /\ SetupTypeOK /\ RolesTypeOK /\ TaskGridTypeOK /\ ColumnsTypeOK /\ PanesTypeOK => ScreensTypeOK
  BY DEF ScreensTypeOK
<1> QED
  BY <1>1, ScreensRun, MeetingTypeCorrect, SetupTypeCorrect, RolesTypeCorrect, GridTypeCorrect,
     ColumnsTypeCorrect, PanesTypeCorrect, PTL

\* What is clicked or typed in a grid is what is stored, for any numbers of roles, tasks, columns,
\* tabs and saves: the permissions of a role, the cells of a task beside the scores that reviews
\* write into the same row, and the columns of a project.
THEOREM EditsStay == MCSpec => []EditsKept
<1>1. GridKept /\ CellsKept /\ ColumnsKept => EditsKept
  BY DEF EditsKept
<1> QED BY <1>1, ScreensRun, GridsAreKept, CellsStay, ColumnsStay, PTL

=============================================================================
