---------------------------- MODULE ReviewMeeting ----------------------------
(***************************************************************************)
(* Live review meetings: backend/src/meeting (service, socket gateway,     *)
(* controller) and the pages that hold a meeting (MeetingPage.vue with     *)
(* useMeeting.ts).                                                         *)
(*   A handler of the service reads the meeting row, awaits, and saves the *)
(* whole row it read.  A page loads the row once and then follows the      *)
(* broadcasts of the room it joined; meeting:error has no listener there,  *)
(* so a call that fails leaves no trace on any page.                       *)
(*   The points of a vote and their median are left out: a vote is the     *)
(* fact that a user voted, and a result the fact that one is stored.       *)
(* setContributions, which touches no meeting, is in module Settlement.    *)
(***************************************************************************)
EXTENDS Integers, FiniteSets, FiniteSetsExt

CONSTANTS
  Meetings, Tasks, Users, Calls,
  Pages,         \* open browser tabs
  PageUser,      \* [Pages -> Users]: who is signed in
  PageMeeting,   \* [Pages -> Meetings]: the :id of the route
  Lead,          \* the user who creates the meetings
  MaxEmits,      \* bound: votes, confirmations and ends the pages send
  NoCall, NoTask, Nobody

ASSUME PagesAssumption ==
  /\ PageUser \in [Pages -> Users] /\ PageMeeting \in [Pages -> Meetings] /\ Lead \in Users
  /\ IsFiniteSet(Users)
  /\ MaxEmits \in Nat

VARIABLES
  meeting,   \* [Meetings -> Row]: review_meetings
  voters,    \* [Meetings -> SUBSET Users]: users with a row in review_votes
  closings,  \* [Meetings -> Nat]: meeting.closed events emitted
  emits,     \* handlers started so far
  call,      \* [Calls -> handler in flight or NoCall]
  room,      \* [Meetings -> SUBSET Users]: roomParticipants
  page,      \* [Pages -> Page]
  \* history
  raced,     \* [Meetings -> BOOLEAN]: a row was saved over a newer one
  late       \* [Meetings -> BOOLEAN]: a vote was checked before a close, saved after it

serverVars == <<meeting, voters, closings>>
ghostVars  == <<raced, late>>
vars == <<serverVars, call, emits, room, page, ghostVars>>

Row == [status : {"absent", "open", "closed"}, tasks : SUBSET Tasks,
        results : SUBSET Tasks, participants : Nat]
Page == [at : {"away", "loaded", "joined"}, open : BOOLEAN, tasks : SUBSET Tasks,
         confirmed : SUBSET Tasks, ended : BOOLEAN, count : Nat]
Call ==
  [op : {"vote", "confirm", "end"}, step : {"check", "save", "announce"}, meeting : Meetings,
   task : Tasks \cup {NoTask}, user : Users \cup {Nobody}, row : Row]

TypeOK ==
  /\ meeting \in [Meetings -> Row]
  /\ voters \in [Meetings -> SUBSET Users]
  /\ closings \in [Meetings -> Nat]
  /\ emits \in 0 .. MaxEmits
  /\ call \in [Calls -> Call \cup {NoCall}]
  /\ room \in [Meetings -> SUBSET Users]
  /\ page \in [Pages -> Page]
  /\ raced \in [Meetings -> BOOLEAN] /\ late \in [Meetings -> BOOLEAN]

NoMeeting == [status |-> "absent", tasks |-> {}, results |-> {}, participants |-> 0]
Unmounted == [at |-> "away", open |-> FALSE, tasks |-> {}, confirmed |-> {},
              ended |-> FALSE, count |-> 0]

Init ==
  /\ meeting = [m \in Meetings |-> NoMeeting]
  /\ voters = [m \in Meetings |-> {}]
  /\ closings = [m \in Meetings |-> 0]
  /\ call = [c \in Calls |-> NoCall]
  /\ emits = 0
  /\ room = [m \in Meetings |-> {}]
  /\ page = [p \in Pages |-> Unmounted]
  /\ raced = [m \in Meetings |-> FALSE]
  /\ late = [m \in Meetings |-> FALSE]

-----------------------------------------------------------------------------
(* The REST endpoint that opens a meeting.                                  *)

\* createMeeting takes the tasks that are pending now, also those of another open meeting.
CreateMeeting(m) ==
  /\ meeting[m].status = "absent"
  /\ \E pending \in SUBSET Tasks :
       meeting' = [meeting EXCEPT ![m] = [NoMeeting EXCEPT !.status = "open", !.tasks = pending]]
  /\ UNCHANGED <<voters, closings, call, emits, room, page, ghostVars>>

-----------------------------------------------------------------------------
(* MeetingPage.vue and useMeeting.ts.                                       *)

At(p)     == PageMeeting[p]
IsLead(p) == PageUser[p] = Lead
Joined(m) == {p \in Pages : page[p].at = "joined" /\ At(p) = m}

\* What a broadcast to the room does to the pages that are in it.
Broadcast(m, shown) ==
  [p \in Pages |-> IF p \in Joined(m) THEN shown[p] ELSE page[p]]

\* load: the row as it is now, with the results it already has.
LoadPage(p) ==
  LET row == meeting[At(p)]
  IN /\ page[p].at = "away"
     /\ row.status # "absent"
     /\ page' = [page EXCEPT ![p] =
          [at |-> "loaded", open |-> row.status = "open", tasks |-> row.tasks,
           confirmed |-> row.results, ended |-> FALSE, count |-> 0]]
     /\ UNCHANGED <<serverVars, call, emits, room, ghostVars>>

\* The socket connects, also again after it was lost, and joins the room (handleJoin).
JoinRoom(p) ==
  LET m == At(p)
      here == room[m] \cup {PageUser[p]}
  IN /\ page[p].at = "loaded" /\ page[p].open
     /\ room' = [room EXCEPT ![m] = here]
     /\ page' = [q \in Pages |->
          IF q = p THEN [page[p] EXCEPT !.at = "joined", !.count = Cardinality(here)]
          ELSE IF q \in Joined(m) THEN [page[q] EXCEPT !.count = Cardinality(here)]
          ELSE page[q]]
     /\ UNCHANGED <<serverVars, call, emits, ghostVars>>

\* handleDisconnect: the user is taken out of every room, also when another tab is there.
Depart(p, next) ==
  LET u == PageUser[p]
      left == [m \in Meetings |-> room[m] \ {u}]
  IN /\ page[p].at = "joined"
     /\ room' = left
     /\ page' = [q \in Pages |->
          IF q = p THEN next
          ELSE IF page[q].at = "joined" /\ u \in room[At(q)]
               THEN [page[q] EXCEPT !.count = Cardinality(left[At(q)])]
               ELSE page[q]]
     /\ UNCHANGED <<serverVars, call, emits, ghostVars>>

LoseConnection(p) == Depart(p, [page[p] EXCEPT !.at = "loaded"])
LeavePage(p)      == Depart(p, Unmounted)

\* An emit of page p starts a handler of the gateway.
Emit(p, c, op, t, u) ==
  /\ page[p].at = "joined"
  /\ page[p].open           \* the status that load() read, never brought up to date
  /\ call[c] = NoCall
  /\ emits < MaxEmits
  /\ emits' = emits + 1
  /\ call' = [call EXCEPT ![c] =
       [op |-> op, step |-> "check", meeting |-> At(p), task |-> t, user |-> u,
        row |-> NoMeeting]]
  /\ UNCHANGED <<serverVars, room, page, ghostVars>>

\* castVote, for a task that is not confirmed yet.
EmitVote(p, c) ==
  /\ page[p].tasks \ page[p].confirmed # {}
  /\ Emit(p, c, "vote", NoTask, PageUser[p])

\* confirmAndNext.
EmitConfirm(p, c) ==
  /\ IsLead(p)
  /\ \E t \in page[p].tasks \ page[p].confirmed : Emit(p, c, "confirm", t, Nobody)

\* endMeeting.
EmitEnd(p, c) ==
  /\ IsLead(p)
  /\ ~page[p].ended
  /\ Emit(p, c, "end", NoTask, Nobody)

-----------------------------------------------------------------------------
(* The handlers of MeetingService, one step per await.                      *)

InFlight(c, op, step) == call[c] # NoCall /\ call[c].op = op /\ call[c].step = step
Finish(c) == call' = [call EXCEPT ![c] = NoCall]
Goto(c, step, row) == call' = [call EXCEPT ![c].step = step, ![c].row = row]

\* Mutants: the status is never checked; it is not checked for votes.
AcceptsAlways(op, row) == TRUE
AcceptsVotes(op, row) == op # "end" \/ row.status = "open"

\* castVote, confirmTask and closeMeeting read the row; confirmTask asks for no status.
Accepts(op, row) == op = "confirm" \/ row.status = "open"

\* Mutant: the lead, who need not have voted, is left out of the count.
SeenWithoutLead(c, row) ==
  IF call[c].op = "end"
  THEN [row EXCEPT !.participants = Cardinality(voters[call[c].meeting]) - 1]
  ELSE row

\* closeMeeting puts the number of voters into the row it will save.
Seen(c, row) ==
  IF call[c].op = "end"
  THEN [row EXCEPT !.participants = Cardinality(voters[call[c].meeting])]
  ELSE row

ReadMeeting(c) ==
  LET row == meeting[call[c].meeting]
  IN /\ call[c] # NoCall /\ call[c].step = "check"
     /\ IF Accepts(call[c].op, row) THEN Goto(c, "save", Seen(c, row)) ELSE Finish(c)
     /\ UNCHANGED <<serverVars, emits, room, page, ghostVars>>

\* The votes of m have been counted for closing it.
Closing(m) ==
  \/ meeting[m].status = "closed"
  \/ \E d \in Calls : InFlight(d, "end", "save") /\ call[d].meeting = m

\* The vote is inserted or replaced; the statistics that follow are display only.
SaveVote(c) ==
  LET m == call[c].meeting
  IN /\ InFlight(c, "vote", "save")
     /\ voters' = [voters EXCEPT ![m] = @ \cup {call[c].user}]
     /\ late' = [late EXCEPT ![m] = @ \/ (call[c].row.status = "open" /\ Closing(m))]
     /\ Finish(c)
     /\ UNCHANGED <<meeting, closings, emits, room, page, raced>>

\* save() of the entity that was read: every column goes back to what it was then.
SaveRow(c, row) ==
  LET m == call[c].meeting
      read == IF call[c].op = "end"
              THEN [call[c].row EXCEPT !.participants = meeting[m].participants]
              ELSE call[c].row
  IN /\ meeting' = [meeting EXCEPT ![m] = row]
     /\ raced' = [raced EXCEPT ![m] = @ \/ meeting[m] # read]
     /\ Goto(c, "announce", row)

\* Mutant: the earlier results are dropped.
SaveOnlyResult(c) ==
  /\ InFlight(c, "confirm", "save")
  /\ SaveRow(c, [call[c].row EXCEPT !.results = {call[c].task}])
  /\ UNCHANGED <<voters, closings, emits, room, page, late>>
SaveResult(c) ==
  /\ InFlight(c, "confirm", "save")
  /\ SaveRow(c, [call[c].row EXCEPT !.results = @ \cup {call[c].task}])
  /\ UNCHANGED <<voters, closings, emits, room, page, late>>

SaveClosed(c) ==
  /\ InFlight(c, "end", "save")
  /\ SaveRow(c, [call[c].row EXCEPT !.status = "closed"])
  /\ closings' = [closings EXCEPT ![call[c].meeting] = @ + 1]
  /\ UNCHANGED <<voters, emits, room, page, late>>

\* The gateway tells the room: meeting:confirmed or meeting:ended.
Announce(c) ==
  LET m == call[c].meeting
  IN /\ call[c] # NoCall /\ call[c].step = "announce"
     /\ page' = IF call[c].op = "confirm"
                THEN Broadcast(m, [p \in Pages |-> [page[p] EXCEPT !.confirmed = @ \cup {call[c].task}]])
                ELSE Broadcast(m, [p \in Pages |-> [page[p] EXCEPT !.ended = TRUE]])
     /\ Finish(c)
     /\ UNCHANGED <<serverVars, emits, room, ghostVars>>

\* A query fails: the gateway catches the error and emits meeting:error.
FailCall(c) ==
  /\ call[c] # NoCall /\ call[c].step # "announce"
  /\ Finish(c)
  /\ UNCHANGED <<serverVars, emits, room, page, ghostVars>>

\* The process dies: rooms and handlers are gone, the sockets connect again later.
Restart ==
  /\ call' = [c \in Calls |-> NoCall]
  /\ room' = [m \in Meetings |-> {}]
  /\ page' = [p \in Pages |-> IF page[p].at = "joined" THEN [page[p] EXCEPT !.at = "loaded"]
                              ELSE page[p]]
  /\ UNCHANGED <<serverVars, emits, ghostVars>>

-----------------------------------------------------------------------------
PageStep(p) ==
  \/ LoadPage(p) \/ JoinRoom(p) \/ LoseConnection(p) \/ LeavePage(p)
  \/ \E c \in Calls : EmitVote(p, c) \/ EmitConfirm(p, c) \/ EmitEnd(p, c)

Handler(c) ==
  \/ ReadMeeting(c) \/ SaveVote(c) \/ SaveResult(c) \/ SaveClosed(c) \/ Announce(c)

Next ==
  \/ \E m \in Meetings : CreateMeeting(m)
  \/ \E p \in Pages : PageStep(p)
  \/ \E c \in Calls : Handler(c) \/ FailCall(c)
  \/ Restart

Spec == Init /\ [][Next]_vars

-----------------------------------------------------------------------------
(* Properties.  None of them can be had without the history variables: the  *)
(* handlers overlap freely, and what is lost then stays lost.               *)

\* meeting.closed, which pays the points out, is emitted once per meeting, unless a
\* handler saved a row that was out of date: the status check is the only protection.
TriggeredOnce == \A m \in Meetings : closings[m] <= 1 \/ raced[m]

\* What a page shows as confirmed is in the row that the settlement reads, for pages that
\* were told so as well as for pages that reconnected, unless a stale row was saved.
ConfirmedIsRecorded ==
  \A p \in Pages : page[p].confirmed \subseteq meeting[At(p)].results \/ raced[At(p)]

VotersCounted(m) ==
  meeting[m].status = "closed" /\ ~raced[m] /\ ~late[m] =>
    meeting[m].participants = Cardinality(voters[m])

ShownAtMost(p) ==
  page[p].at = "joined" => page[p].count <= Cardinality({PageUser[q] : q \in Joined(At(p))})

\* Participants: the count that closeMeeting saves has every voter, but for a vote whose
\* handler passed the status check before the close; the count that a page shows never
\* exceeds the users in the room, through joins, lost connections and restarts.
ParticipantsCounted == (\A m \in Meetings : VotersCounted(m)) /\ (\A p \in Pages : ShownAtMost(p))
=============================================================================
