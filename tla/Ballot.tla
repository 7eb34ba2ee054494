-------------------------------- MODULE Ballot --------------------------------
(***************************************************************************)
(* A vote session: backend/src/vote, and VoteDetailPage of the frontend.   *)
(*   A vote is checked against the session, then against earlier votes of  *)
(* the user, then weighed, then inserted (one per user and session: a      *)
(* unique constraint).  closeSession reads the votes, then the members,    *)
(* and saves the whole session.  Pages decide on what they loaded; a user  *)
(* may have several.                                                       *)
(***************************************************************************)
EXTENDS Points

CONSTANTS
  Tabs, TabOf,   \* pages, and [Tabs -> Users]: who sits in front of them
  Managers,      \* users whose page shows the closing button
  NoPage, NoBallot, NoResult

ASSUME BallotAssumption == TabOf \in [Tabs -> Users] /\ Managers \subseteq Users
ASSUME NoResultAssumption == NoResult \notin [yes : Nat, total : Nat, participants : Nat, members : Nat]

VARIABLES
  session,  \* [status, result]: the row
  votes,    \* the rows of vote_records
  page,     \* [Tabs -> what the page shows, or NoPage]
  ballot    \* [Tabs -> the page's call in flight, or NoBallot]

ballotVars == <<session, votes, page, ballot>>

Vote == [by : Users, yes : BOOLEAN, weight : Nat, late : BOOLEAN]

BallotTypeOK ==
  /\ session.status \in {"open", "passed", "failed"}
  /\ (session.status = "open") = (session.result = NoResult)
  /\ \A v \in votes :
       /\ v.by \in Users /\ {v.yes, v.late} \subseteq BOOLEAN
       /\ v.weight \in Nat \ {0}
  /\ \A t \in Tabs : page[t] = NoPage \/ page[t] \in [open : BOOLEAN, mine : BOOLEAN]
  /\ \A t \in Tabs : ballot[t] = NoBallot \/ ballot[t].at \in {"cast", "weigh", "insert", "count", "members", "save"}

BallotInit ==
  /\ session = [status |-> "open", result |-> NoResult]
  /\ votes = {}
  /\ page = [t \in Tabs |-> NoPage]
  /\ ballot = [t \in Tabs |-> NoBallot]

-----------------------------------------------------------------------------
(* The page.                                                                *)

HasVoted(u) == \E v \in votes : v.by = u

\* load: the session and its votes; also after every call.
Load(t) == page' = [page EXCEPT ![t] = [open |-> session.status = "open", mine |-> HasVoted(TabOf[t])]]

OpenPage(t) ==
  /\ ballot[t] = NoBallot
  /\ Load(t)
  /\ UNCHANGED <<session, votes, ballot, pointsVars>>

ShowsOpen(t) == page[t] # NoPage /\ page[t].open

Ask(t, call) ==
  /\ ballot[t] = NoBallot
  /\ ballot' = [ballot EXCEPT ![t] = call]
  /\ UNCHANGED <<session, votes, page, pointsVars>>

ClickVote(t, yes) ==
  ShowsOpen(t) /\ ~page[t].mine /\ Ask(t, [at |-> "cast", yes |-> yes, weight |-> 0])

ClickClose(t) ==
  /\ ShowsOpen(t) /\ TabOf[t] \in Managers
  /\ Ask(t, [at |-> "count", votes |-> {}, tally |-> NoResult])

\* An answer ends the call; the page loads again unless it is an error.
Refuse(t) ==
  /\ ballot' = [ballot EXCEPT ![t] = NoBallot]
  /\ UNCHANGED <<session, votes, page, pointsVars>>

Stage(t, at) == ballot[t] # NoBallot /\ ballot[t].at = at

-----------------------------------------------------------------------------
(* castVote                                                                 *)

ReadSession(t) ==
  /\ Stage(t, "cast")
  /\ IF session.status # "open" THEN Refuse(t)
     ELSE /\ ballot' = [ballot EXCEPT ![t].at = "weigh"]
          /\ UNCHANGED <<session, votes, page, pointsVars>>

\* Users without active points, or who are no members, weigh 1.
Weight(u) == IF u \in members /\ MembersActive[u] > 0 THEN MembersActive[u] ELSE 1

Weigh(t) ==
  /\ Stage(t, "weigh")
  /\ IF HasVoted(TabOf[t]) THEN Refuse(t)
     ELSE /\ ballot' = [ballot EXCEPT ![t] = [@ EXCEPT !.at = "insert", !.weight = Weight(TabOf[t])]]
          /\ UNCHANGED <<session, votes, page, pointsVars>>

\* Mutant: a table without the constraint.
AnyVote(u) == TRUE

\* vote_records: UNIQUE (voteSessionId, userId).
Insertable(u) == ~HasVoted(u)

\* late is a history field: a closing call has counted, or the session is decided.
InsertVote(t) ==
  LET counted == \E other \in Tabs : Stage(other, "members") \/ Stage(other, "save")
  IN /\ Stage(t, "insert")
     /\ IF ~Insertable(TabOf[t]) THEN Refuse(t)
        ELSE /\ votes' = votes \cup
                  {[by |-> TabOf[t], yes |-> ballot[t].yes, weight |-> ballot[t].weight,
                    late |-> counted \/ session.status # "open"]}
             /\ ballot' = [ballot EXCEPT ![t] = NoBallot]
             /\ page' = [page EXCEPT ![t] = [open |-> session.status = "open", mine |-> TRUE]]
             /\ UNCHANGED <<session, pointsVars>>

-----------------------------------------------------------------------------
(* closeSession                                                             *)

CountVotes(t) ==
  /\ Stage(t, "count")
  /\ IF session.status # "open" THEN Refuse(t)
     ELSE /\ ballot' = [ballot EXCEPT ![t] = [@ EXCEPT !.at = "members", !.votes = votes]]
          /\ UNCHANGED <<session, votes, page, pointsVars>>

WeightOf(cast) == MapThenSumSet(LAMBDA v : v.weight, cast)

Tally(cast) ==
  [yes |-> WeightOf({v \in cast : v.yes}), total |-> WeightOf(cast),
   participants |-> Cardinality(cast), members |-> Cardinality(members)]

\* Both ratios above one half; a ratio without a denominator is 0.
Passes(tally) == tally.yes * 2 > tally.total /\ tally.members > 0 /\ tally.participants * 2 > tally.members

CountMembers(t) ==
  /\ Stage(t, "members")
  /\ ballot' = [ballot EXCEPT ![t] = [@ EXCEPT !.at = "save", !.tally = Tally(ballot[t].votes)]]
  /\ UNCHANGED <<session, votes, page, pointsVars>>

SaveResult(t) ==
  /\ Stage(t, "save")
  /\ session' = [status |-> IF Passes(ballot[t].tally) THEN "passed" ELSE "failed",
                 result |-> ballot[t].tally]
  /\ ballot' = [ballot EXCEPT ![t] = NoBallot]
  /\ page' = [page EXCEPT ![t] = [open |-> FALSE, mine |-> HasVoted(TabOf[t])]]
  /\ UNCHANGED <<votes, pointsVars>>

\* A query fails: the call is over, the page stays as it is.
LoseBallot(t) == ballot[t] # NoBallot /\ Refuse(t)

BallotNext ==
  \/ \E t \in Tabs :
       \/ OpenPage(t) \/ ClickClose(t) \/ \E yes \in BOOLEAN : ClickVote(t, yes)
       \/ ReadSession(t) \/ Weigh(t) \/ InsertVote(t)
       \/ CountVotes(t) \/ CountMembers(t) \/ SaveResult(t) \/ LoseBallot(t)
  \/ PointsNext /\ UNCHANGED ballotVars

BallotSpec == BallotInit /\ PointsInit /\ [][BallotNext]_<<ballotVars, pointsVars>>

-----------------------------------------------------------------------------
\* However votes, closings, awards and departures interleave: a decided session is
\* the outcome of a set of votes, one per user, with all votes that came before
\* anybody counted; it passed exactly if their weight is mostly in favour and they are
\* more than half as many as the members then, of which there are some.
VotesCounted ==
  session.status # "open" =>
    \E cast \in SUBSET votes :
      /\ {v \in votes : ~v.late} \subseteq cast
      /\ \A v, w \in votes : v.by = w.by => v = w
      /\ session.result.total = WeightOf(cast)
      /\ session.result.yes = WeightOf({v \in cast : v.yes})
      /\ (session.status = "passed") =
           /\ WeightOf({v \in cast : v.yes}) > WeightOf({v \in cast : ~v.yes})
           /\ 2 * Cardinality(cast) > session.result.members
           /\ session.result.members > 0

=============================================================================
