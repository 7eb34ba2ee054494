-------------------------------- MODULE Points --------------------------------
(***************************************************************************)
(* Points that melt: backend/src/points.  A record keeps the points it was *)
(* awarded and the round of the award; what is left of them (the active    *)
(* points) follows from the settlement round of the project.  Votes are    *)
(* weighted and dividends are shared by active points.                     *)
(*   Awards and rounds come from settlements (module Settlement): here     *)
(* they are steps of the surroundings.                                     *)
(***************************************************************************)
EXTENDS Naturals, FiniteSets, FiniteSetsExt, Sequences

CONSTANTS
  Users,
  Awards,         \* points a settlement may award
  CyclesPerStep, MaxSteps,  \* the project's annealingConfig
  MaxRecords,     \* bound: awards
  MaxRound        \* bound: rounds settled

ASSUME PointsAssumption ==
  /\ IsFiniteSet(Users) /\ Awards \subseteq Nat /\ CyclesPerStep \in Nat \ {0} /\ MaxSteps \in Nat /\ MaxRecords \in Nat /\ MaxRound \in Nat

VARIABLES
  records,  \* the rows of point_records, as they were awarded
  round,    \* the project's settlementRound
  members   \* users that are members of the project

pointsVars == <<records, round, members>>

PointsTypeOK ==
  /\ records \in Seq([user : Users, points : Awards, round : 0 .. MaxRound]) /\ Len(records) <= MaxRecords
  /\ round \in 0 .. MaxRound
  /\ members \subseteq Users

PointsInit == records = <<>> /\ round = 0 /\ members = Users

-----------------------------------------------------------------------------
(* annealing.ts                                                             *)

Tier(acquired, current, cycles) == (current - acquired) \div cycles

\* Math.pow(3, n)
PowerOfThree[n \in Nat] == IF n = 0 THEN 1 ELSE 3 * PowerOfThree[n - 1]

\* calculateActivePoints
ActivePoints(points, acquired, current, cycles, steps) ==
  IF current <= acquired THEN points
  ELSE IF Tier(acquired, current, cycles) >= steps THEN 0
  ELSE points \div PowerOfThree[Tier(acquired, current, cycles)]

\* calculateNForRound
DivisorForRound(acquired, current, cycles) ==
  IF current <= acquired THEN 1 ELSE PowerOfThree[Tier(acquired, current, cycles)]

\* Reference: a third is left, rounded down, each time another step is complete.
Melted[steps \in Nat] ==
  [points \in Nat |-> IF steps = 0 THEN points ELSE Melted[steps - 1][points] \div 3]

-----------------------------------------------------------------------------
(* points.service.ts                                                        *)

Active(r) == ActivePoints(records[r].points, records[r].round, round, CyclesPerStep, MaxSteps)

RecordsOf(u) == {r \in DOMAIN records : records[r].user = u}

\* getUserPointsInProject: all that was awarded, and what is left.
PointsInProject(u) ==
  [original |-> MapThenSumSet(LAMBDA r : records[r].points, RecordsOf(u)),
   active   |-> MapThenSumSet(Active, RecordsOf(u))]

\* getAllMembersActivePoints: records of users that are no members (any more) are skipped.
MembersActive == [u \in members |-> PointsInProject(u).active]

TotalActive == MapThenSumSet(LAMBDA u : MembersActive[u], members)

\* getProjectPointsTable: a member's share as a pair of integers, 0 of 1 when nothing is left.
Share(u) == IF TotalActive > 0 THEN <<MembersActive[u], TotalActive>> ELSE <<0, 1>>

PointsTable == [u \in members |-> [points |-> PointsInProject(u), ratio |-> Share(u)]]

-----------------------------------------------------------------------------
(* The surroundings.                                                        *)

\* awardPoints, by a settlement of the current round.
Award(u, points) ==
  /\ Len(records) < MaxRecords
  /\ records' = Append(records, [user |-> u, points |-> points, round |-> round])
  /\ UNCHANGED <<round, members>>

NextRound ==
  /\ round < MaxRound
  /\ round' = round + 1
  /\ UNCHANGED <<records, members>>

Leave(u) ==
  /\ u \in members
  /\ members' = members \ {u}
  /\ UNCHANGED <<records, round>>

PointsNext ==
  \/ \E u \in Users, points \in Awards : Award(u, points)
  \/ NextRound
  \/ \E u \in Users : Leave(u)

=============================================================================
