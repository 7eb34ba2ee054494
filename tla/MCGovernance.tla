----------------------------- MODULE MCGovernance -----------------------------
(* The parts around the tasks that share no state, each on a small instance: one *)
(* of them runs, the variables of the others keep their initial values.          *)
EXTENDS Auction, Ballot, Dividend, AssetCode, Registration, Directory, Departments,
        Conversation, SkillRegistry, TLC

CONSTANTS u1, u2, b1, b2, b3, g1, g2, p1, p2, m1, w2

CONSTANT Parts  \* the parts that run

VARIABLE part

coreVars == <<auctionVars, pointsVars, ballotVars, dividendVars, codeVars,
              registrationVars, directoryVars, deptVars, chatVars, skillVars>>

mcVars == <<part, coreVars>>

MCTabOf    == (b1 :> u1) @@ (b2 :> u1) @@ (b3 :> u2)
MCPrefixOf == (g1 :> "IT") @@ (g2 :> "IT")
MCMailOf   == (p1 :> m1) @@ (p2 :> m1)

MCInit ==
  /\ part \in Parts
  /\ AuctionInit /\ PointsInit /\ BallotInit /\ DividendInit /\ CodeInit
  /\ RegistrationInit /\ DirectoryInit /\ DeptInit /\ ChatInit /\ SkillInit
  /\ part # "directory" => \A a \in Addresses : row[a].role = "absent"
  /\ part # "departments" => \A d \in Depts : chart[d] = Top

\* The least bid is 0; two faults come with two calls at most.
AuctionPart ==
  /\ AuctionNext
  /\ mishaps' <= 1 \/ requests' <= 2
  /\ \A a \in Auctions : auction'[a].minBid = 0
  /\ UNCHANGED <<pointsVars, ballotVars, dividendVars, codeVars, registrationVars, directoryVars, deptVars, chatVars, skillVars>>

\* One award in the first round, or one departure.
BallotPart ==
  /\ BallotNext
  /\ round' = 0 /\ Len(records') + Cardinality(Users \ members') <= 1
  /\ UNCHANGED <<auctionVars, dividendVars, codeVars, registrationVars, directoryVars, deptVars, chatVars, skillVars>>

DividendPart ==
  /\ DividendNext
  /\ UNCHANGED <<auctionVars, ballotVars, codeVars, registrationVars, directoryVars, deptVars, chatVars, skillVars>>

CodePart ==
  /\ CodeNext
  /\ UNCHANGED <<auctionVars, pointsVars, ballotVars, dividendVars, registrationVars, directoryVars, deptVars, chatVars, skillVars>>

RegistrationPart ==
  /\ RegistrationNext
  /\ UNCHANGED <<auctionVars, pointsVars, ballotVars, dividendVars, codeVars, directoryVars, deptVars, chatVars, skillVars>>

\* Two changes or errors, or three changes while one worker works.
DirectoryPart ==
  /\ DirectoryNext
  /\ changes' + errors' <= 2 \/ (errors' = 0 /\ work'[w2] = NoWork)
  /\ UNCHANGED <<auctionVars, pointsVars, ballotVars, dividendVars, codeVars, registrationVars, deptVars, chatVars, skillVars>>

\* Two runs at a time with one move or error at most.
DepartmentsPart ==
  /\ DeptNext
  /\ \/ moves' + deptErrors' <= 1
     \/ moves' + deptErrors' = 2 /\ deptRun'[w2] = NoRun
  /\ UNCHANGED <<auctionVars, pointsVars, ballotVars, dividendVars, codeVars, registrationVars,
                 directoryVars, chatVars, skillVars>>

ChatPart ==
  /\ ChatNext
  /\ UNCHANGED <<auctionVars, pointsVars, ballotVars, dividendVars, codeVars, registrationVars,
                 directoryVars, deptVars, skillVars>>

SkillPart ==
  /\ SkillNext
  /\ UNCHANGED <<auctionVars, pointsVars, ballotVars, dividendVars, codeVars, registrationVars,
                 directoryVars, deptVars, chatVars>>

MCNext ==
  /\ part' = part
  /\ \/ part = "auction" /\ AuctionPart
     \/ part = "ballot" /\ BallotPart
     \/ part = "dividend" /\ DividendPart
     \/ part = "code" /\ CodePart
     \/ part = "registration" /\ RegistrationPart
     \/ part = "directory" /\ DirectoryPart
     \/ part = "departments" /\ DepartmentsPart
     \/ part = "chat" /\ ChatPart
     \/ part = "skill" /\ SkillPart

MCSpec == MCInit /\ [][MCNext]_mcVars /\ AuctionFairness

\* The rows of every part stay within what its handlers can read.
TypeOK ==
  /\ AuctionTypeOK /\ PointsTypeOK /\ BallotTypeOK /\ DividendTypeOK
  /\ CodeTypeOK /\ RegistrationTypeOK /\ DirectoryTypeOK /\ DeptTypeOK /\ ChatTypeOK
  /\ SkillTypeOK

\* annealing.ts against its reference, at and around every step boundary; what a record
\* keeps never grows; the divisor that is shown fits what is kept.
ASSUME Annealing ==
  \A points \in 0 .. 40, acquired \in 0 .. 2, current \in 0 .. 9, cycles \in 1 .. 3, steps \in 0 .. 4 :
    LET worth == ActivePoints(points, acquired, current, cycles, steps)
        complete == IF current > acquired THEN Tier(acquired, current, cycles) ELSE 0
    IN /\ worth = IF current > acquired /\ complete >= steps THEN 0 ELSE Melted[complete][points]
       /\ ActivePoints(points, acquired, current + 1, cycles, steps) <= worth
       /\ worth > 0 => worth = points \div DivisorForRound(acquired, current, cycles)

=============================================================================
