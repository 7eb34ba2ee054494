---------------------------- MODULE SkillRegistry ----------------------------
(***************************************************************************)
(* The skill that an 'explore' submission registers: SkillService and the  *)
(* steps of SubmissionService.create that call it.                         *)
(*   The skill is registered before there is a submission row, with a      *)
(* placeholder for its id, and once more afterwards, only to put the id    *)
(* in; each time the version goes up by one.  A registration reads the     *)
(* row by its name and saves it whole.                                     *)
(*   Everything is about one name in one project.  The check of the task   *)
(* and the steps after the submission are in SubmissionReview.             *)
(***************************************************************************)
EXTENDS Naturals, FiniteSets

CONSTANTS
  Explorations,   \* requests with type 'explore', each with a content of its own
  MaxLapses,      \* bound: failed queries and crashes
  Placeholder,    \* 00000000-0000-0000-0000-000000000000
  NoSkill, NoVisit

ASSUME SkillAssumption ==
  IsFiniteSet(Explorations) /\ Placeholder \notin Explorations /\ MaxLapses \in Nat

VARIABLES
  skill,    \* the row [version, content, latest], or NoSkill
  written,  \* [Explorations -> skillVersion of the submission row, 0 when there is none]
  visit,    \* [Explorations -> the request in flight, or NoVisit]
  begun,    \* requests that were ever made
  lapses,
  crossed   \* history: requests during which another one registered, or whose version was reset

skillVars == <<skill, written, visit, begun, lapses, crossed>>

Skill == [version : 1 .. 2 * Cardinality(Explorations), content : Explorations,
          latest : Explorations \cup {Placeholder}]
At == {"called", "found", "registered", "submitted", "looked", "again"}

\* However often the row is saved.
AnySkill == [version : Nat \ {0}, content : Explorations, latest : Explorations \cup {Placeholder}]
Visit == [at : At, row : AnySkill \cup {NoSkill}, seen : Explorations]

ASSUME NothingAssumption == NoSkill \notin AnySkill /\ NoVisit \notin Visit

SkillTypeOK ==
  /\ skill \in Skill \cup {NoSkill}
  /\ written \in [Explorations -> 0 .. 2 * Cardinality(Explorations)]
  /\ visit \in [Explorations ->
       [at : At, row : Skill \cup {NoSkill}, seen : Explorations] \cup {NoVisit}]
  /\ begun \subseteq Explorations /\ crossed \subseteq begun
  /\ lapses \in 0 .. MaxLapses

SkillInit ==
  /\ skill = NoSkill
  /\ written = [x \in Explorations |-> 0]
  /\ visit = [x \in Explorations |-> NoVisit]
  /\ begun = {} /\ crossed = {} /\ lapses = 0

IsAt(x, at) == visit[x] # NoVisit /\ visit[x].at = at

Explore(x) ==
  /\ x \notin begun
  /\ begun' = begun \cup {x}
  /\ visit' = [visit EXCEPT ![x] = [at |-> "called", row |-> NoSkill, seen |-> x]]
  /\ UNCHANGED <<skill, written, lapses, crossed>>

\* registerOrUpdateSkill looks the name up.
FindByName(x, from, to) ==
  /\ IsAt(x, from)
  /\ visit' = [visit EXCEPT ![x].at = to, ![x].row = skill]
  /\ UNCHANGED <<skill, written, begun, lapses, crossed>>

FindFirst(x) == FindByName(x, "called", "found")
FindAgain(x) == FindByName(x, "looked", "again")

\* The requests that a save of x puts in doubt: those between two of their steps, and, when the
\* row is not the one that x has read, all that there have been.
Disturbed(x) ==
  {y \in Explorations \ {x} : visit[y] # NoVisit /\ visit[y].at # "called"}
  \cup (IF skill # visit[x].row THEN begun ELSE {})

\* Defect: only the content is replaced.
VersionKept(row) == IF row = NoSkill THEN 1 ELSE row.version

\* ... and saves the row, or inserts it.
NextVersion(row) == IF row = NoSkill THEN 1 ELSE row.version + 1

Registered(x, latest) ==
  [version |-> NextVersion(visit[x].row), content |-> visit[x].seen, latest |-> latest]

\* The name is unique: a row that came up meanwhile makes the insert fail, and the request with it.
RegisterFirst(x) ==
  /\ IsAt(x, "found")
  /\ IF visit[x].row = NoSkill /\ skill # NoSkill
     THEN visit' = [visit EXCEPT ![x] = NoVisit] /\ UNCHANGED <<skill, crossed>>
     ELSE /\ skill' = Registered(x, Placeholder)
          /\ visit' = [visit EXCEPT ![x].at = "registered", ![x].row = skill']
          /\ crossed' = crossed \cup Disturbed(x)
  /\ UNCHANGED <<written, begun, lapses>>

SaveSubmitted(x) ==
  /\ IsAt(x, "registered")
  /\ written' = [written EXCEPT ![x] = visit[x].row.version]
  /\ visit' = [visit EXCEPT ![x].at = "submitted"]
  /\ UNCHANGED <<skill, begun, lapses, crossed>>

\* The content that is registered again is the one the row has now.
LookAtSkill(x) ==
  /\ IsAt(x, "submitted")
  /\ visit' = [visit EXCEPT ![x].at = "looked", ![x].seen = skill.content]
  /\ UNCHANGED <<skill, written, begun, lapses, crossed>>

RegisterAgain(x) ==
  /\ IsAt(x, "again")
  /\ skill' = Registered(x, x)
  /\ visit' = [visit EXCEPT ![x] = NoVisit]
  /\ crossed' = crossed \cup Disturbed(x)
  /\ UNCHANGED <<written, begun, lapses>>

\* A failed query or a crash; once there is a submission, a failure here is swallowed.
Lapse(x) ==
  /\ visit[x] # NoVisit /\ lapses < MaxLapses
  /\ visit' = [visit EXCEPT ![x] = NoVisit]
  /\ lapses' = lapses + 1
  /\ UNCHANGED <<skill, written, begun, crossed>>

SkillNext ==
  \E x \in Explorations :
    \/ Explore(x) \/ FindFirst(x) \/ RegisterFirst(x) \/ SaveSubmitted(x)
    \/ LookAtSkill(x) \/ FindAgain(x) \/ RegisterAgain(x) \/ Lapse(x)

SkillSpec == SkillInit /\ [][SkillNext]_skillVars

-----------------------------------------------------------------------------

\* A skill names a submission that exists and, as long as no other request registered
\* during that submission, shows its content; submissions during which none did carry
\* versions of their own.
SkillTraced ==
  /\ skill # NoSkill /\ skill.latest # Placeholder =>
       /\ written[skill.latest] # 0
       /\ skill.latest \notin crossed => skill.content = skill.latest
  /\ \A x, y \in Explorations \ crossed :
       x # y /\ written[x] # 0 => written[x] # written[y]

=============================================================================
