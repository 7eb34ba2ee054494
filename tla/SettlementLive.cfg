SPECIFICATION FairSpec
CONSTANTS
  alice = alice
  bob = bob
  Tasks = {t1, t2}
  Users = {alice, bob}
  Calls = {}
  MaxAuctions = 0
  MaxUpdates = 0
  Nobody = Nobody
  Idle = Idle
  Meetings = {m1}
  Sessions = {v1}
  VoteRuns = {}
  MeetingRuns = {mr}
  ProjectRuns = {pr}
  Project = Project
  NoItem = NoItem
  Failures = TRUE
  SessionTasks <- MCSessionTasks
  Score <- MCScore
  Splits <- MCOneSplit
  InitialRows <- MCRows
CHECK_DEADLOCK FALSE
INVARIANTS
  TypeOK
PROPERTY
  MeetingSettled
