SPECIFICATION Spec
CONSTANTS
  alice = alice
  bob = bob
  Tasks = {t1}
  Users = {alice, bob}
  Calls = {c1}
  MaxAuctions = 0
  MaxUpdates = 0
  Nobody = Nobody
  Idle = Idle
  Meetings = {m1}
  Sessions = {v1}
  VoteRuns = {}
  MeetingRuns = {mr}
  ProjectRuns = {pr}
  Project = Project
  NoItem = NoItem
  Failures = FALSE
  SessionTasks <- MCSessionTasks
  Score <- MCScore
  Splits <- MCSplits
  InitialRows <- MCRows
CHECK_DEADLOCK FALSE
INVARIANT
  ResultPaidOnce
