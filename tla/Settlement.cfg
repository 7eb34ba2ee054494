SPECIFICATION Spec
CONSTANTS
  alice = alice
  bob = bob
  Tasks = {t1}
  Users = {alice, bob}
  Calls = {c1}
  MaxAuctions = 0
  MaxUpdates = 1
  Nobody = Nobody
  Idle = Idle
  Meetings = {m1}
  Sessions = {v1}
  VoteRuns = {vr}
  MeetingRuns = {mr}
  ProjectRuns = {}
  Project = Project
  NoItem = NoItem
  Failures = TRUE
  SessionTasks <- MCSessionTasks
  Score <- MCScore
  Splits <- MCSplits
  InitialRows <- MCRows
CHECK_DEADLOCK FALSE
INVARIANTS
  PayeesMatchLedger
  TotalMatchesLedger
  PaymentOrder
  RoundsDistinct
PROPERTY
  KeepsBook
