SPECIFICATION MCSpec
CONSTANTS
  Parts = {"meeting", "feishu", "roles", "grid", "columns", "panes"}
  Consoles = {f1, f2}
  Apps = {x1, x2}
  f2 = f2
  Callers = {y1}
  MaxSaves = 2
  MaxSetupErrors = 1
  RoleIds = {r1, r2}
  SystemRoles = {r1}
  Editors = {n1, n2}
  Shown = {z1}
  Unshown = {z2}
  MaxSelects = 3
  MaxGridSaves = 2
  MaxRoleErrors = 1
  n1 = n1
  n2 = n2
  NoId = NoId
  Waiting = Waiting
  Failed = Failed
  NoGridSave = NoGridSave
  NoSetup = NoSetup
  NoClient = NoClient
  NoCaller = NoCaller
  NoSave = NoSave
  NoAuto = NoAuto
  PaneKeys = {j1, j2}
  PaneItems = {o1, o2}
  FirstKey = j1
  StockedItems = {o1}
  MaxLoads = 2
  MaxAlters = 2
  MaxOpenings = 2
  MaxAlterings = 3
  MaxSlips = 1
  Boards = {b1, b2}
  Fields = {k1}
  Score = Score
  MaxText = 1
  MaxTyped = 2
  MaxScores = 2
  MaxReloads = 1
  NoTyping = NoTyping
  NoReview = NoReview
  Panels = {q1, q2}
  Columns = {l1, l2}
  l1 = l1
  ProjectCalls = {h1}
  MaxClicks = 2
  MaxMounts = 1
  MaxHandled = 1
  NoClick = NoClick
  NoProject = NoProject
  NoPaneKey = NoPaneKey
  NoLoad = NoLoad
  NoAlter = NoAlter
  alice = alice
  bob = bob
  m1 = m1
  p1 = p1
  p2 = p2
  Meetings = {m1}
  Tasks = {t1, t2}
  Users = {alice, bob}
  Calls = {c1, c2}
  Pages = {p1, p2}
  PageUser <- MCPageUser
  PageMeeting <- MCPageMeeting
  Lead = alice
  MaxEmits = 3
  NoCall = NoCall
  NoTask = NoTask
  Nobody = Nobody
CHECK_DEADLOCK FALSE
INVARIANTS
  ScreensTypeOK
  TriggeredOnce
  ConfirmedIsRecorded
  ParticipantsCounted
  
  EditsKept
  ShownIsCurrent
