SPECIFICATION MCSpec
CONSTANTS
  Parts = {"auction", "ballot", "dividend", "code", "registration", "directory", "departments", "chat", "skill"}
  u1 = u1
  u2 = u2
  Users = {u1, u2}
  Bidders = {u1, u2}
  Nobody = Nobody
  NoRequest = NoRequest
  NoBallot = NoBallot
  Unsigned = Unsigned
  NoDraft = NoDraft
  NoVerification = NoVerification
  Auctions = {a1}
  Tasks = {t1}
  Calls = {c1, c2}
  w2 = w2
  Closers = {w1, w2}
  Amounts = {0, 1}
  Attempts = 2
  MaxCalls = 3
  MaxFaults = 2
  NoTask = NoTask
  Awards = {1, 4}
  CyclesPerStep = 1
  MaxSteps = 2
  MaxRecords = 2
  MaxRound = 1
  b1 = b1
  b2 = b2
  b3 = b3
  Tabs = {b1, b2, b3}
  TabOf <- MCTabOf
  Managers = {u1}
  NoPage = NoPage
  NoResult = NoResult
  Officers = {d1, d2}
  Totals = {1555}
  Unset = Unset
  NoRow = NoRow
  g1 = g1
  g2 = g2
  Categories = {g1, g2}
  PrefixOf <- MCPrefixOf
  Clerks = {k1, k2, k3}
  MaxSeq = 2
  NoClerk = NoClerk
  Slugs = {s1}
  m1 = m1
  Mails = {m1}
  Emails = {m1, m2}
  Keys = {i1, i2}
  Verifications = {v1, v2}
  MaxResends = 1
  MaxGivenUp = 1
  NoKey = NoKey
  p1 = p1
  p2 = p2
  People = {p1, p2}
  MailOf <- MCMailOf
  Workers = {w1, w2}
  MaxChanges = 3
  MaxErrors = 1
  NoPerson = NoPerson
  NoWork = NoWork
  Depts = {e1, e2}
  DeptWriters = {w1, w2}
  MaxMoves = 2
  MaxDeptErrors = 1
  Top = Top
  Gone = Gone
  NoDept = NoDept
  NoRun = NoRun
  Chats = {h1, h2}
  Streams = {q1, q2}
  HistoryTurns = 2
  MaxTurns = 4
  NoChat = NoChat
  NoStream = NoStream
  Explorations = {x1, x2, x3}
  MaxLapses = 1
  Placeholder = Placeholder
  NoSkill = NoSkill
  NoVisit = NoVisit
INVARIANTS TypeOK HighestWins VotesCounted   ResignedLeft MendedIsShown AnswerKept SkillTraced
CHECK_DEADLOCK FALSE
PROPERTIES AuctionsEnd CodesInTurn
