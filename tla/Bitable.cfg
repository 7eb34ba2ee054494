SPECIFICATION MCSpec
CONSTANTS
  b1 = b1
  w1 = w1
  k1 = k1
  Tasks = {t1, t2, t3}
  Rows = {r1, r2, r3}
  Bindings = {b1, b2}
  Workers = {w1, w2}
  Callers = {k1}
  Retries = 2
  Attempts = 2
  MaxEdits = 2
  MaxEvents = 2
  MaxJobs = 1
  MaxBinds = 2
  MaxFaults = 1
  NoTask = NoTask
  NoRow = NoRow
  NoLink = NoLink
  NoCall = NoCall
  NoBinding = NoBinding
INVARIANTS TypeOK StampedIsApplied StraysAreFaults OneTaskPerRow
CHECK_DEADLOCK FALSE
PROPERTIES Converges
