SPECIFICATION FairSpec
CONSTANTS
  Tasks = {t1}
  Users = {alice, bob}
  Calls = {c1}
  Subs = {s1}
  MaxAuctions = 1
  Attempts = 3
  MaxStalls = 1
  Nobody = Nobody
  Idle = Idle
CHECK_DEADLOCK FALSE
PROPERTY
  ReviewEnds
