SPECIFICATION FairSpec
CONSTANTS
  Tasks = {t1}
  Users = {alice}
  Calls = {c1}
  Subs = {s1}
  MaxAuctions = 0
  Attempts = 1
  MaxStalls = 0
  Nobody = Nobody
  Idle = Idle
CHECK_DEADLOCK FALSE
PROPERTY
  CompletionRecorded
