SPECIFICATION Spec
CONSTANTS
  Tasks = {t1}
  Users = {alice, bob}
  Calls = {c1}
  Subs = {s1}
  MaxAuctions = 1
  Attempts = 1
  MaxStalls = 0
  Nobody = Nobody
  Idle = Idle
CHECK_DEADLOCK FALSE
PROPERTY
  TerminalIsFinal
