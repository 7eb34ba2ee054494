SPECIFICATION Spec
CONSTANTS
  Tasks = {t1}
  Users = {alice, bob}
  Calls = {c1}
  Subs = {s1, s2}
  MaxAuctions = 1
  Attempts = 2
  MaxStalls = 1
  Nobody = Nobody
  Idle = Idle
CHECK_DEADLOCK FALSE
SYMMETRY Symmetry
INVARIANTS
  TypeOK
  
  OneReview
PROPERTY
  NoReturn
