\* One claim or one asset, two instances, two deciders, two pages or workers.
SPECIFICATION MCSpec
CONSTANTS
  c1 = c1
  a1 = a1
  Instances = {i1, i2}
  Deciders = {d1, d2}
  Business = {c1, a1}
  BusinessType <- MCBusinessType
  Claims = {c1}
  Purchases = {c1}
  Pages = {own, office}
  Owners = {own}
  Assets = {a1}
  Workers = {w1, w2}
  Edits <- MCEdits
  MaxConfigs = 1
  MaxDecisions = 2
  MaxClicks = 4
  Existing <- MCExisting
  HandSet = {"active"}
  Dates = {}
  MaxWork = 2
  MaxLost = 1
  NoCall = NoCall
  Nothing = Nothing
INVARIANTS TypeOK  AnnouncedOnce ClaimFollowsApproval
PROPERTIES DisposedIsFinal
SYMMETRY Symmetry
CHECK_DEADLOCK FALSE
