SPECIFICATION FairSpec
CONSTANTS
  m1 = m1
  p1 = p1
  p2 = p2
  r1 = r1
  r2 = r2
  r3 = r3
  Missions = {m1}
  Providers = {p1, p2}
  Origin <- SharedOrigin
  Issues = {1}
  Amounts = {1, 2}
  Limits = {2, 3}
  Runs = {r1, r2}
  NoMission = NoMission
  NoHash = NoHash
PROPERTIES ReservationsSettle
CHECK_DEADLOCK FALSE
