SPECIFICATION Spec
CONSTANTS
  m1 = m1
  p1 = p1
  p2 = p2
  r1 = r1
  r2 = r2
  r3 = r3
  Missions = {m1}
  Providers = {p1, p2}
  Origin <- DistinctOrigins
  Issues = {1, 2}
  Amounts = {1, 2}
  Limits = {2, 3}
  Runs = {r1, r2, r3}
  NoMission = NoMission
  NoHash = NoHash
SYMMETRY RunSymmetry
INVARIANTS TypeOK AtMostOneSubmission NoOrphanQuote TablesAgree DoneIsSettled
  PaidStaysCounted EventBeforeSettlement
PROPERTIES BudgetHeld RowsNeverRevived
CHECK_DEADLOCK FALSE
