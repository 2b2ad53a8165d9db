CONSTANTS
  Contexts = {c1}
  Resources = {r1}
  Audits = {a1, a2}
  Keys = {k1, k2}
  Registered = k1
  MaxTime = 1
  MaxDuals = 2
  None = None
SPECIFICATION Spec
INVARIANTS AcceptsExactly AcceptedTellsAll DenialIsRefundable OneDualPerDelivery
CHECK_DEADLOCK FALSE
