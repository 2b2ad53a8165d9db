CONSTANTS
  None = None
  Many = 9
SPECIFICATION LabSpec
INVARIANTS BlockedWhereClaimed NoFreeRide
