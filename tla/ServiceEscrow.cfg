SPECIFICATION Spec
CONSTANTS
  Contexts = {h1, h2, h3}
  Addresses = {a1, a2}
  Amounts = {1, 2}
INVARIANTS TypeOK Solvent ReturnedOnce RefundsDoNotNest
PROPERTIES ImplementsLifecycle
CHECK_DEADLOCK FALSE
