SPECIFICATION ProviderSpec
CONSTANTS
  Ttl = 1
  MaxTime = 2
  MaxHeld = 2
  MaxRestarts = 1
INVARIANTS
  DeliveryIsBound
  KnownUntilRestart
