SPECIFICATION Spec
CONSTANTS
  m1 = m1
  m2 = m2
  p1 = p1
  p2 = p2
  Missions <- MCMissions
  Readers <- MCReaders
  MissionOf <- MCMissionOf
  HeartbeatTicks = 2
  MaxEvents = 3
  MaxDrops = 2
  MaxWire = 2
INVARIANTS
  TypeOK
  ReadInOrder
PROPERTIES
  EventuallyRead
