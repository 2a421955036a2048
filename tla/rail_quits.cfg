SPECIFICATION Spec
CONSTANTS
  t1 = t1  t2 = t2  t3 = t3
  p1 = p1  p2 = p2
  Trains <- ThreeTrains
  Platforms <- TwoPlatforms
  NP = 2
  QueueSlots = 3
  MaxQuits = 1
  NoTrain = NoTrain
  NoBerth = NoBerth
SYMMETRY AnyNames
INVARIANTS TypeOK QueueDiscipline DeathNeedsACause EveryPlatformFindsASlot
  AnnouncedWhereServed
PROPERTIES YardSpec
\* The supply of trains is finite, and a station may hang: that is no error.
CHECK_DEADLOCK FALSE
