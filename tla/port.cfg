SPECIFICATION FairSpec
CONSTANTS
  t1 = t1  t2 = t2  t3 = t3
  Trains <- ThreeTrains
  NP = 2
  QueueSlots = 3
  MaxQuits = 1
  MaxBindFailures = 1
  NoTrain = NoTrain
  NoBerth = NoBerth
INVARIANTS StationInv StrandedOnlyByMissOrLeak
PROPERTIES YardSpec EveryTrainLeaves
\* The supply of trains is finite, and lost trains end a visit early.
CHECK_DEADLOCK FALSE
