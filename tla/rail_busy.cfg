SPECIFICATION BootedSpec
CONSTANTS
  t1 = t1  t2 = t2  t3 = t3
  p1 = p1  p2 = p2
  Trains <- ThreeTrains
  Platforms <- TwoPlatforms
  NP = 2
  QueueSlots = 3
  MaxQuits = 0
  NoTrain = NoTrain
  NoBerth = NoBerth
INVARIANTS FlagTellsTheTruth OverbookedOnlyByRace StrandedOnlyByMissedWakeup
PROPERTIES EveryTrainLeaves
\* The supply of trains is finite, and a station may hang: that is no error.
CHECK_DEADLOCK FALSE
