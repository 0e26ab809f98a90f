SPECIFICATION FairSpec
CONSTANTS
  d1 = d1  d2 = d2  w1 = w1  s1 = s1  s2 = s2
  Deliveries <- TwoDeliveries
  Workers <- OneWorker
  Schedulers <- TwoSchedulers
  Score <- ScoresDiffer
  MaxRetries = 1
  MaxSends = 1
  MaxOrdinal = 4
  MaxFaults = 2
CHECK_DEADLOCK FALSE
INVARIANTS
  NoSilentDrop
  MostUrgentFirst
  HandedOffTwiceOnlyIfRepeated
PROPERTIES
  KeepsHandOff
  EventuallyHandedOff
