SPECIFICATION FairSpec
CONSTANTS
  p = p
  c1 = c1
  c2 = c2
  Threads <- ProducerAndConsumers
  Ops <- Mixed
  MaxItems = 3
CHECK_DEADLOCK FALSE
INVARIANTS
  TypeOK
  NoSleeperMissed
PROPERTIES
  EndableSpec
  EndReachesAll
  ElementReachesSleeper
