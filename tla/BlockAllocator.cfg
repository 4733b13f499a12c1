SPECIFICATION FairSpec
CONSTANTS
  t1 = t1
  t2 = t2
  t3 = t3
  b1 = b1
  b2 = b2
  b3 = b3
  b4 = b4
  nullptr = nullptr
  kLockedSentinal_ = kLockedSentinal_
  Junk = Junk
  Threads <- ThreeThreads
  Blocks <- FourBlocks
  Chunks <- ThreeAndOne
CHECK_DEADLOCK FALSE
INVARIANTS
  ListSound
  NothingLost
PROPERTIES
  PoolSpec
  SomeCallEnds
