SPECIFICATION FairSpec
CONSTANTS
  c1 = c1
  c2 = c2
  w1 = w1
  Listener = Listener
  None = None
  Connections <- TwoConnections
  Workers <- OneWorker
  HandlerLeaves <- ResponseStates
  Sends <- WholeOrSplit
  MaxRequests <- OneEach
CHECK_DEADLOCK FALSE
INVARIANTS
  OneHolder
  WakeupOwed
PROPERTIES
  RepliesSpec
  ReadInTheEnd
