SPECIFICATION FairSpec
CONSTANTS
  a = a
  b = b
  None = None
  Clients <- TwoClients
  Ops <- EveryOp
  Impatient <- OnlyB
  Tracing = FALSE
  MaxInterrupts = 2
CHECK_DEADLOCK FALSE
INVARIANTS
  TypeOK
  AbortNotLost
  InterruptedNoMoreThanAsked
  RepOutlivesUse
PROPERTIES
  LifeSpec
  AbortCompletes
  AbortAndWaitReturns
  JoinReturns
