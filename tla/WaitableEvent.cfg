SPECIFICATION FairSpec
CONSTANTS
  w1 = w1
  w2 = w2
  s1 = s1
  manual = manual
  auto = auto
  None = None
  Threads <- TwoWaiters
  Waiters <- TwoWaiters
  Events <- BothEvents
  AutoReset <- AutoOnly
  Kinds <- EveryKind
  Modes <- FiniteOnly
INVARIANTS
  TypeOK
  NoLostWakeup
  RegistrationsLast
  ResultIsReal
PROPERTIES
  SetReachesWaitForAny
  InterruptEndsWait
