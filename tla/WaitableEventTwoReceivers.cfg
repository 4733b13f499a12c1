SPECIFICATION Spec
CONSTANTS
  w1 = w1
  w2 = w2
  s1 = s1
  manual = manual
  auto = auto
  None = None
  Threads <- TwoWaitersAndSetter
  Waiters <- TwoWaiters
  Events <- AutoOnly
  AutoReset <- AutoOnly
  Kinds <- ReceivingSeveral
  Modes <- FiniteOnly
INVARIANTS
  AllStillSet
