SPECIFICATION Spec
CONSTANTS
  a = a
  b = b
  t1 = t1
  t2 = t2
  None = None
  Clients <- TwoClients
  Tasks <- TwoTasks
  Ops <- ShrinkAndDestroy
  InitialSize = 2
  Sizes <- JustOne
  MaxWorkers = 2
CHECK_DEADLOCK FALSE
INVARIANTS
  DestroyedMeansStopped
