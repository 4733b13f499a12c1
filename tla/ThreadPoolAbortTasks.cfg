SPECIFICATION FairSpec
CONSTANTS
  a = a
  b = b
  t1 = t1
  t2 = t2
  None = None
  Clients <- TwoClients
  Tasks <- TwoTasks
  Ops <- AddAndAbortTasks
  InitialSize = 1
  Sizes <- JustOne
  MaxWorkers = 3
CHECK_DEADLOCK FALSE
PROPERTIES
  AbortTasksReturns
