SPECIFICATION FairSpec
CONSTANTS
  a = a
  b = b
  t1 = t1
  t2 = t2
  None = None
  Clients <- TwoClients
  Tasks <- TwoTasks
  Ops <- EveryOp
  InitialSize = 1
  Sizes <- OneOrTwo
  MaxWorkers = 2
CHECK_DEADLOCK FALSE
INVARIANTS
  TypeOK
  WaitedIsOver
PROPERTIES
  QueueSpec
  
  
  AbortsReturn
