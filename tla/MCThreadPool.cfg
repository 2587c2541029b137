SPECIFICATION FairPoolSpec
CONSTANTS
  w1 = w1
  w2 = w2
  k1 = k1
  k2 = k2
  Free = Free
  NoTask = NoTask
  Worker <- Workers
  Client <- Clients
  MaxTasks = 3
INVARIANTS
  PoolTypeOK
  TasksConserved
PROPERTIES
  WaitAllWaits
  DestructorReturns
  PoolRunsTasks
CHECK_DEADLOCK FALSE
