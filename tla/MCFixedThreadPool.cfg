SPECIFICATION Spec
CONSTANTS
  w1 = w1
  w2 = w2
  w3 = w3
  a = a
  b = b
  t1 = t1
  t2 = t2
  t3 = t3
  t4 = t4
  Owner = Owner
  NoThread = NoThread
  NoTask = NoTask
  Workers <- PoolWorkers
  Clients <- PoolClients
  Tasks <- PoolTasks
  Throwing <- PoolThrowing
INVARIANTS
  TypeOK
  NoLostWakeup
  Drained
  NobodySleeps
PROPERTIES
  ImplementsTaskPool
  WorkersLeave
\* The program ends, or its workers sleep when nothing is left to do.
CHECK_DEADLOCK FALSE
