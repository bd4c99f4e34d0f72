CONSTANTS
  f1 = f1
  f2 = f2
  c1 = c1
  c2 = c2
  w1 = w1
  w2 = w2
  g1 = g1
  g2 = g2
  g3 = g3
  k1 = k1
  k2 = k2
  k3 = k3
  Work = {f1, f2}
  NoWork = NoWork
  Client = {c1, c2}
  Owner = {c1}
  Asker = {c2}
  Watched = {}
  WaitCalls <- SomeWaits
  Worker = {w1, w2}
  MaxWorkers = 2
  Raises = {TRUE, FALSE}
  NoOne = NoOne
  None = None
  InitializerFails = FALSE
  Ends = TRUE
  Cancels = {TRUE, FALSE}
  MaxWakeUps = 1
  Getter = {g1, g2, g3}
  Interruptible = {g1}
  MaxItems = 4
  Task = {k1, k2, k3}
  MaxNotify = 2
  Initial = 1
  Bounded = FALSE
  MaxExtra = 1
SPECIFICATION LiveSpec
INVARIANTS
  WaitersCount
  SimpleInv
  LockInv
  SemInv
PROPERTIES
  LockInOrder
  WaitEndsLocked
  ItemsAreTaken
  PoolEnds
  AcquiresEnd
\* Clients, getters and tasks may all be done.
CHECK_DEADLOCK FALSE
