CONSTANTS
  f1 = f1
  f2 = f2
  c1 = c1
  c2 = c2
  w1 = w1
  w2 = w2
  u1 = u1
  u2 = u2
  u3 = u3
  k1 = k1
  k2 = k2
  k3 = k3
  Work = {f1, f2}
  NoWork = NoWork
  Client = {c1, c2}
  Owner = {c1}
  Asker = {c2}
  Watched = {f1}
  WaitCalls = {}
  Worker = {w1, w2}
  MaxWorkers = 2
  Raises = {TRUE}
  NoOne = NoOne
  None = None
  InitializerFails = TRUE
  Ends = TRUE
  Cancels = {TRUE, FALSE}
  MaxWakeUps = 1
  User = {u1, u2, u3}
  maxsize = 1
  Signalled = {u1}
  Stale = Stale
  Spent = Spent
  MaxPuts = 2
  Task = {k1, k2, k3}
  asyncMaxsize = 1
  MaxItems = 2
  parties = 3
  o1 = o1
  o2 = o2
  o3 = o3
  r1 = r1
  r2 = r2
  Object = {o1, o2, o3, r1, r2}
  Weakref = {r1, r2}
  NoObject = NoObject
  Heaps <- SomeHeaps
  MakesWeakrefs = FALSE
  MaxCollections = 2
  Programs <- MCPrograms
  MaxLines = 3
SPECIFICATION PartsSpec
INVARIANTS
  PoolInv
  CallbackOnce
  QueueInv
  AsyncQueueInv
  BarInv
  AllPartiesCame
  CollectorInv
  CodeIsSafe
  TrashGone
  Translation
  OutputInv
  EndRule
\* Clients, users and tasks may all be done, the collections over, and the
\* program converted.
CHECK_DEADLOCK FALSE
