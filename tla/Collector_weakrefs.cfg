CONSTANTS
  o1 = o1
  o2 = o2
  o3 = o3
  r1 = r1
  r2 = r2
  Object = {o1, o2, o3, r1, r2}
  Weakref = {r1, r2}
  NoObject = NoObject
  Heaps <- SomeHeaps
  MakesWeakrefs = TRUE
  MaxCollections = 1
SPECIFICATION CollectorSpec
INVARIANT CodeIsSafe
CHECK_DEADLOCK FALSE
