CONSTANTS
  t1 = t1
  t2 = t2
  t3 = t3
  l1 = l1
  l2 = l2
  l3 = l3
  Thread = {t1, t2, t3}
  NoThread = NoThread
  Lock = {l1, l2, l3}
  MaxDepth = 2
  Interrupts = {"try", "wait"}
SPECIFICATION Spec
INVARIANTS
  TypeOK
  Ownership
  NoLostWakeup
  NoDeadlock
PROPERTY AlarmNeedsLock
SYMMETRY Symmetry
