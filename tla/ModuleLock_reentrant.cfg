CONSTANTS
  t1 = t1
  t2 = t2
  t3 = t3
  l1 = l1
  l2 = l2
  l3 = l3
  Thread = {t1, t2, t3}
  NoThread = NoThread
  Lock = {l1, l2, l3}
  MaxDepth = 2
  Interrupts = {"leave"}
SPECIFICATION Spec
INVARIANT NoDeadlock
SYMMETRY Symmetry
\* Threads that deadlock in the import system stop.
CHECK_DEADLOCK FALSE
