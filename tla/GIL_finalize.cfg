CONSTANTS
  m = m
  t1 = t1
  t2 = t2
  main = main
  sub = sub
  Thread = {m, t1}
  Interp = {main}
  InterpOf <- OneInterp
  Main = m
  NoThread = NoThread
  Blocking = {}
  Finalizes = TRUE
SPECIFICATION FairSpec
PROPERTY DropGilReturns
CHECK_DEADLOCK FALSE
