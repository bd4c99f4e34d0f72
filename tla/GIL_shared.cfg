CONSTANTS
  m = m
  t1 = t1
  t2 = t2
  main = main
  sub = sub
  Thread = {m, t2}
  Interp = {main, sub}
  InterpOf <- TwoInterps
  Main = m
  NoThread = NoThread
  Blocking = {}
  Finalizes = FALSE
SPECIFICATION FairSpec
PROPERTY HandsOver
CHECK_DEADLOCK FALSE
