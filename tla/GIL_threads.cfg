CONSTANTS
  m = m
  t1 = t1
  t2 = t2
  t3 = t3
  main = main
  sub = sub
  Thread = {m, t1, t2, t3}
  Interp = {main, sub}
  InterpOf <- TwoInterps
  Main = m
  NoThread = NoThread
  Blocking = {m, t1, t2}
  Finalizes = TRUE
SPECIFICATION CrewSpec
INVARIANTS
  TypeOK
  GilExclusion
  ForcedSwitch
  RequestsKept
  FinalizerRunsAlone
  OneComputer
PROPERTIES
  ImplementsAbstract
  AlikeServed
\* Threads exit, and the process may end.
CHECK_DEADLOCK FALSE
