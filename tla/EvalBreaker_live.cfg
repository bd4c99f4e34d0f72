CONSTANTS
  m = m
  t1 = t1
  a1 = a1
  s1 = s1
  h1 = h1
  c1 = c1
  c2 = c2
  c3 = c3
  d1 = d1
  d2 = d2
  Thread = {m, t1}
  Main = m
  NoThread = NoThread
  Agent = {}
  Handler = {}
  Interrupt = {}
  Call = {d1, d2}
  NoCall = NoCall
  MainThreadOnly = {d2}
  NPENDINGCALLS = 2
  Blocking = {}
  Fails = FALSE
  Targets = {}
  Finalizes = FALSE
  Announcers = {"holder"}
SPECIFICATION FairCasesSpec
PROPERTY CallsAreMade
\* Threads may all be out of the interpreter.
CHECK_DEADLOCK FALSE
