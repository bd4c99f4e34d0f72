CONSTANTS
  m = m
  a1 = a1
  c1 = c1
  Thread = {m}
  Main = m
  NoThread = NoThread
  Agent = {a1}
  Handler = {}
  Interrupt = {}
  Call = {c1}
  NoCall = NoCall
  MainThreadOnly = {c1}
  NPENDINGCALLS = 2
  Blocking = {}
  Fails = FALSE
  Targets = {}
  Finalizes = FALSE
SPECIFICATION FairSpec
PROPERTY CallsAreMade
\* Threads may all be out of the interpreter.
CHECK_DEADLOCK FALSE
