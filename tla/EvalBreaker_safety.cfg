CONSTANTS
  m = m
  t1 = t1
  a1 = a1
  s1 = s1
  h1 = h1
  c1 = c1
  c2 = c2
  c3 = c3
  d1 = d1
  d2 = d2
  Thread = {m, t1}
  Main = m
  NoThread = NoThread
  Agent = {a1, s1, h1}
  Handler = {s1, h1}
  Interrupt = {h1}
  Call = {c1, c2, c3, d1, d2}
  NoCall = NoCall
  MainThreadOnly = {d2}
  NPENDINGCALLS = 3
  Blocking = {m}
  Fails = TRUE
  Targets = {m, t1}
  Finalizes = TRUE
  Announcers = {"caller", "holder", "blocker", "signals", "signal, blocked", "interrupt, blocked"}
SPECIFICATION CasesSpec
INVARIANTS
  TypeOK
  CallsInv
  InterpSignalled
  SignalKept
  HolderCovered
SYMMETRY CallSymmetry
\* Threads may all be out of the interpreter.
CHECK_DEADLOCK FALSE
