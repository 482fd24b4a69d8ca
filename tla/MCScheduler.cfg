CONSTANTS
  s1 = s1
  s2 = s2
  c1 = c1
  c2 = c2
  Servers = {s1, s2}
  Clients = {c1, c2}
  Main = Main
  Period = 1
  MaxCallbacks = 2
  MaxTime = 1
SPECIFICATION FairSpec
CHECK_DEADLOCK FALSE
INVARIANTS
  FlushAlone
PROPERTIES
  ImplementsSerialQueue
  EveryCallbackRuns
  ShutdownCompletes
