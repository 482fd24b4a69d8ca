CONSTANTS
  p1 = p1
  p2 = p2
  p3 = p3
  t1 = t1
  t2 = t2
  Peers = {p1, p2, p3}
  Txs = {t1, t2}
  Priority <- PriorityOf
  Announcers <- AnnouncersOf
  Times = {1, 2, 3}
  NoCall = NoCall
SPECIFICATION Spec
INVARIANTS
  IndexSane
PROPERTIES
  ImplementsRules
