CONSTANTS
  g = g
  a1 = a1
  a2 = a2
  b1 = b1
  b2 = b2
  b3 = b3
  c2 = c2
  c3 = c3
  ka = ka
  t1 = t1
  t2 = t2
  t3 = t3
  t4 = t4
  t5 = t5
  t6 = t6
  t7 = t7
  t8 = t8
  Blocks <- TreeBlocks
  Genesis = g
  Parent <- TreeParent
  Valid = {g, a1, a2, b1, c2, c3}
  Txs <- AllTxs
  Coinbase = {ka}
  In <- TxIn
  Out <- TxOut
  Vtx <- TreeVtx
  Funds = {"f1", "f2"}
  Standard = {t1, t2, t3, t4, t5, t7, t8}
  Maturity = 2
  MaxQueued = 4
SPECIFICATION Spec
CHECK_DEADLOCK FALSE
INVARIANTS
  MempoolFits
PROPERTIES
  NothingLost
