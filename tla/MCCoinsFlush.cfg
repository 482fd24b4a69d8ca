CONSTANTS
  g = g
  a1 = a1
  a2 = a2
  b1 = b1
  b2 = b2
  c1 = c1
  c2 = c2
  c3 = c3
  c4 = c4
  x = x
  y = y
  z = z
  NoBlock = NoBlock
  Genesis = g
  Blocks <- AllBlocks
  Parent <- TreeParent
  Txs <- TreeTxs
  Outpoints = {x, y, z}
  KeepBlocks = 2
  MaxUnflushed = 2
  Worlds <- CrashesAndDiskFaults
SPECIFICATION FairSpec
INVARIANTS
  ExactWithoutWriteErrors
  TransitionMixesTwoTips
  
  
PROPERTIES
  RecoveryCompletes
