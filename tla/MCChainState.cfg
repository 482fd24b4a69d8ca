SPECIFICATION FairSpec
CONSTANTS
  g = g
  a1 = a1
  a2 = a2
  b1 = b1
  b2 = b2
  b3 = b3
  c2 = c2
  NoBlock = NoBlock
  Genesis = g
  Blocks <- TreeBlocks
  Parent <- TreeParent
  Proof <- TreeProof
  Addr <- TreeAddr
  Batch = 2
  MinReverse <- LeastReverse
  Worlds <- Quiet
CHECK_DEADLOCK FALSE
PROPERTIES
  VisibleTipNeverWorse
  ValidChainActivated
