SPECIFICATION Spec
CONSTANTS
  g = g
  a1 = a1
  a2 = a2
  b1 = b1
  b2 = b2
  b3 = b3
  c2 = c2
  NoBlock = NoBlock
  Genesis = g
  Blocks <- TreeBlocks
  Parent <- TreeParent
  Proof <- TreeProof
  Addr <- TreeAddr
  Batch = 2
  MinReverse <- LeastReverse
  Worlds <- Commanded
CHECK_DEADLOCK FALSE
INVARIANTS
  
  
  BestHeaderBest
  ActiveChainSound
  
  TargetStaysUsable
PROPERTIES
  SortKeysStable
