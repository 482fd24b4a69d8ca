CONSTANTS
  Workers = {w1, w2}
  Master = Master
  BatchSize = 2
  AddSizes = {1, 2, 4}
  Load <- BigThenSmall
SPECIFICATION FairSpec
CHECK_DEADLOCK FALSE
INVARIANTS
  ResultOfThisBlock
  NothingLeftBehind
PROPERTIES
  CompleteReturns
  PoolStops
