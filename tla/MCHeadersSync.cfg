CONSTANTS
  Width = 14
  FracBits = 4
  ByteBits = 2
  PowLimit = 60
  AnchorBits <- LimitBits
  Spacing = 2
  HalfLife = 3
  Cubic <- CubicCoefficients
  Period = 2
  BufferSize = 1
  MaxResults = 2
  MinWork = 1300
  BlocksPerSecond = 2
  MaxSeconds = 2
  SaltedBit <- Parity
  MaxHeight = 6
  Steps = {0, 3}
  WrongBits <- EasyBits
  MaxReorgs = 1
SPECIFICATION FairSpec
CHECK_DEADLOCK FALSE
INVARIANTS
  ReleasedIsChain
  ReleasedIsCovered
  MemoryBounded
PROPERTIES
  HonestCompletes
