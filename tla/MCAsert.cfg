CONSTANTS
  Width = 14
  FracBits = 4
  ByteBits = 2
  PowLimit = 480
  AnchorBits <- AnchorTarget60
  Spacing = 2
  HalfLife = 3
  Cubic <- CubicCoefficients
  MaxHeight = 6
  Times <- TimeRange
SPECIFICATION Spec
CHECK_DEADLOCK FALSE
INVARIANTS
  BitsLegal
  DoublesPerHalfLife
PROPERTIES
  LateNeverHarder
