CONSTANTS
  g = g
  x1 = x1
  x2 = x2
  y1 = y1
  y2 = y2
  Blocks = {g, x1, x2, y1, y2}
  Genesis = g
  None = None
  Parent <- Tree
  Kind = "coinstats"
  MaxMoves = 2
  MaxFlushes = 2
  MaxCrashes = 1
SPECIFICATION Spec
CHECK_DEADLOCK FALSE
INVARIANTS
  MissedCommitHarmless
