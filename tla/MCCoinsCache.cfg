CONSTANTS
  o1 = o1
  o2 = o2
  c1 = c1
  c2 = c2
  u1 = u1
  b1 = b1
  b2 = b2
  Outpoints = {o1, o2}
  Coins = {c1, c2, u1}
  Unspendable = {u1}
  NoCoin = NoCoin
  Blocks = {b1, b2}
  NoBlock = NoBlock
SPECIFICATION Spec
SYMMETRY Symmetry
INVARIANTS
  DirtyCountExact
PROPERTIES
  ImplementsUtxoStore
  OperationsTakeEffect
