CONSTANTS
  p1 = p1
  p2 = p2
  p3 = p3
  p4 = p4
  Accounts = {p1, p2, p3, p4}
  PoolSize = 2
  PlayerEps = {50, 150, 250}
  LeaderboardSize = 3
  MaxBlock = 1
  BlockTxs = 3

SPECIFICATION Spec

INVARIANTS
  PoolCoherent
  NearestRivals
  RanksOrdered
  RanksTheBest

PROPERTIES
  StoreImplemented
  OthersKeepRank
CHECK_DEADLOCK FALSE
SYMMETRY Symmetry
