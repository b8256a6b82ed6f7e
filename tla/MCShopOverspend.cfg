CONSTANTS
  e1 = e1
  e2 = e2
  e3 = e3
  e4 = e4
  NoEmo = NoEmo
  Bases <- MCBases
  Seeds <- MCSeeds
  StatMax = 9
  PoolBase <- MCPoolBase
  BoardMax = 7
  CatalogCount = 2
  LineSize = 1
  MaxTurn = 3
  MaxOps = 3

SPECIFICATION Spec

INVARIANT PhaseAccepted
CHECK_DEADLOCK FALSE
