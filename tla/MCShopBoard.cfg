CONSTANTS
  Bases <- MCBases
  Worlds <- MCWorlds
  Seeds <- MCSeeds
  BoardMax = 5
  StatMax = 20
  Budget = 4

SPECIFICATION DebugSpec

CHECK_DEADLOCK FALSE

INVARIANTS
  TypeOK
  OperationsSucceed
  AtMostTwoAlike
  ShownAsSet
  
