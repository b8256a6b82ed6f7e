CONSTANTS
  Bases <- MCBases
  Matchups <- MCMatchups
  Learnable <- MCLearnable
  BoardMax = 7
  StatMax = 65535
  TickMax = 15
  OverlapMax = 10
  PlayMax = 2

SPECIFICATION ReplaySpec

CHECK_DEADLOCK FALSE

INVARIANTS
  TypeOK
  CountsFit
  TurnsKept
  ShownAsFought
  AlonePlayGoesThrough

 
