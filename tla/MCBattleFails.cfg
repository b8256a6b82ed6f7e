CONSTANTS
  Bases <- MCBases
  Matchups <- LostPlaceMatchups
  Learnable <- MCLearnable
  BoardMax = 7
  StatMax = 65535
  TickMax = 255
  OverlapMax = 10
  PlayMax = 1

SPECIFICATION ReplaySpec

CHECK_DEADLOCK FALSE

INVARIANTS
  FightNeverFails
