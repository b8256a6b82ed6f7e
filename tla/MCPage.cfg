CONSTANTS
  NoAccount = NoAccount
  Extension <- MCExtension
  GradeOf <- MCGradeOf
  TurnLimit = 10
  Health = 3
  Rivals = 2
  Damage = 2
  BuiltIds <- MCBuiltIds
  KnownIds <- MCKnownIds
  Worlds <- MCWorlds

SPECIFICATION Spec

INVARIANTS
  ConnectionLive
  NavShown
  WaitingCovers
  EpShown
  
  DeckChosen
  DecksCoherent
  ClientAgrees
  ResultTrue
  HealthShown

PROPERTY
  WaitingEnds

CHECK_DEADLOCK FALSE
