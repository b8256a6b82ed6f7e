CONSTANTS
  p1 = p1
  p2 = p2
  adm = adm
  b1 = b1
  b2 = b2
  Accounts = {p1, p2}
  AdminAccounts = {adm}
  BaseIds = {b1, b2}
  Updates <- Rebases
  ShopBoards <- EmptyOrOne
  DeckSize = 1
  MaxBlock = 1
  BlockTxs = 4
  PoolSize = 1
  PlayerEps = {300}
  LeaderboardSize = 1
  MarchGrades = {42}
  LastGrade = 1
  TurnLimit = 3

SPECIFICATION Spec

INVARIANTS
  TypeOK
  MatchesPlayable
  ReferencesResolve

PROPERTIES
  LifecycleImplemented

SYMMETRY PlayerSymmetry
CHECK_DEADLOCK FALSE
