CONSTANTS
  emo = emo
  StartEps = {300}
  Ghosts <- NoGhosts
  Boards <- NoBoards
  MarchGrades = {42}
  LastGrade = 1
  TurnLimit = 40

SPECIFICATION FairSpec

PROPERTIES
  MatchConcludes
CHECK_DEADLOCK FALSE
