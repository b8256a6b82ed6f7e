CONSTANTS
  emo = emo
  StartEps = {1, 800}
  Ghosts <- MCGhosts
  Boards <- OneBoard
  MarchGrades = {7, 20}
  LastGrade = 1
  TurnLimit = 5

SPECIFICATION Spec

INVARIANTS
  
  PlaceIsDeserved

PROPERTIES
  NoRepeatedOpponent
  RetiredGhostsFrozen
CHECK_DEADLOCK FALSE
