SPECIFICATION FairProtocol
CONSTANTS
  Sessions = 2
  InOrder = TRUE
  MaxPlayers = 4
  ExpectedPlayers = 2
  RequiredRoundsToWin = 1
  MaxScore = 0
  Cells = {}
  Prompt = FALSE
PROPERTIES ScoresThenGame
CHECK_DEADLOCK FALSE
