SPECIFICATION FairSpec
CONSTANTS
  Sessions = 2
  InOrder = TRUE
  MaxPlayers = 4
  ExpectedPlayers = 2
  RequiredRoundsToWin = 1
  MaxScore = 5
  Cells = {c1}
INVARIANTS GameEndsWhenWon
CHECK_DEADLOCK FALSE
