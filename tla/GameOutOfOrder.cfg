SPECIFICATION FairSpec
CONSTANTS
  Sessions = 2
  InOrder = FALSE
  MaxPlayers = 4
  ExpectedPlayers = 2
  RequiredRoundsToWin = 1
  MaxScore = 1
  Cells = {c1}
PROPERTIES ForwardsExplosions
CHECK_DEADLOCK FALSE
