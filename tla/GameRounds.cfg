SPECIFICATION FairSpec
CONSTANTS
  Sessions = 3
  InOrder = TRUE
  MaxPlayers = 4
  ExpectedPlayers = 3
  RequiredRoundsToWin = 1
  MaxScore = 1
  Cells = {c1}
INVARIANTS TypeOK BonusGrantedOnce
PROPERTIES ImplementsRounds NoDeadWinner ForwardsExplosions GameStarts RoundsGoOn
CHECK_DEADLOCK FALSE
