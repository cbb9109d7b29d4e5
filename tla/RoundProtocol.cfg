SPECIFICATION FairProtocol
CONSTANTS
  Sessions = 2
  InOrder = TRUE
  MaxPlayers = 4
  ExpectedPlayers = 2
  RequiredRoundsToWin = 1
  MaxScore = 1
  Cells = {}
  Prompt = TRUE
INVARIANTS ProtocolTypeOK RoundsAreNoticed ClientsSendAsAssumed SameDeaths SameScores SameMap
CHECK_DEADLOCK FALSE
