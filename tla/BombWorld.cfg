SPECIFICATION FairSpec
CONSTANTS
  Ground <- MCGround
  DestWalls <- MCDestWalls
  Bonuses = {"kick", "extra_bomb"}
  MaxDrops = 2
  MaxMessages = 2
  StrayRanges = {2}
  StrayCells <- MCGround
  BaseBombsCount = 1
  MaxBombsCount = 2
  BaseRange = 1
  MaxRange = 2
INVARIANTS TypeOK ExplodesOnce NoGhosts BlastsHitWhatTheySee BombsWithinGear DeathReportedOnce
PROPERTIES EveryBombExplodes
CHECK_DEADLOCK FALSE
