SPECIFICATION FairSpec
CONSTANTS
  RoundModes <- Single
  NPlanes = 3
  NBullets = 1
  PlayerHP = 2
  EnemyHPs = {2}
  PlayerTicks = 3
  EnemyTicks = 2
  Volley = 1
  KillScore = 2
  HitScore = 1
  CrashScore = 1
  CheatCost = 1
  NScores = 2
  MaxScore = 1
INVARIANTS
  TypeOK
  LiveHasHp
PROPERTIES
  TableKeepsBest
  ExplosionsEnd
