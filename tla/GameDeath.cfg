SPECIFICATION Spec
CONSTANTS
  RoundModes <- Single
  NPlanes = 3
  NBullets = 1
  PlayerHP = 2
  EnemyHPs = {2}
  PlayerTicks = 2
  EnemyTicks = 1
  Volley = 1
  KillScore = 2
  HitScore = 1
  CrashScore = 1
  CheatCost = 1
  NScores = 1
  MaxScore = 1
PROPERTIES
  DeathEndsRound
