SPECIFICATION Spec
CONSTANTS
  IdMod = 4
  RandMod = 3
  MaxRounds = 6
  MaxSteps = 12
  MaxRetrans = 2
  FirstRto = 1
  MaxRto = 2
  QuietPeriod = 4
  ReAuthMax = 2
  ServerTimeout = 3
  ClientTimeout = 5
  StartDelay = 1
  StartPeriod = 2
  MaxStart = 2
  HeldPeriod = 5
  AuthPeriod = 3
  FirstTimeout = 2
  EapolTimeout = 6
  FailTimeout = 1
  Configs <- MCConfigs
  Ids = {0}
INVARIANTS StepsEnd OnlyGood EapKeyAgreement ApWaitsWithTimer StaWaitsWithTimer
PROPERTIES Completes SilentStationLeaves
