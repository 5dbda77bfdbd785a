SPECIFICATION FairSpec
CONSTANTS
  s1 = s1
  s2 = s2
  STA <- MCSTA
  PairwiseUpdateCount = 1
  GroupUpdateCount = 2
  MaxGTK = 3
  MaxTimers = 2
  FeatureSets = {{"leave", "overlap", "keyfail"}, {"leave", "ptkrekey", "rejoin", "keyfail"}, {"wnmsleep"}, {"leave", "gtkrequest"}, {"leave", "tkipfail"}}

INVARIANTS
  TypeOK
  MarkedStationIsInHandshake
  EstablishedStationsHaveTxGtk
  CountMatchesMarksAwake
  MarkedStationIsRetried
PROPERTY RekeyDrains
CHECK_DEADLOCK FALSE
