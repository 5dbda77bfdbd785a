SPECIFICATION Spec
CONSTANTS
  s1 = s1
  s2 = s2
  STA <- MCSTA
  PairwiseUpdateCount = 1
  GroupUpdateCount = 2
  MaxGTK = 3
  MaxTimers = 2
  FeatureSets = {{"leave", "wnmsleep","overlap","rejoin","ptkrekey","keyfail"}}
SYMMETRY MCSymmetry
INVARIANT CountMatchesMarks
CHECK_DEADLOCK FALSE
