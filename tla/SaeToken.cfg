SPECIFICATION Spec
CONSTANTS
  Configs <- MCTokenConfigs
  SaeSync = 1
  AuthRetry = 1
  MaxQueue = 3
INVARIANT TokenCommitComplete
CHECK_DEADLOCK FALSE
