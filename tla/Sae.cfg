SPECIFICATION FairSpec
CONSTANTS
  Configs <- MCConfigs
  SaeSync = 1
  AuthRetry = 1
  MaxQueue = 3
INVARIANTS SaeKeyAgreement FramesComplete
PROPERTIES AcceptedStays SilentPeerEnds MeshCompletes
CHECK_DEADLOCK FALSE
