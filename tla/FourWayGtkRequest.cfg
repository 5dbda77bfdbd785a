SPECIFICATION FairSpec
CONSTANTS
  PairwiseUpdateCount = 2
  GroupUpdateCount = 1
  RetryConfigs = {FALSE}
  MaxANonce = 1
  MaxAssoc = 1
  MaxGTK = 2
  SNoncePolicies = {"keep"}
  GtkRequests = TRUE
  MaxRequests = 1
  MaxSNonce = 1
PROPERTY HandshakeEnds
CHECK_DEADLOCK FALSE
