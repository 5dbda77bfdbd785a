SPECIFICATION FairSpec
CONSTANTS
  PairwiseUpdateCount = 2
  GroupUpdateCount = 1
  RetryConfigs = {FALSE, TRUE}
  MaxANonce = 2
  MaxAssoc = 1
  MaxGTK = 2
  SNoncePolicies = {"keep", "latest", "first"}
  GtkRequests = FALSE
  MaxRequests = 1
  MaxSNonce = 2
INVARIANTS TypeOK PtkInstalledOnce GtkNeverGoesBack NoRetransmittedKeys
PROPERTIES HandshakeEnds KeysArePairwise
CHECK_DEADLOCK FALSE
