SPECIFICATION Spec
CONSTANTS
  PairwiseUpdateCount = 2
  GroupUpdateCount = 1
  RetryConfigs = {TRUE}
  MaxANonce = 2
  MaxAssoc = 2
  MaxGTK = 1
  SNoncePolicies = {"keep"}
  GtkRequests = FALSE
  MaxRequests = 0
  MaxSNonce = 2
INVARIANT NoRetransmittedKeys
CHECK_DEADLOCK FALSE
