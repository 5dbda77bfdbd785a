SPECIFICATION Spec
CONSTANTS
  PairwiseUpdateCount = 2
  GroupUpdateCount = 1
  RetryConfigs = {FALSE}
  MaxANonce = 2
  MaxAssoc = 2
  MaxGTK = 1
  SNoncePolicies = {"keep"}
  GtkRequests = FALSE
  MaxRequests = 0
  MaxSNonce = 3
INVARIANTS KeyAgreement StationNotAhead HandshakeHasTimer
CHECK_DEADLOCK FALSE
PROPERTY StepsArePairwise
