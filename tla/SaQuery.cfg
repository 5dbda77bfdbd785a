SPECIFICATION FairSpec
CONSTANTS
  MaxTimeout = 1
  RetryTimeout = 1
  UnprotLimit = 1
  Ids = {1}
  Keys = {1, 2, 3}
  Budgets <- MCBudgets
INVARIANT ComebackSuffices
PROPERTIES LiveAssociationKept StationStays LostStationReturns MismatchResolved
CHECK_DEADLOCK FALSE
